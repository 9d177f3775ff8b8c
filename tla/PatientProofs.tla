----------------------------- MODULE PatientProofs -----------------------------
(***************************************************************************)
(* What holds of clients that do not reset, of clients that also stay for  *)
(* their answers, and of those that ask one thing at a time as well.       *)
(***************************************************************************)
EXTENDS AnswerProofs

-----------------------------------------------------------------------------
(* Clients that never reset. *)

Lasting == "reset" \notin Env

NoReset == \A c \in Clients : peer[c] \notin {"rst", "dead"}

\* Without resets a send succeeds wherever there is a socket.
LEMMA SendWorks ==
    ASSUME IInv, NoReset, NEW fd \in Fds
    PROVE  send(fd) = IF sock[fd] = None THEN {"fail"} ELSE {"ok"}
  BY DEF send, NoReset, IInv, RegistryInv

\* An error is answered, or there is no socket to answer on.
LEMMA CalmError ==
    ASSUME IInv, NoReset, NEW cn, NEW s, NEW fd \in Fds, NEW r, handleError(cn, s, fd, r)
    PROVE  /\ pc' = "poll" /\ UNCHANGED up
           /\ sock[fd] # None => /\ got' = Delivered(fd, r) /\ conn' = cn /\ kq' = Done(kq)
                                 /\ UNCHANGED kernelVars
           /\ sock[fd] = None => /\ close(fd, Done(kq)) /\ conn' = Put(cn, s, fd, None)
                                 /\ UNCHANGED got
  BY SendWorks DEF handleError, closeConnection, removeConnection

\* A socket is closed when its client has left, or after the timeout.
Ousts(fd) ==
    /\ Closes(fd)
    /\ \/ sock[fd] = None
       \/ peer[sock[fd]] = "fin"
       \/ \E s \in Servers : isTimeout(s, fd)

LEMMA CalmSockets ==
    ASSUME IInv, LoopInv, NoReset, Server
    PROVE  \/ UNCHANGED <<sock, peer>>
           \/ \E fd \in Fds : Ousts(fd)
           \/ \E s \in Servers, fd \in Fds : Accepts(s, fd)
<1> DEFINE Goal == \/ UNCHANGED <<sock, peer>>
                   \/ \E fd \in Fds : Ousts(fd)
                   \/ \E s \in Servers, fd \in Fds : Accepts(s, fd)
<1>1. /\ peer \in [Clients -> PeerStates] /\ None \notin Clients
      /\ sock \in [Fds -> Clients \cup {None}]
  BY NoneIsNoObject DEF IInv, RegistryInv
<1>2. \A q, fd : close(fd, q) => Closes(fd)
  BY DEF close, Closes
<1>3. ASSUME NEW cn, NEW s, NEW fd \in Fds, NEW r, handleError(cn, s, fd, r)
      PROVE  Goal
  BY <1>2, <1>3, CalmError DEF Ousts, kernelVars
<1>4. \A r : Exit(r) => UNCHANGED <<sock, peer>>
  BY DEF Exit, serverVars
<1>5. \A k : recv(k) => Fd \in Fds
  BY RecvFacts
<1>6. \A type : Event(type) /\ type # SERVER => Fd \in Fds
  BY EventFacts DEF Event, IInv
<1>7. Poll \/ Idle => Goal
  BY DEF Poll, Idle, kernelVars
<1>8. ASSUME NEW s \in Servers, NEW fd \in Fds, validateLastActiveTime(s, fd)
      PROVE  Goal
  BY <1>2, <1>4, <1>8 DEF validateLastActiveTime, Ousts
<1>9. ASSUME connectClient
      PROVE  Goal
  <2>1. CASE \E r : Exit(r)
    BY <1>4, <2>1
  <2>2. CASE ~\E r : Exit(r)
    <3>1. kq.polled.info.type = SERVER /\ Srv \in Servers
      BY <1>9, EventFacts DEF connectClient, Event, IInv
    <3>2. ASSUME NEW fd \in Fds, Nth(fd, 0), conn[Srv][fd] = None,
                 sock' = [sock EXCEPT ![fd] = Head(backlog[Srv])],
                 conn' = Put(conn, Srv, fd, NewConnection),
                 backlog' = [backlog EXCEPT ![Srv] = Tail(@)],
                 UNCHANGED <<pipe, peer, got, up>>, UNCHANGED inbuf
          PROVE  Goal
      <4>1. kq.polled # None /\ Srv = Fd /\ backlog[Srv] # <<>>
        BY <1>9, EventFacts DEF connectClient, Event, IInv, AcceptWaits, Fd
      <4>2. Accepts(Srv, fd)
        BY <3>2, <4>1 DEF Accepts, Nth
      <4>3. QED
        BY <3>1, <4>2
    <3>3. QED
      BY <1>9, <2>2, <3>2 DEF connectClient
  <2>3. QED
    BY <2>1, <2>2
<1>10. ASSUME NEW k, RequestTooLarge(k) \/ RequestRejected(k)
       PROVE  Goal
  <2>1. Fd \in Fds
    BY <1>5, <1>10 DEF RequestTooLarge, RequestRejected, Takes
  <2>2. QED
    BY <1>3, <1>10, <2>1 DEF RequestTooLarge, RequestRejected
<1>11. \A k : RequestIncomplete(k) \/ RequestStatic(k) \/ RequestCgi(k) => Goal
  BY <1>4 DEF RequestIncomplete, RequestStatic, RequestCgi, kernelVars
<1>12. RequestEof => Goal
  <2>1. RequestEof => Fd \in Fds
    BY <1>6, EventTypes DEF RequestEof
  <2>2. QED
    BY <1>1, <1>2, <2>1 DEF RequestEof, closeConnection, Ousts, NoReset
<1>13. RequestError => Goal
  <2>1. ASSUME RequestError
        PROVE  sock[Fd] = None
    BY <1>1, <1>6, <2>1, EventTypes DEF RequestError, NoReset
  <2>2. ASSUME RequestError
        PROVE  UNCHANGED <<sock, peer>>
    <3>1. peer' = [c \in Clients |-> peer[c]]
      BY <1>1, <2>1, <2>2 DEF RequestError
    <3>2. QED
      BY <1>1, <2>2, <3>1 DEF RequestError
  <2>3. QED
    BY <2>2
<1>14. SendResponse => Goal
  BY <1>4 DEF SendResponse, kernelVars
<1>15. NoResponse => Goal
  BY <1>3, <1>6, EventTypes DEF NoResponse
<1>16. CgiData => Goal
  BY DEF CgiData, kernelVars
<1>17. ASSUME CgiEof
       PROVE  Goal
  <2>1. Fd \in Fds /\ pipe[Fd] # None
    <3>1. kq.polled # None /\ kq.polled.info.type = CGI_RESPONSE /\ up = "up" /\ pc = "process"
      BY <1>17 DEF CgiEof, Event
    <3>2. QED
      BY <1>6, <1>17, <3>1, EventTypes DEF CgiEof, LoopInv, NeverBlocks, Fd
  <2>2. sock[Fd] = None
    BY <2>1 DEF IInv, RegistryInv, OpenIsWatched
  <2>3. QED
    BY <1>2, <1>17, <2>1, <2>2 DEF CgiEof, Ousts, kernelVars
<1>18. QED
  BY <1>7, <1>8, <1>9, <1>10, <1>11, <1>12, <1>13, <1>14, <1>15, <1>16, <1>17 DEF Server

LEMMA NoResetStep ==
    ASSUME Lasting, IInv, LoopInv, NoReset, [Next]_vars
    PROVE  NoReset'
<1>1. peer \in [Clients -> PeerStates]
  BY DEF IInv, RegistryInv
<1>2. CASE Server
  <2>1. \A fd : Ousts(fd) => NoReset'
    BY <1>1 DEF Ousts, Closes, NoReset
  <2>2. UNCHANGED peer => NoReset'
    BY DEF NoReset
  <2>3. QED
    BY <1>2, <2>1, <2>2, CalmSockets DEF Accepts
<1>3. CASE Environment
  <2>1. \A c \in Clients : Connect(c) \/ Leave(c) \/ Reset(c) => NoReset'
    BY <1>1 DEF Connect, Leave, Reset, NoReset, Lasting
  <2>2. UNCHANGED peer => NoReset'
    BY DEF NoReset
  <2>3. QED
    BY <1>3, <2>1, <2>2, EnvCases DEF Sent, Runs
<1>4. CASE UNCHANGED vars
  BY <1>4 DEF vars, NoReset
<1>5. QED
  BY <1>2, <1>3, <1>4 DEF Next, Environment

\* A response event whose send fails has no socket, and so no entry that could be lost.
LEMMA CalmResponse ==
    ASSUME IInv, NoReset, Server, Event(RESPONSE)
    PROVE  UNCHANGED sock \/ (sock[Fd] = None /\ sock' = [sock EXCEPT ![Fd] = None])
<1>1. Fd \in Fds
  BY EventFacts, EventTypes DEF Event, IInv
<1>2. NoResponse => UNCHANGED sock \/ (sock[Fd] = None /\ sock' = [sock EXCEPT ![Fd] = None])
  BY <1>1, CalmError DEF NoResponse, close, kernelVars
<1>3. SendResponse => UNCHANGED sock
  BY DEF SendResponse, Exit, serverVars, kernelVars
<1>4. Server => NoResponse \/ SendResponse
  <2>1. ~Poll /\ ~Idle /\ \A s \in Servers, fd \in Fds : ~validateLastActiveTime(s, fd)
    BY DEF Event, Poll, Idle, validateLastActiveTime, Expired
  <2>2. \A k : ~recv(k)
    BY EventTypes DEF Event, recv
  <2>3. ~connectClient /\ ~RequestEof /\ ~RequestError /\ ~CgiData /\ ~CgiEof
    BY EventTypes DEF Event, connectClient, RequestEof, RequestError, CgiData, CgiEof
  <2>4. QED
    BY <2>1, <2>2, <2>3
       DEF Server, RequestTooLarge, RequestIncomplete, RequestStatic, RequestRejected, RequestCgi, Takes
<1>5. QED
  BY <1>2, <1>3, <1>4

LEMMA EntriesServerStep ==
    ASSUME IInv, LoopInv, NoReset, ConnIffSocket, Server
    PROVE  ConnIffSocket'
<1>1. /\ sock \in [Fds -> Clients \cup {None}] /\ conn \in Tables
      /\ \A c \in Clients : Home[c] \in Servers /\ c # None
  BY WebserverAssumption, NoneIsNoObject DEF IInv, RegistryInv, TableInv
<1>2. UNCHANGED sock /\ SameTable(conn, conn') => ConnIffSocket'
  BY <1>1 DEF ConnIffSocket, SameTable, SameEntry
<1>3. ASSUME UNCHANGED sock, NEW s \in Servers, NEW fd \in Fds, conn[s][fd] # None,
             NEW b, NEW q, NEW o, Becomes(s, fd, b, q, o)
      PROVE  ConnIffSocket'
  BY <1>1, <1>3 DEF ConnIffSocket, Becomes, SameTableBut, SameEntry
<1>4. ASSUME NEW s \in Servers, NEW fd \in Fds, sock[fd] # None => s = Home[sock[fd]],
             sock' = [sock EXCEPT ![fd] = None], Removed(s, fd)
      PROVE  ConnIffSocket'
  BY <1>1, <1>4 DEF ConnIffSocket, Removed, SameTableBut, SameEntry
<1>5. ASSUME NEW s \in Servers, NEW fd \in Fds, TimesOut(s, fd)
      PROVE  ConnIffSocket'
  <2>1. Closes(fd) /\ Removed(s, fd)
    BY <1>1, <1>5, PutEntry DEF TimesOut, close, Closes, Entries, Removed
  <2>2. conn[s][fd] # None
    BY <1>5 DEF TimesOut, isTimeout
  <2>3. QED
    BY <1>4, <2>1, <2>2 DEF ConnIffSocket, Closes
<1>6. ASSUME Event(SERVER), NEW fd \in Fds, Accepts(Fd, fd)
      PROVE  ConnIffSocket'
  <2>1. /\ Fd \in Servers /\ kq.polled # None
        /\ backlog[Fd] \in Seq(Clients) /\ backlog[Fd] # <<>>
        /\ \A i \in DOMAIN backlog[Fd] : Home[backlog[Fd][i]] = Fd
    BY <1>6, EventFacts DEF Event, IInv, EnvInv, BacklogHome, Accepts
  <2> DEFINE c == Head(backlog[Fd])
             s == Fd
  <2>2. c \in Clients /\ Home[c] = s /\ s \in Servers
    BY <2>1
  <2> HIDE DEF c
  <2>3. conn'[s][fd] # None /\ SameTableBut(conn, conn', s, fd)
    BY <1>1, <1>6, <2>1, FreshEntry, PutEntry DEF Accepts, Entries
  <2>4. \A g \in Fds : sock'[g] = IF g = fd THEN c ELSE sock[g]
    BY <1>1, <1>6 DEF Accepts, c
  <2>5. sock[fd] = None
    BY <1>6 DEF Accepts, Free
  <2> HIDE DEF s
  <2>6. QED
    BY <1>1, <2>2, <2>3, <2>4, <2>5 DEF SameTableBut, SameEntry, ConnIffSocket
<1>7. \A fd, r : Sends(fd, r) => UNCHANGED sock
  BY DEF Sends, kernelVars
<1>8. kq.polled # None => Srv \in Servers /\ (kq.polled.info.type # SERVER => Fd \in Fds)
                         /\ (kq.polled.info.type = CGI_RESPONSE => CgiTo \in Fds)
  BY EventFacts DEF IInv
<1>9. Event(REQUEST) => (sock[Fd] # None => Srv = Home[sock[Fd]]) /\ Fd \in Fds /\ Srv \in Servers
  BY <1>8, EventTypes DEF Event, LoopInv, PolledKnown, Holding
<1>10. Passes => ConnIffSocket'
  BY <1>2 DEF Passes
<1>11. ASSUME NEW k \in Nat, Reads(k) \/ Dispatches(k)
       PROVE  ConnIffSocket'
  <2>1. recv(k) /\ Event(REQUEST)
    BY <1>11 DEF Reads, Dispatches, Cuts, recv
  <2>2. Srv \in Servers /\ Fd \in Fds /\ conn[Srv][Fd] # None
    BY <1>1, <1>9, <2>1, RecvEntry DEF ConnIffSocket
  <2>3. UNCHANGED sock /\ \E b, q, o : Becomes(Srv, Fd, b, q, o)
    BY <1>7, <1>11, <2>2 DEF Reads, Dispatches, Cuts, Refuses, Opens, kernelVars
  <2>4. QED
    BY <1>3, <2>2, <2>3
<1>12. Answers => ConnIffSocket'
  BY <1>3, <1>7, <1>8, EventTypes DEF Answers, Event, HasResponse
<1>13. Collects => ConnIffSocket'
  BY <1>2, <1>3, <1>8, EventTypes DEF Collects, Event, Owner, kernelVars
<1>14. Event(REQUEST) /\ Drops(Srv, Fd) => ConnIffSocket'
  BY <1>4, <1>9 DEF Drops, Closes
<1>15. Event(RESPONSE) /\ Drops(Srv, Fd) => ConnIffSocket'
  <2>1. Event(RESPONSE) => Srv \in Servers /\ Fd \in Fds
    BY <1>8, EventTypes DEF Event
  <2>2. Event(RESPONSE) /\ Drops(Srv, Fd) => sock[Fd] = None
    <3>1. Drops(Srv, Fd) /\ Fd \in Fds => sock'[Fd] = None
      BY <1>1 DEF Drops, Closes
    <3>2. QED
      BY <2>1, <3>1, CalmResponse
  <2>3. QED
    BY <1>4, <2>1, <2>2 DEF Drops, Closes
<1>16. ASSUME Finishes
       PROVE  ConnIffSocket'
  <2>1. kq.polled # None /\ kq.polled.info.type = CGI_RESPONSE /\ up = "up" /\ pc = "process"
    BY <1>16 DEF Finishes, Event
  <2>2. Fd \in Fds /\ CgiTo \in Fds /\ Srv \in Servers /\ sock[Fd] = None
    <3>1. pipe[Fd] # None
      BY <2>1 DEF LoopInv, NeverBlocks, Fd
    <3>2. QED
      BY <1>8, <2>1, <3>1, EventTypes DEF IInv, RegistryInv, OpenIsWatched
  <2>3. UNCHANGED sock
    <3>1. Closes(Fd) => sock' = sock
      BY <1>1, <2>2 DEF Closes
    <3>2. QED
      BY <1>16, <3>1 DEF Finishes, Ends, kernelVars
  <2>4. QED
    BY <1>2, <1>3, <1>16, <2>2, <2>3 DEF Finishes, Owner
<1>17. Ends /\ UNCHANGED conn => ConnIffSocket'
  BY DEF Ends, kernelVars, ConnIffSocket
<1>18. QED
  BY <1>5, <1>6, <1>10, <1>11, <1>12, <1>13, <1>14, <1>15, <1>16, <1>17, ServerCases

LastingInv == IInv /\ SocketInv /\ LoopInv /\ NoReset /\ ConnIffSocket /\ EndsOnlyFor

LEMMA LastingStep ==
    ASSUME Lasting, LastingInv, [Next]_vars
    PROVE  LastingInv'
<1>1. (IInv /\ SocketInv /\ LoopInv /\ NoReset)'
  BY NextInv, SocketsStep, SocketsStutter, LoopStep, NoResetStep DEF LastingInv
<1>2. CASE Next
  <2>1. EndsOnlyFor'
    BY <1>2, CauseStep DEF LastingInv
  <2>2. Server => ConnIffSocket'
    BY EntriesServerStep DEF LastingInv
  <2>3. Environment => ConnIffSocket'
    BY EnvCases DEF LastingInv, ConnIffSocket, SameTable, SameEntry
  <2>4. QED
    BY <1>1, <1>2, <2>1, <2>2, <2>3 DEF LastingInv, Next, Environment
<1>3. CASE UNCHANGED vars
  BY <1>1, <1>3 DEF vars, LastingInv, ConnIffSocket, EndsOnlyFor, Free
<1>4. QED
  BY <1>2, <1>3

LEMMA LastingInit ==
    ASSUME Init
    PROVE  LastingInv
<1>1. ConnIffSocket /\ EndsOnlyFor /\ NoReset
  BY DEF Init, ConnIffSocket, EndsOnlyFor, NoReset
<1>2. QED
  BY <1>1, InitInv, SocketsInit, LoopInit DEF LastingInv

\* However many servers there are, connections_ has an entry for every accepted socket
\* and no other, as long as no client resets: it takes the failed send to another
\* server's client to part them (Server.cpp:146-150, Servers.cpp:14-19).
THEOREM EntriesFollowSocketsUnlessReset == Lasting => (Spec => []ConnIffSocket)
<1> SUFFICES ASSUME Lasting PROVE Spec => []ConnIffSocket
  OBVIOUS
<1>1. Init => LastingInv
  BY LastingInit
<1>2. LastingInv /\ [Next]_vars => LastingInv'
  BY LastingStep
<1>3. LastingInv => ConnIffSocket
  BY DEF LastingInv
<1>4. QED
  BY <1>1, <1>2, <1>3, PTL DEF Spec

\* "Failed to remove FD from kqueue" (Kqueue.cpp:96) is never thrown unless a client
\* resets, and nothing ends the process but the want of descriptors, whatever else the
\* clients and the programs do (main.cpp:69).
THEOREM NothingThrownUnlessReset ==
    Lasting => (Spec => [](RemoveEventSucceeds /\ (up # "up" => up \in {"accept", "pipe"} /\ Cardinality(Free) < 4)))
<1> DEFINE Wanting == up # "up" => up \in {"accept", "pipe"} /\ Cardinality(Free) < 4
<1> SUFFICES ASSUME Lasting PROVE Spec => [](RemoveEventSucceeds /\ Wanting)
  OBVIOUS
<1>1. Init => LastingInv
  BY LastingInit
<1>2. LastingInv /\ [Next]_vars => LastingInv'
  BY LastingStep
<1>3. LastingInv => RemoveEventSucceeds /\ Wanting
  BY DEF LastingInv, EndsOnlyFor, NoReset, RemoveEventSucceeds, IInv, TableInv, Exits
<1> HIDE DEF Wanting
<1>4. QED
  BY <1>1, <1>2, <1>3, PTL DEF Spec

-----------------------------------------------------------------------------
(* Clients that stay until they are answered, programs that answer in time. *)

Staying == /\ Env \cap {"reset", "impatient", "slow", "execFails"} = {}
           /\ "large" \notin Kinds

\* A client that has left has all its answers.
LeftAnswered == \A c \in Clients : peer[c] = "fin" => ~Outstanding(c)

Refused(o, c, i) ==
    c \in Clients /\ i \in DOMAIN got[c] /\ got[c][i].code # 200 /\ o \in got[c][i].of

\* Only what the router refuses is answered by an error.
RefusedKind ==
    \A o \in Origins : \A c, i : Refused(o, c, i) =>
       o[2] <= Len(sent[o[1]]) /\ sent[o[1]][o[2]] = "fail"

\* While a program runs for a client, the client's connection is there and in time.
Owned(x) ==
    LET s == EventOf(x).srv
        f == EventOf(x).client
    IN  /\ f \in Fds /\ sock[f] = pipe[x][1] /\ s = Home[pipe[x][1]]
        /\ conn[s][f] # None /\ conn[s][f].age <= Limit

PipesOwned == \A x \in Fds : pipe[x] # None => Owned(x)

HeldOwn == \A o \in Origins : \A s, f, j : Held(o, s, f, j) => sock[f] = o[1]
KeptOwn == \A o \in Origins : \A s, f, x : Kept(o, s, f, x) => sock[f] = o[1]

StayInv == /\ LeftAnswered /\ RefusedKind /\ PipesOwned
           /\ HeldOwn /\ KeptOwn /\ OwnOutputOnly

\* A client whose program runs, or whose output is collected, has an answer to come.
LEMMA WaitingOutstanding ==
    ASSUME IInv, AnswerInv, UsedInv, RefusedKind, NEW o \in Origins, Waiting(o)
    PROVE  Outstanding(o[1])
<1>1. /\ o[1] \in Clients /\ o[2] \in Nat /\ o[2] > 0 /\ o = <<o[1], o[2]>>
      /\ Whole(o[1]) \in Int
  BY OriginType
<1>2. o[2] <= Whole(o[1]) /\ sent[o[1]][o[2]] = "cgi"
  BY DEF UsedInv, Used
<1>3. ASSUME NEW i \in DOMAIN got[o[1]], o \in got[o[1]][i].of
      PROVE  FALSE
  <2>1. CASE got[o[1]][i].code = 200
    BY <1>1, <1>3, <2>1 DEF AnswerInv, ToldApart, Told
  <2>2. CASE got[o[1]][i].code # 200
    BY <1>1, <1>2, <1>3, <2>2 DEF RefusedKind, Refused
  <2>3. QED
    BY <2>1, <2>2
<1>4. o \notin Answered(o[1])
  BY <1>3 DEF Answered
<1>5. o[2] \in 1..Whole(o[1])
  BY <1>1, <1>2
<1>6. QED
  BY <1>1, <1>4, <1>5 DEF Outstanding

\* A socket with an entry stays its client's while the entry is in time and the client
\* waits for an answer.
LEMMA SocketKept ==
    ASSUME IInv, LoopInv, NoReset, ConnIffSocket, Server, NEW fd \in Fds, sock[fd] # None
    PROVE  /\ sock'[fd] # None => sock'[fd] = sock[fd]
           /\ LeftAnswered /\ Outstanding(sock[fd])
                 /\ conn[Home[sock[fd]]][fd].age <= Limit => sock'[fd] = sock[fd]
<1>1. sock \in [Fds -> Clients \cup {None}] /\ Limit \in Nat /\ conn \in Tables
  BY LimitType DEF IInv, RegistryInv, TableInv
<1>2. CASE UNCHANGED <<sock, peer>>
  BY <1>2
<1>3. ASSUME NEW s \in Servers, NEW g \in Fds, Accepts(s, g)
      PROVE  sock'[fd] = sock[fd]
  BY <1>1, <1>3 DEF Accepts, Free
<1>4. ASSUME NEW g \in Fds, Ousts(g)
      PROVE  /\ sock'[fd] \in {sock[fd], None}
             /\ LeftAnswered /\ Outstanding(sock[fd])
                   /\ conn[Home[sock[fd]]][fd].age <= Limit => sock'[fd] = sock[fd]
  <2>1. sock' = [sock EXCEPT ![g] = None]
    BY <1>4 DEF Ousts, Closes
  <2>2. CASE g # fd
    BY <1>1, <2>1, <2>2
  <2>3. CASE g = fd
    <3>1. peer[sock[fd]] = "fin" => ~(LeftAnswered /\ Outstanding(sock[fd]))
      BY <1>1 DEF LeftAnswered
    <3>2. ASSUME NEW s \in Servers, isTimeout(s, fd)
          PROVE  ~(conn[Home[sock[fd]]][fd].age <= Limit)
      <4>1. s = Home[sock[fd]] /\ conn[s][fd] # None /\ conn[s][fd].age > Limit
        BY <3>2 DEF isTimeout, ConnIffSocket
      <4>2. conn[s][fd].age \in Int
        BY <1>1, <4>1 DEF Tables, Connection
      <4>3. QED
        BY <1>1, <4>1, <4>2
    <3>3. QED
      BY <1>1, <1>4, <2>1, <2>3, <3>1, <3>2 DEF Ousts
  <2>4. QED
    BY <2>2, <2>3
<1>5. QED
  BY <1>2, <1>3, <1>4, CalmSockets

\* No handler makes a Connection older.
Aged(cn) == \A s \in Servers, fd \in Fds : cn[s][fd] # None =>
               \/ cn[s][fd].age = 0
               \/ conn[s][fd] # None /\ cn[s][fd].age = conn[s][fd].age

LEMMA AgedPut ==
    ASSUME NEW cn \in Tables, Aged(cn), NEW s \in Servers, NEW fd \in Fds, NEW e \in Entries,
           e # None => \/ e.age = 0
                       \/ cn[s][fd] # None /\ e.age = cn[s][fd].age
    PROVE  Aged(Put(cn, s, fd, e)) /\ Put(cn, s, fd, e) \in Tables
<1>1. \A t \in Servers, g \in Fds :
         Put(cn, s, fd, e)[t][g] = IF t = s /\ g = fd THEN e ELSE cn[t][g]
  BY DEF Put, Tables
<1>2. Put(cn, s, fd, e) \in Tables
  BY PutEntry
<1>3. QED
  BY <1>1, <1>2 DEF Aged

LEMMA AgedTouched ==
    ASSUME conn \in Tables, NEW s \in Servers, NEW fd \in Fds
    PROVE  /\ updateLastActiveTime(s, fd) \in Tables /\ Aged(updateLastActiveTime(s, fd))
           /\ Aged(conn)
           /\ updateLastActiveTime(s, fd)[s][fd] # None => updateLastActiveTime(s, fd)[s][fd].age = 0
<1>1. Aged(conn)
  BY DEF Aged
<1>2. CASE conn[s][fd] = None
  BY <1>1, <1>2 DEF updateLastActiveTime
<1>3. CASE conn[s][fd] # None
  <2>1. conn[s][fd] \in Connection
    BY <1>3 DEF Tables
  <2> DEFINE e == [conn[s][fd] EXCEPT !.age = 0]
  <2>2. e \in Entries /\ e.age = 0
    BY <2>1, MemberTypes DEF Entries, Connection
  <2>3. updateLastActiveTime(s, fd) = Put(conn, s, fd, e)
    BY <1>3 DEF updateLastActiveTime, Put, Tables
  <2> HIDE DEF e
  <2>4. Put(conn, s, fd, e)[s][fd] = e
    BY <2>2, PutEntry
  <2>5. Aged(Put(conn, s, fd, e)) /\ Put(conn, s, fd, e) \in Tables
    BY <1>1, <2>2, AgedPut
  <2>6. QED
    BY <1>1, <2>2, <2>3, <2>4, <2>5
<1>4. QED
  BY <1>2, <1>3

LEMMA AgedAppended ==
    ASSUME IInv, NEW k, recv(k)
    PROVE  Appended(k).age = 0 /\ Appended(k) \in Connection /\ Appended(k) \in Entries
<1>1. Fd \in Fds /\ Srv \in Servers /\ conn \in Tables
  BY RecvFacts DEF IInv, TableInv
<1>2. Appended(k) \in Connection
  BY RecvFacts
<1>3. /\ Touched[Srv][Fd] # None => Touched[Srv][Fd].age = 0 /\ Touched[Srv][Fd] \in Connection
      /\ NewConnection.age = 0 /\ NewConnection \in Connection
  BY <1>1, AgedTouched, FreshType DEF Touched, Tables, NewConnection
<1>4. Appended(k).age = 0
  BY <1>3 DEF Appended, Connection
<1>5. QED
  BY <1>2, <1>4 DEF Entries

LEMMA AgesKept ==
    ASSUME IInv, Server
    PROVE  Aged(conn')
<1>1. conn \in Tables /\ Aged(conn) /\ None \in Entries
  BY DEF IInv, TableInv, Aged, Entries
<1>2. \A e \in Connection : e \in Entries /\ e # None
  BY MemberTypes DEF Entries
<1>3. UNCHANGED conn => Aged(conn')
  BY <1>1 DEF Aged
<1>4. \A cn \in Tables, s \in Servers, fd \in Fds : Aged(cn) => Aged(Put(cn, s, fd, None))
  BY <1>1, AgedPut
<1>5. \A r : Exit(r) => Aged(conn')
  BY <1>3 DEF Exit, serverVars
<1>6. ASSUME NEW cn \in Tables, Aged(cn), NEW s \in Servers, NEW fd \in Fds, NEW r,
             handleError(cn, s, fd, r)
      PROVE  Aged(conn')
  BY <1>3, <1>4, <1>6 DEF handleError, closeConnection, removeConnection, Exit, serverVars
<1>7. kq.polled # None => /\ Srv \in Servers
                          /\ (kq.polled.info.type # SERVER => Fd \in Fds)
                          /\ (kq.polled.info.type = CGI_RESPONSE => CgiTo \in Fds)
  BY EventFacts DEF IInv
<1>8. \A type : Event(type) /\ type # SERVER => Fd \in Fds /\ Srv \in Servers
  BY <1>7 DEF Event
<1>9. \A type : Event(type) /\ type # SERVER => Touched \in Tables /\ Aged(Touched)
  BY <1>1, <1>8, AgedTouched DEF Touched
<1>10. ASSUME NEW k, recv(k)
       PROVE  /\ Fd \in Fds /\ Srv \in Servers
              /\ \A e \in Connection : e.age = 0 => /\ Put(conn, Srv, Fd, e) \in Tables
                                                    /\ Aged(Put(conn, Srv, Fd, e))
              /\ Appended(k) \in Connection /\ Appended(k).age = 0
              /\ hasRequest(Appended(k).buf) =>
                    Rest(Appended(k)) \in Connection /\ Rest(Appended(k)).age = 0
  <2>1. Fd \in Fds /\ Srv \in Servers
    BY <1>10, RecvFacts
  <2>2. Appended(k) \in Connection /\ Appended(k).age = 0
    BY <1>10, AgedAppended
  <2>3. hasRequest(Appended(k).buf) => Rest(Appended(k)) \in Connection /\ Rest(Appended(k)).age = 0
    BY <2>2, RestType DEF Rest, Connection
  <2>4. QED
    BY <1>1, <1>2, <2>1, <2>2, <2>3, AgedPut
<1>11. Poll \/ Idle => Aged(conn')
  BY <1>3 DEF Poll, Idle
<1>12. \A s \in Servers, fd \in Fds : validateLastActiveTime(s, fd) => Aged(conn')
  BY <1>1, <1>4, <1>5 DEF validateLastActiveTime, removeConnection
<1>13. connectClient => Aged(conn')
  <2>1. NewConnection \in Connection /\ NewConnection.age = 0
    BY FreshType DEF NewConnection
  <2>2. \A s \in Servers, fd \in Fds : Aged(Put(conn, s, fd, NewConnection))
    BY <1>1, <1>2, <2>1, AgedPut
  <2>3. QED
    BY <1>5, <1>7, <2>2 DEF connectClient, Event
<1>14. ASSUME NEW k, RequestTooLarge(k)
       PROVE  Aged(conn')
  <2>1. recv(k)
    BY <1>14 DEF RequestTooLarge
  <2>2. QED
    BY <1>6, <1>10, <1>14, <2>1 DEF RequestTooLarge
<1>15. \A k : RequestIncomplete(k) => Aged(conn')
  BY <1>10 DEF RequestIncomplete
<1>16. ASSUME NEW k, RequestStatic(k)
       PROVE  Aged(conn')
  <2> DEFINE a == Appended(k)
             q == Append(Rest(a).queue, [code |-> 200, of |-> {a.buf[1].req}])
             e == [Rest(a) EXCEPT !.queue = q]
  <2>1. recv(k) /\ hasRequest(a.buf)
    BY <1>16 DEF RequestStatic, Takes
  <2>2. Rest(a) \in Connection /\ Rest(a).age = 0
    BY <1>10, <2>1
  <2>3. q \in Seq(Response)
    BY <2>1, <2>2, RecvFacts DEF Connection, Response
  <2>4. e \in Connection /\ e.age = 0
    <3>1. \A c \in Connection, r \in Seq(Response) :
             [c EXCEPT !.queue = r] \in Connection /\ [c EXCEPT !.queue = r].age = c.age
      BY DEF Connection
    <3> HIDE DEF a, q
    <3>2. QED
      BY <2>2, <2>3, <3>1
  <2>5. conn' = Put(conn, Srv, Fd, e)
    BY <1>16, <2>2 DEF RequestStatic, Connection
  <2>6. QED
    BY <1>10, <2>1, <2>4, <2>5
<1>17. ASSUME NEW k, RequestRejected(k)
       PROVE  Aged(conn')
  <2>1. recv(k) /\ hasRequest(Appended(k).buf)
    BY <1>17 DEF RequestRejected, Takes
  <2>2. QED
    BY <1>6, <1>10, <1>17, <2>1 DEF RequestRejected
<1>18. ASSUME NEW k, RequestCgi(k)
       PROVE  Aged(conn')
  <2>1. recv(k) /\ hasRequest(Appended(k).buf)
    BY <1>18 DEF RequestCgi, Takes
  <2>2. Aged(Put(conn, Srv, Fd, Rest(Appended(k))))
    BY <1>10, <2>1
  <2>3. QED
    BY <1>5, <1>18, <2>2 DEF RequestCgi
<1>19. RequestEof => Aged(conn')
  BY <1>1, <1>4, <1>8, EventTypes DEF RequestEof, closeConnection, removeConnection
<1>20. RequestError => Aged(conn')
  BY <1>9, EventTypes DEF RequestError
<1>21. ASSUME SendResponse
       PROVE  Aged(conn')
  <2>1. Touched \in Tables /\ Aged(Touched) /\ Fd \in Fds /\ Srv \in Servers /\ HasResponse
    BY <1>8, <1>9, <1>21, EventTypes DEF SendResponse
  <2>2. CASE conn' = [Touched EXCEPT ![Srv][Fd].queue = popResponse(@).rest]
    <3>1. \A t \in Servers, g \in Fds : conn'[t][g] =
             IF t = Srv /\ g = Fd
             THEN [Touched[Srv][Fd] EXCEPT !.queue = popResponse(Touched[Srv][Fd].queue).rest]
             ELSE Touched[t][g]
      BY <2>1, <2>2 DEF Tables
    <3>2. Touched[Srv][Fd] \in Connection
      <4>1. SameTable(conn, Touched)
        BY <1>1, <2>1, TouchedEntries DEF Touched
      <4>2. QED
        BY <2>1, <4>1 DEF SameTable, SameEntry, HasResponse, Tables
    <3>3. conn'[Srv][Fd].age = Touched[Srv][Fd].age
      BY <2>1, <3>1, <3>2 DEF Connection
    <3>4. QED
      BY <1>2, <2>1, <3>1, <3>2, <3>3 DEF Aged
  <2>3. QED
    BY <1>5, <1>21, <2>2 DEF SendResponse
<1>22. NoResponse => Aged(conn')
  BY <1>6, <1>8, <1>9, EventTypes DEF NoResponse
<1>23. ASSUME CgiData
       PROVE  Aged(conn')
  <2>1. Touched \in Tables /\ Aged(Touched) /\ CgiTo \in Fds /\ Srv \in Servers
    BY <1>7, <1>9, <1>23, EventTypes DEF CgiData, Event
  <2>2. CASE Touched[Srv][CgiTo] = None
    BY <1>23, <2>1, <2>2 DEF CgiData
  <2>3. CASE Touched[Srv][CgiTo] # None
    <3> DEFINE f == [Touched[Srv][CgiTo].cgi EXCEPT ![Fd] = @ \cup {pipe[Fd]}]
    <3>1. \A t \in Servers, g \in Fds : conn'[t][g] =
             IF t = Srv /\ g = CgiTo
             THEN [Touched[Srv][CgiTo] EXCEPT !.cgi = f]
             ELSE Touched[t][g]
      BY <1>23, <2>1, <2>3 DEF CgiData, Tables
    <3>2. Touched[Srv][CgiTo] \in Connection
      BY <2>1, <2>3 DEF Tables
    <3> HIDE DEF f
    <3>3. conn'[Srv][CgiTo].age = Touched[Srv][CgiTo].age
      BY <2>1, <3>1, <3>2 DEF Connection
    <3>4. QED
      BY <1>2, <2>1, <2>3, <3>1, <3>3 DEF Aged
  <2>4. QED
    BY <2>2, <2>3
<1>24. ASSUME CgiEof
       PROVE  Aged(conn')
  <2>1. Touched \in Tables /\ Aged(Touched) /\ CgiTo \in Fds /\ Srv \in Servers /\ Fd \in Fds
    BY <1>7, <1>8, <1>9, <1>24, EventTypes DEF CgiEof, Event
  <2>2. CASE Touched[Srv][CgiTo] = None
    BY <1>24, <2>1, <2>2 DEF CgiEof, Finished
  <2>3. CASE Touched[Srv][CgiTo] # None
    <3> DEFINE c == Touched[Srv][CgiTo]
               q == IF c.cgi[Fd] = {} THEN c.queue
                    ELSE Append(c.queue, [code |-> 200, of |-> c.cgi[Fd]])
               e == [c EXCEPT !.cgi = [c.cgi EXCEPT ![Fd] = {}], !.queue = q]
    <3>1. c \in Connection
      BY <2>1, <2>3 DEF Tables
    <3>2. [c.cgi EXCEPT ![Fd] = {}] \in [Fds -> SUBSET Origins] /\ q \in Seq(Response)
      <4>1. c.cgi \in [Fds -> SUBSET Origins] /\ c.queue \in Seq(Response)
        BY <3>1 DEF Connection
      <4> HIDE DEF c
      <4>2. [code |-> 200, of |-> c.cgi[Fd]] \in Response
        BY <2>1, <4>1 DEF Response
      <4>3. QED
        BY <2>1, <4>1, <4>2
    <3>3. e \in Connection /\ e.age = c.age
      BY <3>1, <3>2 DEF Connection
    <3>4. conn' = Put(Touched, Srv, CgiTo, e)
      BY <1>24, <2>3, <3>1 DEF CgiEof, Finished, Connection
    <3>5. QED
      BY <1>2, <2>1, <2>3, <3>3, <3>4, AgedPut
  <2>4. QED
    BY <2>2, <2>3
<1>25. QED
  BY <1>11, <1>12, <1>13, <1>14, <1>15, <1>16, <1>17, <1>18, <1>19, <1>20, <1>21, <1>22,
     <1>23, <1>24 DEF Server

\* What is received is of the kinds clients ask for.
LEMMA NothingLarge ==
    ASSUME IInv, SocketInv, LoopInv, StreamInv, "large" \notin Kinds, NEW k, recv(k)
    PROVE  ~TooLarge(Appended(k).buf)
<1> DEFINE c == sock[Fd]
           b == Buffer(Fd)
           q == inbuf[c]
           t == Appended(k).buf
<1>1. /\ c \in Clients /\ q \in Seq(Segments) /\ k \in 1..Len(q) /\ Fd \in Fds /\ c # None
      /\ b \in Seq(Segments) /\ t = b \o SubSeq(q, 1, k)
  BY RecvEntry, ReadsOwn
<1>2. Ordered(q)
  BY <1>1 DEF StreamInv
<1> HIDE DEF q, b, t
<1>3. \A g : Among(g, t) => Among(g, b) \/ Among(g, q)
  BY <1>1, <1>2, RecvOrder
<1>4. \A g : Among(g, t) => Coming(c, g)
  BY <1>1, <1>3 DEF Coming, b, q
<1>5. sent[c] \in Seq(Kinds)
  BY <1>1 DEF IInv, EnvInv
<1>6. ASSUME NEW g, Among(g, t)
      PROVE  g.kind \in Kinds
  <2>1. WellSent(c, g)
    BY <1>1, <1>4, <1>6 DEF StreamInv
  <2>2. QED
    BY <1>5, <2>1 DEF WellSent
<1>7. QED
  BY <1>6 DEF TooLarge, Among, t

\* What a client received it has received.
GotGrows == \A c \in Clients : \A i \in DOMAIN got[c] :
               i \in DOMAIN got'[c] /\ got'[c][i] = got[c][i]

LEMMA DeliveredGrows ==
    ASSUME IInv, NEW fd \in Fds, "ok" \in send(fd), NEW r, got' = Delivered(fd, r)
    PROVE  GotGrows
<1>1. got \in [Clients -> Seq(Response)] /\ sock[fd] \in Clients
  BY DEF IInv, TableInv, RegistryInv, send
<1>2. \A c \in Clients : got'[c] \in {got[c], Append(got[c], r)}
  BY <1>1 DEF Delivered
<1>3. ASSUME NEW c \in Clients, NEW i \in DOMAIN got[c]
      PROVE  i \in DOMAIN got'[c] /\ got'[c][i] = got[c][i]
  <2>1. got[c] \in Seq(Response)
    BY <1>1
  <2>2. CASE got'[c] = got[c]
    BY <2>2
  <2>3. CASE got'[c] = Append(got[c], r)
    BY <2>1, <2>3
  <2>4. QED
    BY <1>2, <2>2, <2>3
<1>4. QED
  BY <1>3 DEF GotGrows

LEMMA ServerGrows ==
    ASSUME IInv, Server
    PROVE  GotGrows
<1>1. UNCHANGED got => GotGrows
  BY DEF GotGrows
<1>2. \A fd \in Fds : \A r : Sends(fd, r) => GotGrows
  BY DeliveredGrows DEF Sends
<1>3. \A s \in Servers, fd \in Fds : TimesOut(s, fd) => GotGrows
  BY DeliveredGrows DEF TimesOut
<1>4. \A type : Event(type) /\ type # SERVER => Fd \in Fds
  BY EventFacts DEF Event, IInv
<1>5. \A k : Reads(k) \/ Dispatches(k) => GotGrows
  <2>1. \A k : recv(k) => Fd \in Fds
    BY RecvFacts
  <2>2. QED
    BY <1>1, <1>2, <2>1 DEF Reads, Dispatches, Cuts, Refuses, Opens
<1>6. Passes => GotGrows
  BY <1>1, <1>2 DEF Passes, Poll, Breaks, Refuses
<1>7. Answers => GotGrows
  BY <1>2, <1>4, EventTypes DEF Answers
<1>8. QED
  BY <1>1, <1>3, <1>5, <1>6, <1>7, ServerCases DEF Accepts, Drops, Collects, Finishes, Ends

LEMMA GrownAnswered ==
    ASSUME GotGrows, NEW c \in Clients, UNCHANGED <<sent, half>>
    PROVE  Outstanding(c)' => Outstanding(c)
  BY DEF GotGrows, Outstanding, Answered, Whole

\* What a client newly receives is what was queued for the event's socket, or the refusal
\* of the request that was just read, or an error that names no request.
LEMMA NewlyGot ==
    ASSUME IInv, SocketInv, LoopInv, NoReset, ConnIffSocket, StreamInv, "large" \notin Kinds, Server,
           NEW c \in Clients, NEW i \in DOMAIN got'[c]
    PROVE  \/ i \in DOMAIN got[c] /\ got'[c][i] = got[c][i]
           \/ got'[c][i].of = {} /\ got'[c][i].code # 200
           \/ /\ got'[c][i].code = 200 /\ c = sock[Fd]
              /\ \A o \in got'[c][i].of : Held(o, Srv, Fd, 1)
           \/ \E k \in Nat, fd \in Fds, p \in Origins :
                 /\ Cut(k, fd, p)
                 /\ got'[c][i].of = {p} /\ p[1] = c /\ p[2] <= Len(sent[c])
                 /\ sent[c][p[2]] = "fail"
<1> DEFINE Goal == \/ i \in DOMAIN got[c] /\ got'[c][i] = got[c][i]
                   \/ got'[c][i].of = {} /\ got'[c][i].code # 200
                   \/ /\ got'[c][i].code = 200 /\ c = sock[Fd]
                      /\ \A o \in got'[c][i].of : Held(o, Srv, Fd, 1)
                   \/ \E k \in Nat, fd \in Fds, p \in Origins :
                         /\ Cut(k, fd, p)
                         /\ got'[c][i].of = {p} /\ p[1] = c /\ p[2] <= Len(sent[c])
                         /\ sent[c][p[2]] = "fail"
<1>1. UNCHANGED got => Goal
  OBVIOUS
<1>2. ASSUME NEW fd \in Fds, "ok" \in send(fd), NEW r, got' = Delivered(fd, r)
      PROVE  Goal \/ (c = sock[fd] /\ got'[c][i] = r)
  BY <1>2, DeliveredCases
<1> HIDE DEF Goal
<1>3. \A r : Exit(r) => Goal
  BY <1>1 DEF Exit, serverVars
<1>4. \A type : Event(type) /\ type # SERVER => Fd \in Fds /\ Srv \in Servers
  BY EventFacts DEF Event, IInv
<1>5. ASSUME NEW cn, NEW s, NEW fd \in Fds, NEW r, handleError(cn, s, fd, r)
      PROVE  Goal \/ (c = sock[fd] /\ got'[c][i] = r /\ UNCHANGED <<sock, up>>)
  <2>1. CASE sock[fd] = None
    BY <1>1, <1>5, <2>1, CalmError
  <2>2. CASE sock[fd] # None
    <3>1. got' = Delivered(fd, r) /\ UNCHANGED <<sock, up>> /\ "ok" \in send(fd)
      BY <1>5, <2>2, CalmError, SendWorks DEF kernelVars
    <3>2. QED
      BY <1>2, <3>1
  <2>3. QED
    BY <2>1, <2>2
<1>6. ASSUME NEW s \in Servers, NEW fd \in Fds, validateLastActiveTime(s, fd)
      PROVE  Goal
  <2>1. [code |-> 408, of |-> {}].of = {} /\ [code |-> 408, of |-> {}].code # 200
    OBVIOUS
  <2>2. QED
    BY <1>2, <1>3, <1>6, <2>1 DEF validateLastActiveTime, Goal
<1>7. ASSUME NEW k, RequestTooLarge(k)
      PROVE  Goal
  BY <1>7, NothingLarge DEF RequestTooLarge
<1>8. ASSUME NEW k, RequestRejected(k)
      PROVE  Goal
  <2> DEFINE p == Appended(k).buf[1].req
             r == [code |-> 404, of |-> {p}]
             e == Rest(Appended(k))
  <2>1. /\ recv(k) /\ Fd \in Fds /\ Appended(k).buf[1].kind = "fail"
        /\ handleError(Put(conn, Srv, Fd, e), Srv, Fd, r)
    BY <1>8, RecvFacts DEF RequestRejected, Takes
  <2>2. CASE c = sock[Fd] /\ got'[c][i] = r /\ UNCHANGED <<sock, up>>
    <3>1. up = "up" /\ sock[Fd] # None /\ sock \in [Fds -> Clients \cup {None}]
      BY <2>1, RecvEntry DEF IInv, RegistryInv
    <3>2. ~Drops(Srv, Fd)
      BY <2>1, <2>2, <3>1 DEF Drops, Closes
    <3>3. ~Ends
      BY <2>2, <3>1 DEF Ends, Exits
    <3>4. Dispatches(k)
      BY <1>8, <3>2, <3>3, RequestRejectedCase
    <3>5. k \in Nat
      <4>1. k \in 1..Len(inbuf[sock[Fd]]) /\ inbuf[sock[Fd]] \in Seq(Segments)
        BY <2>1, RecvEntry
      <4>2. QED
        BY <4>1
    <3>6. PICK fd \in Fds, o \in Origins : Handles(k, fd, o)
      BY <3>4, <3>5, DispatchPlaces
    <3>7. Cut(k, fd, o) /\ o = p /\ fd = Fd
      BY <3>6 DEF Handles, Cut, Receives
    <3>8. o[1] = c /\ o[2] <= Whole(o[1]) /\ sent[o[1]][o[2]] = "fail"
      BY <2>1, <2>2, <3>5, <3>7, CutFacts
    <3>9. o[2] <= Len(sent[c])
      <4>1. /\ Whole(o[1]) \in Int /\ Whole(o[1]) <= Len(sent[o[1]]) /\ Len(sent[o[1]]) \in Nat
            /\ o[2] \in Nat
        BY OriginType
      <4>2. QED
        BY <3>8, <4>1
    <3>10. QED
      BY <2>2, <3>5, <3>7, <3>8, <3>9 DEF Goal
  <2>3. QED
    BY <1>5, <2>1, <2>2
<1>9. ASSUME SendResponse
      PROVE  Goal
  <2> DEFINE q == QueueOf(conn[Srv][Fd])
             r == popResponse(conn[Srv][Fd].queue).response
  <2>1. Fd \in Fds /\ Srv \in Servers /\ HasResponse
    BY <1>4, <1>9, EventTypes DEF SendResponse
  <2>2. r = q[1] /\ q \in Seq(Response) /\ q # <<>> /\ 1 \in DOMAIN q
    <3>1. conn[Srv][Fd] \in Connection
      BY <2>1 DEF HasResponse, IInv, TableInv, Tables
    <3>2. conn[Srv][Fd] # None /\ q = conn[Srv][Fd].queue /\ q # <<>>
      BY <2>1 DEF HasResponse, QueueOf
    <3>3. q \in Seq(Response)
      BY <3>1, <3>2 DEF Connection
    <3>4. QED
      BY <3>2, <3>3 DEF popResponse
  <2>3. r.code = 200
    <3>1. AllOk(q)
      BY <2>1 DEF SocketInv, QueueCodes
    <3>2. QED
      BY <2>2, <3>1 DEF AllOk
  <2>4. \A o \in r.of : Held(o, Srv, Fd, 1)
    BY <2>1, <2>2 DEF Held
  <2> HIDE DEF q, r
  <2>5. (got' = Delivered(Fd, r) /\ "ok" \in send(Fd)) \/ UNCHANGED got
    BY <1>9 DEF SendResponse, r, Exit, serverVars
  <2>6. QED
    BY <1>1, <1>2, <2>1, <2>3, <2>4, <2>5 DEF Goal
<1>10. ASSUME NoResponse
       PROVE  Goal
  <2> DEFINE r == [code |-> 500, of |-> {}]
  <2>1. Fd \in Fds /\ handleError(Touched, Srv, Fd, r)
    BY <1>4, <1>10, EventTypes DEF NoResponse
  <2>2. r.of = {} /\ r.code # 200
    OBVIOUS
  <2> HIDE DEF r
  <2>3. Goal \/ (c = sock[Fd] /\ got'[c][i] = r)
    BY <1>5, <2>1
  <2>4. QED
    BY <2>2, <2>3 DEF Goal
<1>11. connectClient \/ (\E k : RequestCgi(k)) => Goal
  BY <1>1, <1>3 DEF connectClient, RequestCgi
<1>12. \A k : RequestIncomplete(k) \/ RequestStatic(k) => Goal
  BY <1>1 DEF RequestIncomplete, RequestStatic
<1>13. Poll \/ Idle \/ RequestEof \/ RequestError \/ CgiData \/ CgiEof => Goal
  BY <1>1 DEF Poll, Idle, RequestEof, RequestError, CgiData, CgiEof
<1>14. Goal
  BY <1>6, <1>7, <1>8, <1>9, <1>10, <1>11, <1>12, <1>13 DEF Server
<1>15. QED
  BY <1>14 DEF Goal

LEMMA AddedEvent ==
    ASSUME IInv, NEW h \in Fds, NEW type \in Types, NEW srv \in Servers, NEW client \in Fds,
           kq' = Done(addEvent(kq, TRUE, h, type, srv, client))
    PROVE  kq'.knote[<<h, getFilter(type)>>] =
              [type |-> type, srv |-> srv, client |-> client, live |-> TRUE]
<1> DEFINE r == addEvent(kq, TRUE, h, type, srv, client)
<1>1. kq \in Registry /\ h \in Descriptors /\ client \in Fds \cup {None}
  BY DEF IInv, RegistryInv, Descriptors
<1>2. r \in Registry /\ r.knote[<<h, getFilter(type)>>] =
         [type |-> type, srv |-> srv, client |-> client, live |-> TRUE]
  BY <1>1, AddEventType
<1> HIDE DEF r
<1>3. kq'.knote = r.knote
  BY <1>2, DoneType DEF r
<1>4. QED
  BY <1>2, <1>3

\* A pipe that is opened is watched for the client whose request is being read.
LEMMA NewlyPiped ==
    ASSUME IInv, LoopInv, Server, NEW x \in Fds, pipe'[x] # None
    PROVE  \/ pipe'[x] = pipe[x]
           \/ \E k \in Nat, fd \in Fds, p \in Origins :
                 /\ Cut(k, fd, p) /\ pipe'[x] = p /\ UNCHANGED sock
                 /\ EventOf(x)'.srv = Srv /\ EventOf(x)'.client = fd
<1>1. pipe \in [Fds -> Origins \cup {None}] /\ kq \in Registry
  BY DEF IInv, RegistryInv
<1>2. \A fd : Closes(fd) => pipe'[x] = pipe[x]
  BY <1>1 DEF Closes
<1>3. \A s, fd : TimesOut(s, fd) => Closes(fd)
  BY DEF TimesOut, close, Closes
<1>4. ASSUME NEW k \in Nat, Dispatches(k), NEW h \in Fds, Opens(h, Appended(k).buf[1].req),
             kq' = Done(addEvent(kq, TRUE, h, CGI_RESPONSE, Srv, Fd)), pipe'[x] # pipe[x]
      PROVE  \E fd \in Fds, p \in Origins :
                 /\ Cut(k, fd, p) /\ pipe'[x] = p /\ UNCHANGED sock
                 /\ EventOf(x)'.srv = Srv /\ EventOf(x)'.client = fd
  <2>1. PICK fd \in Fds, p \in Origins : Handles(k, fd, p)
    BY <1>4, DispatchPlaces
  <2>2. Cut(k, fd, p) /\ p = Appended(k).buf[1].req /\ fd = Fd
    BY <2>1 DEF Handles, Cut, Receives
  <2>3. x = h /\ pipe'[x] = p /\ UNCHANGED sock
    BY <1>1, <1>4, <2>2 DEF Opens
  <2>4. kq.polled # None /\ Srv \in Servers /\ Fd \in Fds /\ h \in Descriptors
    <3>1. recv(k)
      BY <1>4 DEF Dispatches, Cuts
    <3>2. QED
      BY <3>1, RecvFacts DEF Descriptors
  <2>5. kq'.knote[<<h, getFilter(CGI_RESPONSE)>>] =
           [type |-> CGI_RESPONSE, srv |-> Srv, client |-> Fd, live |-> TRUE]
    <3>1. kq' = Done(addEvent(kq, TRUE, h, CGI_RESPONSE, Srv, Fd)) /\ CGI_RESPONSE \in Types
      BY <1>4, EventTypes
    <3>2. QED
      BY <2>4, <3>1, AddedEvent
  <2>6. kq'.knote[<<x, EVFILT_READ>>] =
            [type |-> CGI_RESPONSE, srv |-> Srv, client |-> Fd, live |-> TRUE]
    BY <2>3, <2>5, EventTypes
  <2>7. EventOf(x)'.srv = Srv /\ EventOf(x)'.client = fd
    BY <2>2, <2>6 DEF EventOf
  <2>8. QED
    BY <2>2, <2>3, <2>7
<1>5. ASSUME NEW k \in Nat, Reads(k) \/ Dispatches(k), pipe'[x] # pipe[x]
      PROVE  \E fd \in Fds, p \in Origins :
                 /\ Cut(k, fd, p) /\ pipe'[x] = p /\ UNCHANGED sock
                 /\ EventOf(x)'.srv = Srv /\ EventOf(x)'.client = fd
  BY <1>4, <1>5 DEF Reads, Dispatches, Refuses, Sends, kernelVars
<1>6. CASE pipe'[x] # pipe[x]
  <2>1. PICK k \in Nat : Reads(k) \/ Dispatches(k)
    BY <1>2, <1>3, <1>6, ServerCases
       DEF Passes, Accepts, Drops, Answers, Sends, Collects, Finishes, Ends, kernelVars
  <2>2. QED
    BY <1>5, <1>6, <2>1
<1>7. QED
  BY <1>6

\* What ends the process leaves everything as it was.
LEMMA EndsStill ==
    ASSUME IInv, LoopInv, Server, up' # "up"
    PROVE  UNCHANGED <<kq, conn, sock, pipe, peer, got, pc, sent, half>>
<1>1. up = "up" /\ UNCHANGED clientVars /\ ~LetsGo /\ ~Poll /\ \A s, fd : ~TimesOut(s, fd)
  BY ServerCases DEF LetsGo, Poll, TimesOut
<1>2. ~Finishes
  <2>1. ASSUME Finishes
        PROVE  FALSE
    <3>1. kq.polled # None /\ kq.polled.info.type = CGI_RESPONSE /\ up = "up" /\ pc = "process"
          /\ kq.knote[<<Fd, EVFILT_READ>>] = None
      BY <1>1, <2>1 DEF Finishes, Event
    <3>2. QED
      BY <3>1 DEF LoopInv, PolledKnown, Holding
  <2>2. QED
    BY <2>1
<1>3. Ends /\ UNCHANGED conn
  BY <1>1, <1>2, ServerCases DEF Passes, Reads, Dispatches, Cuts, Drops, Answers, Collects
<1>4. QED
  BY <1>1, <1>3 DEF Ends, kernelVars, clientVars

(* The steps of the server. *)

LEMMA LeftServerStep ==
    ASSUME IInv, LoopInv, NoReset, LeftAnswered, Server
    PROVE  LeftAnswered'
<1>1. UNCHANGED <<sent, half>> /\ GotGrows /\ peer \in [Clients -> PeerStates]
  BY ServerCases, ServerGrows DEF clientVars, IInv, RegistryInv
<1>2. \A c \in Clients : peer'[c] = "fin" => peer[c] = "fin"
  BY <1>1, CalmSockets DEF Ousts, Closes, Accepts
<1>3. QED
  BY <1>1, <1>2, GrownAnswered DEF LeftAnswered

LEMMA RefusedServerStep ==
    ASSUME IInv, SocketInv, LoopInv, NoReset, ConnIffSocket, StreamInv, "large" \notin Kinds,
           RefusedKind, Server
    PROVE  RefusedKind'
<1>1. UNCHANGED sent
  BY ServerCases DEF clientVars
<1>2. ASSUME NEW o \in Origins, NEW c, NEW i, Refused(o, c, i)'
      PROVE  o[2] <= Len(sent[o[1]]) /\ sent[o[1]][o[2]] = "fail"
  <2>1. c \in Clients /\ i \in DOMAIN got'[c] /\ got'[c][i].code # 200 /\ o \in got'[c][i].of
    BY <1>2 DEF Refused
  <2>2. CASE i \in DOMAIN got[c] /\ got'[c][i] = got[c][i]
    BY <2>1, <2>2 DEF RefusedKind, Refused
  <2>3. ASSUME NEW p \in Origins, got'[c][i].of = {p}, p[1] = c, p[2] <= Len(sent[c]),
               sent[c][p[2]] = "fail"
        PROVE  o[2] <= Len(sent[o[1]]) /\ sent[o[1]][o[2]] = "fail"
    BY <2>1, <2>3
  <2>4. QED
    BY <2>1, <2>2, <2>3, NewlyGot
<1>3. QED
  BY <1>1, <1>2 DEF RefusedKind

\* A program's client keeps its connection: it waits, so it neither leaves nor times out.
LEMMA OwnedServerStep ==
    ASSUME IInv, SocketInv, LoopInv, NoReset, ConnIffSocket, StreamInv, UsedInv, AnswerInv,
           LeftAnswered, RefusedKind, PipesOwned, Server, ConnIffSocket'
    PROVE  PipesOwned'
<1>1. /\ pipe \in [Fds -> Origins \cup {None}] /\ conn \in Tables /\ Limit \in Nat
      /\ None \notin Origins /\ \A o \in Origins : o[1] \in Clients /\ o[1] # None
      /\ \A c \in Clients : Home[c] \in Servers
  BY LimitType, NoneIsNoObject, OriginType, WebserverAssumption DEF IInv, RegistryInv, TableInv
<1>2. ASSUME NEW s \in Servers, NEW f \in Fds, sock'[f] # None, s = Home[sock'[f]],
             conn[s][f] # None => conn[s][f].age <= Limit
      PROVE  conn'[s][f] # None /\ conn'[s][f].age <= Limit
  <2>1. conn'[s][f] # None
    BY <1>2 DEF ConnIffSocket
  <2>2. QED
    BY <1>1, <1>2, <2>1, AgesKept DEF Aged
<1>3. ASSUME NEW x \in Fds, pipe[x] # None, pipe'[x] = pipe[x]
      PROVE  Owned(x)'
  <2> DEFINE o == pipe[x]
             s == EventOf(x).srv
             f == EventOf(x).client
  <2>1. /\ f \in Fds /\ sock[f] = o[1] /\ s = Home[o[1]]
        /\ conn[s][f] # None /\ conn[s][f].age <= Limit
    BY <1>3 DEF PipesOwned, Owned
  <2>2. o \in Origins /\ s \in Servers /\ sock[f] # None
    BY <1>1, <1>3, <2>1
  <2>3. EventOf(x)'.srv = s /\ EventOf(x)'.client = f
    <3>1. SameKnote(EventOf(x), EventOf(x)')
      BY <1>1, <1>3, PipeEventKept DEF KeptPipes, EventOf
    <3>2. EventOf(x) # None
      BY <1>3 DEF IInv, RegistryInv, OpenIsWatched, EventOf
    <3>3. QED
      BY <3>1, <3>2 DEF SameKnote
  <2>4. Outstanding(o[1])
    BY <1>3, <2>2, WaitingOutstanding DEF Waiting, Piped
  <2> HIDE DEF o, s, f
  <2>5. sock'[f] = sock[f]
    BY <2>1, <2>2, <2>4, SocketKept
  <2>6. conn'[s][f] # None /\ conn'[s][f].age <= Limit
    BY <1>2, <2>1, <2>2, <2>5
  <2>7. pipe'[x] = o
    BY <1>3 DEF o
  <2>8. QED
    BY <2>1, <2>3, <2>5, <2>6, <2>7 DEF Owned
<1>4. ASSUME NEW x \in Fds, NEW k \in Nat, NEW fd \in Fds, NEW p \in Origins,
             Cut(k, fd, p), pipe'[x] = p, UNCHANGED sock,
             EventOf(x)'.srv = Srv, EventOf(x)'.client = fd
      PROVE  Owned(x)'
  <2>1. p[1] = sock[fd] /\ Srv = Home[sock[fd]] /\ fd = Fd /\ recv(k)
    BY <1>4, CutFacts DEF Cut, Receives
  <2>2. PICK s \in Servers : s = Srv
    BY <1>1, <1>4, <2>1
  <2>3. conn[s][fd] # None => conn[s][fd].age <= Limit
    <3>1. ~Expired
      BY <2>1 DEF recv, Event
    <3>2. conn[s][fd] # None => conn[s][fd].age \in Int
      BY <1>1 DEF Tables, Connection
    <3>3. QED
      BY <1>1, <3>1, <3>2 DEF Expired, isTimeout
  <2>4. conn'[s][fd] # None /\ conn'[s][fd].age <= Limit
    BY <1>1, <1>2, <1>4, <2>1, <2>2, <2>3
  <2>5. QED
    BY <1>4, <2>1, <2>2, <2>4 DEF Owned
<1>5. QED
  BY <1>1, <1>3, <1>4, NewlyPiped DEF PipesOwned

LEMMA OwnServerStep ==
    ASSUME IInv, SocketInv, LoopInv, NoReset, ConnIffSocket, StreamInv, UsedInv, AnswerInv,
           "large" \notin Kinds, StayInv, Server, up' = "up", ConnIffSocket'
    PROVE  HeldOwn' /\ KeptOwn' /\ OwnOutputOnly'
<1>1. \A o \in Origins : o[1] \in Clients /\ o[1] # None /\ o[2] \in 1..MaxReq /\ o = <<o[1], o[2]>>
  BY OriginType, NoneIsNoObject
<1>2. \A o \in Origins, s \in Servers, f \in Fds :
         conn'[s][f] # None /\ sock[f] = o[1] => sock'[f] = o[1]
  BY <1>1, SocketKept DEF ConnIffSocket
<1>3. \A o \in Origins : \A s, f, j : Held(o, s, f, j)' => s \in Servers /\ f \in Fds /\ conn'[s][f] # None
  BY DEF Held, QueueOf
<1>4. \A o \in Origins : \A s, f, x : Kept(o, s, f, x)' => s \in Servers /\ f \in Fds /\ conn'[s][f] # None
  BY DEF Kept, OutputOf
<1>5. HeldOwn /\ KeptOwn /\ PipesOwned
  BY DEF StayInv
<1>6. NoneHeld => HeldOwn'
  BY <1>2, <1>3, <1>5 DEF NoneHeld, HeldOwn
<1>7. NoneKept => KeptOwn'
  BY <1>2, <1>4, <1>5 DEF NoneKept, KeptOwn
<1>8. ASSUME NEW k \in Nat, NEW fd \in Fds, NEW p \in Origins, Handles(k, fd, p)
      PROVE  HeldOwn' /\ KeptOwn'
  <2>1. p[1] = sock[fd] /\ fd = Fd
    BY <1>8, CutFacts DEF Handles, Cut, Receives
  <2>2. Queues(p) => HeldOwn'
    BY <1>2, <1>3, <1>5, <2>1 DEF Queues, HeldOwn
  <2>3. QED
    BY <1>6, <1>7, <1>8, <2>2 DEF Handles, Queues, Starts, Rests
<1>9. ASSUME Gathers, Event(CGI_RESPONSE)
      PROVE  HeldOwn' /\ KeptOwn'
  <2>1. EventOf(Fd).client = CgiTo
    BY <1>9 DEF Event, LoopInv, PolledKnown, Holding, EventOf
  <2>2. \A o \in Origins : Piped(o, Fd) => sock[CgiTo] = o[1]
    <3>1. None \notin Origins
      BY NoneIsNoObject
    <3>2. QED
      BY <1>5, <2>1, <3>1 DEF PipesOwned, Owned, Piped
  <2>3. KeptOwn'
    BY <1>2, <1>4, <1>5, <1>9, <2>2 DEF Gathers, KeptOwn
  <2>4. QED
    BY <1>6, <1>9, <2>3 DEF Gathers
<1>10. ASSUME Completes
       PROVE  HeldOwn' /\ KeptOwn'
  <2>1. HeldOwn'
    BY <1>2, <1>3, <1>5, <1>10 DEF Completes, HeldOwn, KeptOwn
  <2>2. KeptOwn'
    BY <1>2, <1>4, <1>5, <1>10 DEF Completes, KeptOwn
  <2>3. QED
    BY <2>1, <2>2
<1>11. ASSUME HandsOut
       PROVE  HeldOwn' /\ KeptOwn'
  <2>1. HeldOwn'
    BY <1>2, <1>3, <1>5, <1>11 DEF HandsOut, HeldOwn
  <2>2. QED
    BY <1>7, <1>11, <2>1 DEF HandsOut
<1>12. HeldOwn' /\ KeptOwn'
  BY <1>6, <1>7, <1>8, <1>9, <1>10, <1>11, PlaceCases DEF Rests
<1>13. ASSUME NEW c \in Clients, NEW i \in DOMAIN got'[c]
       PROVE  got'[c][i].of \subseteq {c} \X (1..MaxReq)
  <2>0. got'[c][i].of \subseteq Origins
    <3>1. IInv'
      BY ServerStep
    <3>2. got'[c] \in Seq(Response)
      BY <3>1 DEF IInv, TableInv
    <3>3. got'[c][i] \in Response
      BY <1>13, <3>2
    <3>4. QED
      BY <3>3 DEF Response
  <2>1. CASE i \in DOMAIN got[c] /\ got'[c][i] = got[c][i]
    BY <2>1 DEF StayInv, OwnOutputOnly
  <2>2. CASE got'[c][i].of = {}
    BY <2>2
  <2>3. CASE c = sock[Fd] /\ \A o \in got'[c][i].of : Held(o, Srv, Fd, 1)
    <3>1. \A o \in got'[c][i].of : o[1] = c
      BY <1>5, <2>0, <2>3 DEF HeldOwn
    <3>2. QED
      BY <1>1, <2>0, <3>1
  <2>4. ASSUME NEW p \in Origins, got'[c][i].of = {p}, p[1] = c
        PROVE  got'[c][i].of \subseteq {c} \X (1..MaxReq)
    BY <1>1, <2>4
  <2>5. QED
    BY <2>1, <2>2, <2>3, <2>4, NewlyGot DEF StayInv
<1>14. QED
  BY <1>12, <1>13 DEF OwnOutputOnly

(* The steps of the environment. *)

\* Whoever stays is sent nothing but by the server, and nothing he has is lost.
LEMMA StayingEnv ==
    ASSUME Staying, IInv, Environment
    PROVE  /\ UNCHANGED <<kq, sock, pipe, got, up>> /\ SameTable(conn, conn')
           /\ \A c \in Clients : \A n \in 1..Len(sent[c]) : sent'[c][n] = sent[c][n]
           /\ \A c \in Clients : Len(sent[c]) <= Len(sent'[c])
<1>1. UNCHANGED <<kq, sock, pipe, up>> /\ SameTable(conn, conn')
  BY EnvCases
<1>2. UNCHANGED got
  BY DEF Environment, Client, Connect, SendRemainder, Leave, Reset, SendRequest, Cgi, CgiWrite,
         CgiExit, CgiExecFails, Tick, Staying
<1>3. /\ \A c \in Clients : \A n \in 1..Len(sent[c]) : sent'[c][n] = sent[c][n]
      /\ \A c \in Clients : Len(sent[c]) <= Len(sent'[c])
  <2>1. ASSUME NEW d \in Clients, Sent(d)
        PROVE  /\ \A c \in Clients : \A n \in 1..Len(sent[c]) : sent'[c][n] = sent[c][n]
               /\ \A c \in Clients : Len(sent[c]) <= Len(sent'[c])
    BY <2>1, SentFacts DEF Announces
  <2>2. \A c \in Clients : Len(sent[c]) \in Nat
    BY DEF IInv, EnvInv
  <2>3. \A c : Connect(c) \/ Leave(c) \/ Reset(c) => UNCHANGED sent
    BY DEF Connect, Leave, Reset, clientVars
  <2>4. \A p : Runs(p) => UNCHANGED sent
    BY DEF Runs, clientVars
  <2>5. QED
    BY <2>1, <2>2, <2>3, <2>4, EnvCases DEF clientVars
<1>4. QED
  BY <1>1, <1>2, <1>3

LEMMA LeftEnvStep ==
    ASSUME Staying, IInv, LeftAnswered, Environment
    PROVE  LeftAnswered'
<1>1. /\ peer \in [Clients -> PeerStates] /\ sent \in [Clients -> Seq(Kinds)]
      /\ half \in [Clients -> BOOLEAN] /\ UNCHANGED got
  BY StayingEnv DEF IInv, RegistryInv, EnvInv
<1>2. ASSUME NEW c \in Clients, sent'[c] = sent[c], half'[c] = half[c], ~Outstanding(c)
      PROVE  ~Outstanding(c)'
  BY <1>1, <1>2 DEF Outstanding, Answered, Whole
<1>3. ASSUME NEW c \in Clients, peer'[c] = "fin"
      PROVE  ~Outstanding(c)'
  <2>1. ASSUME NEW d \in Clients, Connect(d) \/ Leave(d) \/ Reset(d)
        PROVE  ~Outstanding(c)'
    <3>1. peer[c] = "fin" \/ ~Outstanding(c)
      BY <1>1, <1>3, <2>1 DEF Connect, Leave, Reset, Staying
    <3>2. UNCHANGED <<sent, half>>
      BY <2>1 DEF Connect, Leave, Reset, clientVars
    <3>3. QED
      BY <1>2, <3>1, <3>2 DEF LeftAnswered
  <2>2. ASSUME NEW d \in Clients, Sent(d)
        PROVE  ~Outstanding(c)'
    <3>1. peer[c] = "fin" /\ peer[d] = "open"
      BY <1>3, <2>2 DEF Sent, SendRemainder, SendRequest
    <3>2. sent'[c] = sent[c] /\ half'[c] = half[c]
      BY <1>1, <2>2, <3>1 DEF Sent, SendRemainder, SendRequest
    <3>3. QED
      BY <1>2, <3>1, <3>2 DEF LeftAnswered
  <2>3. UNCHANGED <<peer, clientVars>> => ~Outstanding(c)'
    BY <1>2, <1>3 DEF LeftAnswered, clientVars
  <2>4. QED
    BY <2>1, <2>2, <2>3, EnvCases DEF Runs
<1>4. QED
  BY <1>3 DEF LeftAnswered

LEMMA OwnedEnvStep ==
    ASSUME Staying, IInv, UsedInv, AnswerInv, RefusedKind, PipesOwned, Environment
    PROVE  PipesOwned'
<1>1. /\ pipe \in [Fds -> Origins \cup {None}] /\ conn \in Tables /\ Limit \in Nat
      /\ None \notin Origins /\ \A o \in Origins : o[1] \in Clients /\ o[1] # None
      /\ \A c \in Clients : Home[c] \in Servers
  BY LimitType, NoneIsNoObject, OriginType, WebserverAssumption DEF IInv, RegistryInv, TableInv
<1>2. UNCHANGED <<kq, sock, pipe>> /\ SameTable(conn, conn')
  BY StayingEnv
<1>3. ASSUME NEW s \in Servers, NEW f \in Fds, conn[s][f] # None, conn[s][f].age <= Limit,
             sock[f] # None, Outstanding(sock[f])
      PROVE  conn'[s][f] # None /\ conn'[s][f].age <= Limit
  <2>1. conn[s][f] \in Connection /\ conn[s][f].age \in Nat
    BY <1>1, <1>3 DEF Tables, Connection
  <2>2. CASE Tick
    <3>1. conn[s][f].age < Limit
      BY <1>3, <2>2 DEF Tick, Staying
    <3>2. conn'[s][f] = [conn[s][f] EXCEPT !.age = @ + 1]
      BY <1>3, <2>2 DEF Tick
    <3>3. conn'[s][f].age = conn[s][f].age + 1
      BY <2>1, <3>2 DEF Connection
    <3>4. QED
      BY <1>1, <1>2, <1>3, <2>1, <3>1, <3>3 DEF SameTable, SameEntry
  <2>3. CASE ~Tick
    <3>1. UNCHANGED conn
      BY <2>3 DEF Environment, Client, Connect, SendRemainder, Leave, Reset, SendRequest, Cgi,
                  CgiWrite, CgiExit, CgiExecFails, serverState
    <3>2. QED
      BY <1>3, <3>1
  <2>4. QED
    BY <2>2, <2>3
<1>4. ASSUME NEW x \in Fds, pipe[x] # None
      PROVE  Owned(x)'
  <2> DEFINE o == pipe[x]
             s == EventOf(x).srv
             f == EventOf(x).client
  <2>1. /\ f \in Fds /\ sock[f] = o[1] /\ s = Home[o[1]]
        /\ conn[s][f] # None /\ conn[s][f].age <= Limit
    BY <1>4 DEF PipesOwned, Owned
  <2>2. o \in Origins /\ s \in Servers /\ sock[f] # None
    BY <1>1, <1>4, <2>1
  <2>3. Outstanding(o[1])
    BY <1>4, <2>2, WaitingOutstanding DEF Waiting, Piped
  <2>4. EventOf(x)' = EventOf(x) /\ pipe' = pipe /\ sock' = sock
    BY <1>2 DEF EventOf
  <2>5. conn'[s][f] # None /\ conn'[s][f].age <= Limit
    BY <1>3, <2>1, <2>2, <2>3
  <2>6. QED
    BY <2>1, <2>4, <2>5 DEF Owned
<1>5. QED
  BY <1>2, <1>4 DEF PipesOwned

LEMMA StayEnvStep ==
    ASSUME Staying, IInv, UsedInv, AnswerInv, StayInv, Environment
    PROVE  StayInv'
<1>1. LeftAnswered' /\ PipesOwned'
  BY LeftEnvStep, OwnedEnvStep DEF StayInv
<1>2. UNCHANGED <<sock, got>>
  BY StayingEnv
<1>3. HeldOwn' /\ KeptOwn' /\ OwnOutputOnly'
  BY <1>2, EnvRests DEF Rests, NoneHeld, NoneKept, StayInv, HeldOwn, KeptOwn, OwnOutputOnly
<1>4. RefusedKind'
  <2>1. ASSUME NEW o \in Origins, NEW c, NEW i, Refused(o, c, i)'
        PROVE  o[2] <= Len(sent'[o[1]]) /\ sent'[o[1]][o[2]] = "fail"
    <3>1. o[2] <= Len(sent[o[1]]) /\ sent[o[1]][o[2]] = "fail"
      BY <1>2, <2>1 DEF Refused, StayInv, RefusedKind
    <3>2. o[1] \in Clients /\ o[2] \in 1..Len(sent[o[1]]) /\ Len(sent[o[1]]) \in Nat
          /\ sent' \in [Clients -> Seq(Kinds)]
      <4>1. IInv'
        BY NextInv DEF Next, Environment
      <4>2. QED
        BY <3>1, <4>1, OriginType DEF IInv, EnvInv
    <3>3. sent'[o[1]][o[2]] = "fail" /\ Len(sent[o[1]]) <= Len(sent'[o[1]])
      BY <3>1, <3>2, StayingEnv
    <3>4. Len(sent'[o[1]]) \in Nat
      BY <3>2
    <3>5. QED
      BY <3>1, <3>2, <3>3, <3>4
  <2>2. QED
    BY <2>1 DEF RefusedKind
<1>5. QED
  BY <1>1, <1>3, <1>4 DEF StayInv

LEMMA StayUnchanged ==
    ASSUME StayInv, UNCHANGED <<kq, conn, sock, pipe, peer, got, sent, half>>
    PROVE  StayInv'
<1>1. LeftAnswered'
  BY DEF StayInv, LeftAnswered, Outstanding, Answered, Whole
<1>2. RefusedKind'
  BY DEF StayInv, RefusedKind, Refused
<1>3. PipesOwned'
  BY DEF StayInv, PipesOwned, Owned, EventOf
<1>4. HeldOwn' /\ KeptOwn' /\ OwnOutputOnly'
  BY DEF StayInv, HeldOwn, KeptOwn, OwnOutputOnly, Held, Kept
<1>5. QED
  BY <1>1, <1>2, <1>3, <1>4 DEF StayInv

PatientInv == LastingInv /\ DeliveryInv /\ StayInv

LEMMA PatientStep ==
    ASSUME Staying, PatientInv, [Next]_vars
    PROVE  PatientInv'
<1>1. Lasting
  BY DEF Staying, Lasting
<1>2. LastingInv' /\ DeliveryInv'
  BY <1>1, LastingStep, DeliveryStep DEF PatientInv, LastingInv
<1>3. CASE Server
  <2>1. up = "up"
    BY <1>3, ServerCases DEF PatientInv, LastingInv
  <2>2. CASE up' = "up"
    <3>1. LeftAnswered'
      BY <1>3, LeftServerStep DEF PatientInv, LastingInv, StayInv
    <3>2. RefusedKind'
      BY <1>3, <2>1, RefusedServerStep DEF PatientInv, LastingInv, StayInv, DeliveryInv, Staying
    <3>3. PipesOwned'
      BY <1>2, <1>3, <2>1, OwnedServerStep DEF PatientInv, LastingInv, StayInv, DeliveryInv
    <3>4. HeldOwn' /\ KeptOwn' /\ OwnOutputOnly'
      BY <1>2, <1>3, <2>1, <2>2, OwnServerStep DEF PatientInv, LastingInv, DeliveryInv, Staying
    <3>5. QED
      BY <1>2, <3>1, <3>2, <3>3, <3>4 DEF PatientInv, StayInv
  <2>3. CASE up' # "up"
    BY <1>2, <1>3, <2>3, EndsStill, StayUnchanged DEF PatientInv, LastingInv
  <2>4. QED
    BY <2>2, <2>3
<1>4. CASE Environment
  <2>1. up = "up"
    BY <1>4, EnvCases DEF PatientInv, LastingInv
  <2>2. QED
    BY <1>2, <1>4, <2>1, StayEnvStep DEF PatientInv, LastingInv, DeliveryInv
<1>5. CASE UNCHANGED vars
  BY <1>2, <1>5, StayUnchanged DEF vars, PatientInv
<1>6. QED
  BY <1>3, <1>4, <1>5 DEF Next, Environment

LEMMA PatientInit ==
    ASSUME Init
    PROVE  PatientInv
<1>1. LastingInv /\ DeliveryInv
  BY LastingInit, InitInv, DeliveryInit
<1>2. None \notin Origins
  BY NoneIsNoObject
<1>3. LeftAnswered /\ RefusedKind /\ PipesOwned /\ OwnOutputOnly
  BY DEF Init, LeftAnswered, RefusedKind, Refused, PipesOwned, OwnOutputOnly
<1>4. HeldOwn /\ KeptOwn
  BY DEF Init, HeldOwn, KeptOwn, Held, Kept, QueueOf, OutputOf
<1>5. QED
  BY <1>1, <1>3, <1>4 DEF PatientInv, StayInv

\* The number of the client's descriptor that the event of a CGI pipe carries is still
\* the socket of the client that asked, whatever other clients do and however many
\* servers there are: it is the waiting for the answer that keeps the socket
\* (CgiHandler.cpp:28, Server.cpp:132-141).
THEOREM CgiEventsTargetOwner == Staying => (Spec => []CgiTargetsOwner)
<1> SUFFICES ASSUME Staying PROVE Spec => []CgiTargetsOwner
  OBVIOUS
<1>1. Init => PatientInv
  BY PatientInit
<1>2. PatientInv /\ [Next]_vars => PatientInv'
  BY PatientStep
<1>3. PatientInv => CgiTargetsOwner
  BY DEF PatientInv, StayInv, PipesOwned, Owned, CgiTargetsOwner, EventOf
<1>4. QED
  BY <1>1, <1>2, <1>3, PTL DEF Spec

\* A client that stays is sent what its own requests asked for and nothing else, though
\* a response is queued by the number of a descriptor (Server.cpp:59-61, :132-141).
THEOREM StayingClientsGetTheirOwn == Staying => (Spec => []OwnOutputOnly)
<1> SUFFICES ASSUME Staying PROVE Spec => []OwnOutputOnly
  OBVIOUS
<1>1. Init => PatientInv
  BY PatientInit
<1>2. PatientInv /\ [Next]_vars => PatientInv'
  BY PatientStep
<1>3. PatientInv => OwnOutputOnly
  BY DEF PatientInv, StayInv
<1>4. QED
  BY <1>1, <1>2, <1>3, PTL DEF Spec

-----------------------------------------------------------------------------
(* Clients that ask one thing at a time, programs that write something. *)

Patient == Staying /\ Env \cap {"pipelining", "silent"} = {}

\* Only the last request of a client can be unanswered.
OneAtATime == \A c \in Clients : \A n \in 1..(Len(sent[c]) - 1) : <<c, n>> \in Answered(c)

Begun(o) == proc[o] # [st |-> "none", unread |-> FALSE, wrote |-> 0]
Spent(o) == Begun(o) \/ \E c, i : Refused(o, c, i)

\* What was refused or has had a program was read before whatever is still coming.
SpentInv ==
    \A o \in Origins : Spent(o) =>
       o[2] <= Whole(o[1]) /\ \A g : Coming(o[1], g) => o[2] < g.req[2]

\* No answer is made of what the router refuses.
UsedKind == \A o \in Origins : Used(o) => sent[o[1]][o[2]] # "fail"

\* A complete request does not stay in a buffer.
NoneComplete ==
    \A fd \in Fds : sock[fd] # None => \A i \in DOMAIN Buffer(fd) : ~Buffer(fd)[i].last

\* A request that is cut off has not been answered.
LEMMA UnansweredCut ==
    ASSUME IInv, UsedInv, SpentInv, NEW p \in Origins, NEW g, Coming(p[1], g), g.req[2] <= p[2]
    PROVE  /\ p \notin Answered(p[1])
           /\ ~Spent(p) /\ ~Used(p)
<1>1. p[2] \in Nat /\ p[1] \in Clients
  BY OriginType
<1>2. ~(p[2] < g.req[2]) \/ ~(g.req[2] <= p[2])
  <2>1. ASSUME p[2] < g.req[2], g.req[2] <= p[2]
        PROVE  g.req[2] \in Int => FALSE
    BY <1>1, <2>1
  <2>2. g.req[2] \in Int
    <3>1. /\ inbuf[p[1]] \in Seq(Segments) /\ p[1] # None
          /\ \A fd \in Fds : sock[fd] = p[1] => Buffer(fd) \in Seq(Segments)
      BY <1>1, BufferTypes, NoneIsNoObject
    <3>2. \A q \in Seq(Segments) : Among(g, q) => g \in Segments
      BY DEF Among
    <3>3. g \in Segments
      BY <3>1, <3>2 DEF Coming
    <3>4. g.req \in Origins
      BY <3>3 DEF Segments
    <3>5. QED
      BY <3>4, OriginType
  <2>3. QED
    BY <2>1, <2>2
<1>3. ~Spent(p) /\ ~Used(p)
  BY <1>2 DEF SpentInv, UsedInv
<1>4. ASSUME NEW i \in DOMAIN got[p[1]], p \in got[p[1]][i].of
      PROVE  FALSE
  <2>1. got[p[1]][i].code = 200 => Told(p, p[1], i)
    BY <1>1, <1>4 DEF Told
  <2>2. got[p[1]][i].code # 200 => Refused(p, p[1], i)
    BY <1>1, <1>4 DEF Refused
  <2>3. QED
    BY <1>3, <2>1, <2>2 DEF Used, Spent
<1>5. QED
  BY <1>3, <1>4 DEF Answered

\* So it is the last that its client has sent.
LEMMA LastCut ==
    ASSUME IInv, UsedInv, SpentInv, OneAtATime, NEW p \in Origins, p[2] <= Whole(p[1]),
           NEW g, Coming(p[1], g), g.req[2] <= p[2]
    PROVE  p[2] = Len(sent[p[1]])
<1>1. /\ p[1] \in Clients /\ p[2] \in Nat /\ p[2] > 0 /\ p = <<p[1], p[2]>>
      /\ Whole(p[1]) \in Int /\ Whole(p[1]) <= Len(sent[p[1]]) /\ Len(sent[p[1]]) \in Nat
  BY OriginType
<1>2. p \notin Answered(p[1])
  BY UnansweredCut
<1>3. p[2] \notin 1..(Len(sent[p[1]]) - 1)
  BY <1>1, <1>2 DEF OneAtATime
<1>4. QED
  BY <1>1, <1>3

LEMMA AnsweredKept ==
    ASSUME IInv, GotGrows, NEW c \in Clients, NEW o \in Answered(c)
    PROVE  o \in Answered(c)'
  BY DEF GotGrows, Answered

LEMMA OneServerKept ==
    ASSUME IInv, OneAtATime, Server
    PROVE  OneAtATime'
<1>1. UNCHANGED sent /\ GotGrows
  BY ServerCases, ServerGrows DEF clientVars
<1>2. QED
  BY <1>1, AnsweredKept DEF OneAtATime

LEMMA OneEnvStep ==
    ASSUME Patient, IInv, OneAtATime, Environment
    PROVE  OneAtATime'
<1>1. /\ sent \in [Clients -> Seq(Kinds)] /\ half \in [Clients -> BOOLEAN] /\ UNCHANGED got
  BY StayingEnv DEF IInv, EnvInv, Patient
<1>2. UNCHANGED sent => OneAtATime'
  BY <1>1 DEF OneAtATime, Answered
<1>3. ASSUME NEW c \in Clients, NEW kind \in Kinds, NEW whole \in BOOLEAN, SendRequest(c, kind, whole)
      PROVE  OneAtATime'
  <2>1. ~half[c] /\ ~Outstanding(c) /\ sent' = [sent EXCEPT ![c] = Append(@, kind)]
    BY <1>3 DEF SendRequest, Patient
  <2>2. \A n \in 1..Len(sent[c]) : <<c, n>> \in Answered(c)
    BY <2>1 DEF Outstanding, Whole
  <2>3. \A d \in Clients : d # c => sent'[d] = sent[d]
    BY <1>1, <2>1
  <2>4. Len(sent'[c]) = Len(sent[c]) + 1 /\ Len(sent[c]) \in Nat
    BY <1>1, <2>1
  <2>5. UNCHANGED got => \A d \in Clients : Answered(d)' = Answered(d)
    BY DEF Answered
  <2>6. 1..(Len(sent'[c]) - 1) = 1..Len(sent[c])
    BY <2>4
  <2>7. ASSUME NEW d \in Clients
        PROVE  \A n \in 1..(Len(sent'[d]) - 1) : <<d, n>> \in Answered(d)'
    BY <1>1, <2>2, <2>3, <2>5, <2>6 DEF OneAtATime
  <2>8. QED
    BY <2>7 DEF OneAtATime
<1>4. \A c : Connect(c) \/ Leave(c) \/ Reset(c) \/ SendRemainder(c) => UNCHANGED sent
  BY DEF Connect, Leave, Reset, SendRemainder, clientVars
<1>5. \A p : Runs(p) => UNCHANGED sent
  BY DEF Runs, clientVars
<1>6. QED
  BY <1>2, <1>3, <1>4, <1>5, EnvCases DEF clientVars, Sent

-----------------------------------------------------------------------------
(* What has been used up is not asked for again. *)

\* A program is started for the request that is cut off, and its pipe is opened with it.
LEMMA StartedCut ==
    ASSUME IInv, LoopInv, up' = "up", NEW k \in 1..(2 * MaxReq), RequestCgi(k)
    PROVE  \E fd \in Fds, p \in Origins :
              /\ Cut(k, fd, p) /\ proc' = [proc EXCEPT ![p].st = "run"]
              /\ \E h \in Free : pipe' = [pipe EXCEPT ![h] = p]
<1>1. k \in Nat /\ ~Ends
  BY WebserverAssumption DEF Ends, Exits
<1>2. Dispatches(k)
  BY <1>1, RequestCgiCase
<1>3. PICK fd \in Fds, p \in Origins : Handles(k, fd, p)
  BY <1>1, <1>2, DispatchPlaces
<1>4. p = Appended(k).buf[1].req /\ Cut(k, fd, p)
  BY <1>3 DEF Handles, Cut
<1>5. ~Exit("pipe")
  BY DEF Exit
<1>6. QED
  BY <1>4, <1>5 DEF RequestCgi, Nth

LEMMA ProcCases ==
    ASSUME IInv, LoopInv, Server, up' = "up"
    PROVE  \/ UNCHANGED proc
           \/ CgiData
           \/ \E k \in Nat, fd \in Fds, p \in Origins :
                 Cut(k, fd, p) /\ proc' = [proc EXCEPT ![p].st = "run"]
<1>1. CASE \E k \in 1..(2 * MaxReq) : RequestCgi(k)
  <2>1. \A k \in 1..(2 * MaxReq) : k \in Nat
    BY WebserverAssumption
  <2>2. QED
    BY <1>1, <2>1, StartedCut
<1>2. CASE ~\E k \in 1..(2 * MaxReq) : RequestCgi(k)
  BY <1>2 DEF Server, Poll, Idle, validateLastActiveTime, connectClient, RequestTooLarge,
     RequestIncomplete, RequestStatic, RequestRejected, RequestEof, RequestError, SendResponse,
     NoResponse, CgiEof
<1>3. QED
  BY <1>1, <1>2

LEMMA NewlyBegun ==
    ASSUME IInv, LoopInv, Server, up' = "up", NEW o \in Origins, Begun(o)'
    PROVE  Begun(o) \/ \E k \in Nat, fd \in Fds : Cut(k, fd, o)
<1>1. proc \in [Origins -> Process]
  BY DEF IInv, EnvInv
<1>2. ASSUME NEW p \in Origins, proc' = [proc EXCEPT ![p].st = "run"], p # o
      PROVE  Begun(o)
  BY <1>1, <1>2 DEF Begun
<1>3. ASSUME CgiData
      PROVE  Begun(o)
  <2>1. proc' = [proc EXCEPT ![pipe[Fd]].unread = FALSE] /\ proc[pipe[Fd]].unread
    BY <1>3 DEF CgiData
  <2>2. CASE pipe[Fd] = o
    BY <2>1, <2>2 DEF Begun
  <2>3. CASE pipe[Fd] # o
    BY <1>1, <2>1, <2>3 DEF Begun
  <2>4. QED
    BY <2>2, <2>3
<1>4. QED
  BY <1>2, <1>3, ProcCases DEF Begun

LEMMA NewlySpent ==
    ASSUME IInv, SocketInv, LoopInv, NoReset, ConnIffSocket, StreamInv, "large" \notin Kinds,
           Server, up' = "up", NEW o \in Origins, Spent(o)'
    PROVE  Spent(o) \/ \E k \in Nat, fd \in Fds : Cut(k, fd, o)
<1>1. ASSUME NEW c, NEW i, Refused(o, c, i)'
      PROVE  Spent(o) \/ \E k \in Nat, fd \in Fds : Cut(k, fd, o)
  <2>1. c \in Clients /\ i \in DOMAIN got'[c] /\ got'[c][i].code # 200 /\ o \in got'[c][i].of
    BY <1>1 DEF Refused
  <2>2. CASE i \in DOMAIN got[c] /\ got'[c][i] = got[c][i]
    BY <2>1, <2>2 DEF Spent, Refused
  <2>3. ASSUME NEW k \in Nat, NEW fd \in Fds, NEW p \in Origins, Cut(k, fd, p), got'[c][i].of = {p}
        PROVE  \E l \in Nat, f \in Fds : Cut(l, f, o)
    BY <2>1, <2>3
  <2>4. QED
    BY <2>1, <2>2, <2>3, NewlyGot
<1>2. QED
  BY <1>1, NewlyBegun DEF Spent

LEMMA SpentServerStep ==
    ASSUME IInv, SocketInv, LoopInv, NoReset, ConnIffSocket, StreamInv, "large" \notin Kinds,
           SpentInv, Server, up' = "up"
    PROVE  SpentInv'
<1>1. UNCHANGED <<sent, half>>
  BY ServerCases DEF clientVars
<1>2. \A c \in Clients : Whole(c)' = Whole(c) /\ \A g : Coming(c, g)' => Coming(c, g)
  BY <1>1, StreamServerStep DEF Whole
<1>3. ASSUME NEW o \in Origins, Spent(o)'
      PROVE  o[2] <= Whole(o[1])' /\ \A g : Coming(o[1], g)' => o[2] < g.req[2]
  <2>1. o[1] \in Clients
    BY OriginType
  <2>2. CASE Spent(o)
    BY <1>2, <2>1, <2>2 DEF SpentInv
  <2>3. ASSUME NEW k \in Nat, NEW fd \in Fds, Cut(k, fd, o)
        PROVE  o[2] <= Whole(o[1])' /\ \A g : Coming(o[1], g)' => o[2] < g.req[2]
    BY <1>2, <2>1, <2>3, CutFacts
  <2>4. QED
    BY <1>3, <2>2, <2>3, NewlySpent
<1>4. QED
  BY <1>3 DEF SpentInv

\* What the environment adds to a stream comes after all that is complete.
LEMMA EnvStreams ==
    ASSUME IInv, StreamInv, Environment
    PROVE  \A c \in Clients : /\ Whole(c) \in Int /\ Whole(c)' \in Int /\ Whole(c) <= Whole(c)'
                              /\ \A g : Coming(c, g)' => Coming(c, g) \/ Whole(c) < g.req[2]
<1>1. UNCHANGED sock /\ SameTable(conn, conn')
  BY EnvCases
<1>2. IInv'
  BY NextInv DEF Environment, Next
<1>3. \A c \in Clients : Whole(c) \in Int /\ Whole(c)' \in Int
  <2>1. \A c \in Clients : Len(sent[c]) \in Nat /\ Len(sent'[c]) \in Nat
    BY <1>2 DEF IInv, EnvInv
  <2>2. QED
    BY <2>1 DEF Whole
<1>4. CASE UNCHANGED <<inbuf, clientVars>>
  <2>1. \A s \in Servers, fd \in Fds : BufOf(conn'[s][fd]) = BufOf(conn[s][fd])
    BY <1>1 DEF SameTable, SameEntry
  <2>2. Flows
    BY <1>1, <1>4, <2>1, KeptBuffers
  <2>3. \A c \in Clients : \A g : Coming(c, g)' => Coming(c, g)
    BY <1>4, <2>2, FlowsStep
  <2>4. \A c \in Clients : Whole(c)' = Whole(c)
    BY <1>4 DEF Whole, clientVars
  <2>5. QED
    BY <1>3, <2>3, <2>4
<1>5. ASSUME NEW d \in Clients, Sent(d)
      PROVE  \A c \in Clients : /\ Whole(c) <= Whole(c)'
                                /\ \A g : Coming(c, g)' => Coming(c, g) \/ Whole(c) < g.req[2]
  <2>1. PICK h : Announces(d, h)
    BY <1>5, SentFacts
  <2>2. \A c \in Clients : Whole(c) <= Whole(c)'
    <3>1. Whole(d) <= Whole(d)' /\ \A c \in Clients : c # d => Whole(c)' = Whole(c)
      BY <2>1 DEF Announces
    <3>2. QED
      BY <1>3, <3>1
  <2>3. QED
    BY <1>1, <1>5, <2>2, SentStep
<1>6. UNCHANGED <<inbuf, clientVars>> \/ \E d \in Clients : Sent(d)
  BY EnvCases DEF Connect, Leave, Reset, Runs
<1>7. QED
  BY <1>3, <1>4, <1>5, <1>6

LEMMA SpentEnvStep ==
    ASSUME Staying, IInv, StreamInv, UsedInv, AnswerInv, SpentInv, Environment
    PROVE  SpentInv'
<1>1. proc \in [Origins -> Process] /\ UNCHANGED got
  BY StayingEnv DEF IInv, EnvInv
<1>2. \A o \in Origins : Begun(o)' => Begun(o)
  <2>1. ASSUME NEW p \in Origins, Cgi(p), NEW o \in Origins, Begun(o)'
        PROVE  Begun(o)
    <3>1. proc[p].st = "run" /\ \A q \in Origins : q # p => proc'[q] = proc[q]
      BY <1>1, <2>1 DEF Cgi, CgiWrite, CgiExit, CgiExecFails
    <3>2. QED
      BY <2>1, <3>1 DEF Begun
  <2>2. UNCHANGED proc => \A o \in Origins : Begun(o)' => Begun(o)
    BY DEF Begun
  <2>3. QED
    BY <2>1, <2>2 DEF Environment, Client, Connect, SendRemainder, Leave, Reset, SendRequest, Tick
<1>3. ASSUME NEW o \in Origins, Spent(o)'
      PROVE  o[2] <= Whole(o[1])' /\ \A g : Coming(o[1], g)' => o[2] < g.req[2]
  <2>1. Spent(o)
    BY <1>1, <1>2, <1>3 DEF Spent, Refused
  <2>2. o[1] \in Clients /\ o[2] \in Nat
    BY OriginType
  <2>3. o[2] <= Whole(o[1]) /\ \A g : Coming(o[1], g) => o[2] < g.req[2]
    BY <2>1 DEF SpentInv
  <2>4. o[2] <= Whole(o[1])'
    BY <2>2, <2>3, EnvStreams
  <2>5. ASSUME NEW g, Coming(o[1], g)'
        PROVE  o[2] < g.req[2]
    <3>1. CASE Coming(o[1], g)
      BY <2>3, <3>1
    <3>2. CASE Whole(o[1]) < g.req[2]
      <4>1. g.req[2] \in Int
        <5>1. IInv'
          BY NextInv DEF Environment, Next
        <5>2. g.req[2] \in 1..Len(sent'[o[1]])
          <6>1. StreamInv'
            BY AnswerEnvStep
          <6>2. QED
            BY <2>2, <2>5, <6>1 DEF StreamInv, WellSent
        <5>3. QED
          BY <5>2
      <4>2. QED
        BY <2>2, <2>3, <3>2, <4>1, EnvStreams
    <3>3. QED
      BY <2>2, <2>5, <3>1, <3>2, EnvStreams
  <2>6. QED
    BY <2>4, <2>5
<1>4. QED
  BY <1>3 DEF SpentInv

-----------------------------------------------------------------------------
(* What is queued. *)

LEMMA UsedKindServerStep ==
    ASSUME IInv, SocketInv, LoopInv, StreamInv, UsedInv, SpentInv, AnswerInv, UsedKind, Server,
           up' = "up"
    PROVE  UsedKind'
<1>1. KeptPipes(kq') /\ UNCHANGED sent
  BY PipeEventKept, ServerCases DEF clientVars
<1>2. (\A o \in Origins : Used(o)' => Used(o)) => UsedKind'
  BY <1>1 DEF UsedKind
<1>3. Event(CGI_RESPONSE) => EventOf(Fd).srv = Srv /\ EventOf(Fd).client = CgiTo
  BY DEF Event, LoopInv, PolledKnown, Holding, EventOf
<1>4. Rests \/ (Gathers /\ Event(CGI_RESPONSE)) \/ Completes \/ HandsOut => UsedKind'
  BY <1>1, <1>2, <1>3, RestsMove, GathersMove, CompletesMove, HandsOutMove
<1>5. ASSUME NEW k \in Nat, NEW fd \in Fds, NEW p \in Origins, Handles(k, fd, p)
      PROVE  UsedKind'
  <2>1. Cut(k, fd, p)
    BY <1>5 DEF Handles
  <2>2. Coming(p[1], Appended(k).buf[1]) /\ Appended(k).buf[1].kind = sent[p[1]][p[2]]
    BY <2>1, CutFacts
  <2>3. ~Used(p)
    <3>1. p[2] \in Nat /\ Appended(k).buf[1].req = p
      BY <2>1, OriginType DEF Cut
    <3>2. QED
      BY <2>2, <3>1 DEF UsedInv
  <2>4. Rests \/ (Queues(p) /\ sent[p[1]][p[2]] # "fail") \/ (Starts(p) /\ sent[p[1]][p[2]] # "fail")
    BY <1>5, <2>2 DEF Handles
  <2>5. Queues(p) \/ Starts(p) => \A o \in Origins : Used(o)' => Used(o) \/ o = p
    BY <1>1, <2>3, QueuesMove, StartsMove
  <2>6. QED
    BY <1>1, <1>4, <2>4, <2>5 DEF UsedKind
<1>6. QED
  BY <1>4, <1>5, PlaceCases

LEMMA UsedKindEnvStep ==
    ASSUME Staying, IInv, StreamInv, UsedInv, AnswerInv, UsedKind, Environment
    PROVE  UsedKind'
<1>1. \A o \in Origins : Used(o)' => Used(o)
  BY EnvRests, RestsMove
<1>2. ASSUME NEW o \in Origins, Used(o)'
      PROVE  sent'[o[1]][o[2]] # "fail"
  <2>1. Used(o) /\ sent[o[1]][o[2]] # "fail" /\ o[2] <= Whole(o[1])
    BY <1>1, <1>2 DEF UsedKind, UsedInv
  <2>2. o[1] \in Clients /\ o[2] \in 1..Len(sent[o[1]])
    BY <2>1, OriginType
  <2>3. QED
    BY <2>1, <2>2, StayingEnv
<1>3. QED
  BY <1>2 DEF UsedKind

\* An answer that is still to be given is the answer to the last request.
Pending(o) == Waiting(o) \/ \E s, f, j : Held(o, s, f, j)

LEMMA PendingLast ==
    ASSUME IInv, UsedInv, AnswerInv, UsedKind, RefusedKind, OneAtATime, NEW o \in Origins, Pending(o)
    PROVE  o \notin Answered(o[1]) /\ o[2] = Len(sent[o[1]])
<1>1. /\ o[1] \in Clients /\ o[2] \in Nat /\ o[2] > 0 /\ o = <<o[1], o[2]>>
      /\ Whole(o[1]) \in Int /\ Whole(o[1]) <= Len(sent[o[1]]) /\ Len(sent[o[1]]) \in Nat
  BY OriginType
<1>2. Used(o)
  BY DEF Pending, Used
<1>3. sent[o[1]][o[2]] # "fail" /\ o[2] <= Whole(o[1])
  BY <1>2 DEF UsedKind, UsedInv
<1>4. ASSUME NEW i \in DOMAIN got[o[1]], o \in got[o[1]][i].of
      PROVE  FALSE
  <2>1. CASE got[o[1]][i].code = 200
    <3>1. Told(o, o[1], i)
      BY <1>1, <1>4, <2>1 DEF Told
    <3>2. QED
      BY <3>1 DEF AnswerInv, ToldApart, Pending
  <2>2. CASE got[o[1]][i].code # 200
    <3>1. Refused(o, o[1], i)
      BY <1>1, <1>4, <2>2 DEF Refused
    <3>2. QED
      BY <1>3, <3>1 DEF RefusedKind
  <2>3. QED
    BY <2>1, <2>2
<1>5. o \notin Answered(o[1])
  BY <1>4 DEF Answered
<1>6. o[2] \notin 1..(Len(sent[o[1]]) - 1)
  BY <1>1, <1>5 DEF OneAtATime
<1>7. QED
  BY <1>1, <1>3, <1>5, <1>6

\* So no queue is longer than one response.
LEMMA QueueShort ==
    ASSUME IInv, SocketInv, UsedInv, AnswerInv, UsedKind, RefusedKind, HeldOwn, OneAtATime,
           NEW s \in Servers, NEW fd \in Fds
    PROVE  Len(QueueOf(conn[s][fd])) <= 1
<1> DEFINE q == QueueOf(conn[s][fd])
<1>1. q \in Seq(Response) /\ \A i \in DOMAIN q : q[i].of # {}
  <2>1. conn[s][fd] \in Entries
    BY DEF IInv, TableInv, Tables, Entries
  <2>2. AllOk(q)
    BY DEF SocketInv, QueueCodes
  <2>3. QED
    BY <2>1, <2>2, EntryTypes DEF AllOk
<1>2. ASSUME NEW i \in DOMAIN q
      PROVE  \E o \in Origins : Held(o, s, fd, i) /\ o = <<sock[fd], Len(sent[sock[fd]])>>
  <2>1. q[i].of \subseteq Origins /\ q[i].of # {}
    <3>1. q[i] \in Response
      BY <1>1
    <3>2. QED
      BY <1>1, <3>1 DEF Response
  <2>2. PICK o \in Origins : o \in q[i].of
    BY <2>1
  <2>3. Held(o, s, fd, i)
    BY <2>2 DEF Held
  <2>4. sock[fd] = o[1] /\ o[2] = Len(sent[o[1]]) /\ o = <<o[1], o[2]>>
    BY <2>3, PendingLast, OriginType DEF HeldOwn, Pending
  <2>5. QED
    BY <2>3, <2>4
<1>3. ASSUME Len(q) > 1
      PROVE  FALSE
  <2>1. 1 \in DOMAIN q /\ 2 \in DOMAIN q
    BY <1>1, <1>3
  <2>2. PICK o \in Origins : Held(o, s, fd, 1) /\ Held(o, s, fd, 2)
    BY <1>2, <2>1
  <2>3. QED
    BY <2>2 DEF AnswerInv, HeldOnce
<1>4. Len(q) \in Nat
  BY <1>1
<1> HIDE DEF q
<1>5. Len(q) <= 1
  BY <1>3, <1>4
<1>6. QED
  BY <1>5 DEF q

LEMMA NoneCompleteServerStep ==
    ASSUME IInv, SocketInv, LoopInv, StreamInv, UsedInv, SpentInv, OneAtATime, "large" \notin Kinds,
           NoneComplete, Server, up' = "up"
    PROVE  NoneComplete'
<1>1. /\ StreamInv' /\ UNCHANGED <<sent, half>> /\ IInv'
      /\ sock \in [Fds -> Clients \cup {None}] /\ None \notin Clients
  BY StreamServerStep, ServerCases, ServerStep, NoneIsNoObject DEF clientVars, IInv, RegistryInv
<1>2. Flows => NoneComplete'
  BY DEF Flows, NoneComplete
<1>3. ASSUME NEW k \in Nat, NEW f \in Fds, Receives(k, f)
      PROVE  NoneComplete'
  <2> DEFINE a == Appended(k).buf
  <2>1. recv(k) /\ ~TooLarge(a) /\ a[1].req \in Origins
    <3>1. recv(k)
      BY <1>3 DEF Receives
    <3>2. QED
      BY <3>1, NothingLarge, RecvFacts DEF Connection
  <2>2. ASSUME NEW fd \in Fds, fd # f, sock'[fd] # None
        PROVE  \A i \in DOMAIN Buffer(fd)' : ~Buffer(fd)'[i].last
    BY <1>3, <2>2 DEF Receives, NoneComplete
  <2>3. CASE Buffer(f)' = a /\ ~hasRequest(a)
    <3>1. \A i \in DOMAIN Buffer(f)' : ~Buffer(f)'[i].last
      BY <2>3 DEF hasRequest
    <3>2. QED
      BY <2>2, <3>1 DEF NoneComplete
  <2>4. CASE sock'[f] = sock[f] /\ hasRequest(a) /\ Buffer(f)' = RestOf(a)
    <3>0. PICK p \in Origins : p = a[1].req
      BY <2>1
    <3>1. Cut(k, f, p)
      <4>1. Srv = Home[sock[f]]
        BY <1>3, <2>1, ReadsOwn DEF Receives
      <4>2. QED
        BY <1>3, <2>4, <3>0, <4>1 DEF Cut
    <3> HIDE DEF a
    <3>2. /\ p[1] = sock[f] /\ Coming(p[1], a[1]) /\ p[2] <= Whole(p[1])
          /\ p[2] \in Nat
          /\ \A g : Coming(p[1], g)' => p[2] < g.req[2]
      BY <3>1, CutFacts, OriginType DEF a
    <3>3. p[2] = Len(sent[p[1]]) /\ p[1] \in Clients /\ p[2] \in Nat
          /\ Whole(p[1]) \in Int /\ Whole(p[1]) <= Len(sent[p[1]])
      <4>1. a[1].req[2] <= p[2]
        BY <3>0, <3>2
      <4>2. QED
        BY <3>2, <4>1, LastCut, OriginType
    <3>4. ASSUME NEW g, Among(g, Buffer(f))', g.last
          PROVE  FALSE
      <4>1. Coming(p[1], g)'
        BY <2>4, <3>2, <3>4 DEF Coming
      <4>2. WellSent(p[1], g)'
        BY <1>1, <3>3, <4>1 DEF StreamInv
      <4>3. g.req[2] <= Whole(p[1]) /\ g.req[2] \in Int /\ p[2] < g.req[2]
        <5>1. Whole(p[1])' = Whole(p[1])
          BY <1>1 DEF Whole
        <5>2. g.req[2] \in 1..Len(sent'[p[1]])
          BY <4>2 DEF WellSent
        <5>3. QED
          BY <3>2, <3>4, <4>1, <4>2, <5>1, <5>2 DEF WellSent
      <4>4. QED
        BY <3>3, <4>3
    <3>5. \A i \in DOMAIN Buffer(f)' : ~Buffer(f)'[i].last
      BY <3>4 DEF Among
    <3>6. QED
      BY <2>2, <3>5 DEF NoneComplete
  <2>5. QED
    BY <1>3, <2>1, <2>2, <2>3, <2>4 DEF Receives, NoneComplete
<1>4. QED
  BY <1>2, <1>3, StreamCases

LEMMA NoneCompleteEnvStep ==
    ASSUME IInv, NoneComplete, Environment
    PROVE  NoneComplete'
<1>1. UNCHANGED sock /\ SameTable(conn, conn') /\ \A fd \in Fds : sock[fd] # None => Home[sock[fd]] \in Servers
  BY EnvCases, WebserverAssumption DEF IInv, RegistryInv
<1>2. QED
  BY <1>1 DEF NoneComplete, Buffer, SameTable, SameEntry

-----------------------------------------------------------------------------
(* Write events. *)

SameWrites(q, r, S) ==
    \A g \in Fds \ S : SameKnote(q.knote[<<g, EVFILT_WRITE>>], r.knote[<<g, EVFILT_WRITE>>])

\* The write event of a descriptor is registered, with a server.
WatchedBy(q, fd, s) ==
    q.knote[<<fd, EVFILT_WRITE>>] # None /\ q.knote[<<fd, EVFILT_WRITE>>].srv = s

LEMMA WriteNames ==
    \A g \in Fds : /\ g \in Descriptors /\ <<g, EVFILT_WRITE>> \in Knotes /\ <<g, EVFILT_READ>> \in Knotes
                   /\ \A h : <<g, EVFILT_WRITE>> # <<h, EVFILT_READ>>
                   /\ EVFILT_WRITE \in Filters /\ EVFILT_READ \in Filters
BY DEF Descriptors, Knotes, Filters, EVFILT_READ, EVFILT_WRITE

LEMMA SameWritesChain ==
    ASSUME NEW p, NEW q, NEW r, NEW S, NEW T, SameWrites(p, q, S), SameWrites(q, r, T)
    PROVE  SameWrites(p, r, S \cup T)
BY DEF SameWrites, SameKnote

\* A response event is a write event, and the others are not.
LEMMA AddedWrites ==
    ASSUME NEW q \in Registry, NEW fd \in Fds, NEW type \in {REQUEST, CGI_RESPONSE},
           NEW srv \in Servers, NEW client \in Fds \cup {None}, NEW r,
           r = addEvent(q, TRUE, fd, type, srv, client)
    PROVE  r \in Registry /\ SameWrites(q, r, {})
<1>1. type \in Types /\ fd \in Descriptors /\ getFilter(type) = EVFILT_READ
  BY EventTypes, WriteNames
<1>2. /\ r \in Registry
      /\ \A n \in Knotes : n # <<fd, getFilter(type)>> => SameKnote(q.knote[n], r.knote[n])
  BY <1>1, AddEventType
<1>3. QED
  BY <1>1, <1>2, WriteNames DEF SameWrites

LEMMA AskedWrites ==
    ASSUME NEW q \in Registry, NEW fd \in Fds, NEW srv \in Servers, NEW r,
           r = addEvent(q, TRUE, fd, RESPONSE, srv, None)
    PROVE  r \in Registry /\ SameWrites(q, r, {fd}) /\ WatchedBy(r, fd, srv)
<1> DEFINE i == [type |-> RESPONSE, srv |-> srv, client |-> None, live |-> TRUE]
<1>1. RESPONSE \in Types /\ fd \in Descriptors /\ getFilter(RESPONSE) = EVFILT_WRITE
      /\ None \in Fds \cup {None}
  BY EventTypes, WriteNames DEF getFilter
<1>2. /\ r \in Registry /\ r.knote[<<fd, getFilter(RESPONSE)>>] = i
      /\ \A n \in Knotes : n # <<fd, getFilter(RESPONSE)>> => SameKnote(q.knote[n], r.knote[n])
  BY <1>1, AddEventType
<1>3. i # None /\ i.srv = srv
  <2>1. i \in EventInfo
    BY <1>1 DEF EventInfo
  <2>2. QED
    BY <2>1, NoneAssumption
<1> HIDE DEF i
<1>4. QED
  BY <1>1, <1>2, <1>3, WriteNames DEF SameWrites, WatchedBy

LEMMA RemovedWrites ==
    ASSUME NEW q \in Registry, NEW fd \in Fds, NEW filter \in Filters, NEW r,
           r = removeEvent(q, fd, filter)
    PROVE  /\ r \in Registry
           /\ filter = EVFILT_READ => SameWrites(q, r, {})
           /\ filter = EVFILT_WRITE => /\ SameWrites(q, r, {fd})
                                       /\ r.knote[<<fd, EVFILT_WRITE>>] = None
<1>1. /\ r \in Registry /\ r.knote[<<fd, filter>>] = None
      /\ \A n \in Knotes : n # <<fd, filter>> => SameKnote(q.knote[n], r.knote[n])
  BY WriteNames, RemoveEventType
<1>2. QED
  BY <1>1, WriteNames DEF SameWrites

LEMMA ClosedWrites ==
    ASSUME NEW q \in Registry, NEW fd \in Fds, NEW r, r = closeFd(q, fd)
    PROVE  /\ r \in Registry /\ SameWrites(q, r, {fd}) /\ r.knote[<<fd, EVFILT_WRITE>>] = None
<1>0. fd \in Descriptors
  BY DEF Descriptors
<1>1. /\ r \in Registry
      /\ \A n \in Knotes : r.knote[n] = IF n[1] = fd THEN None ELSE q.knote[n]
  <2>1. r \in Registry
    BY <1>0, CloseFdType
  <2>2. \A n \in Knotes : closeFd(q, fd).knote[n] = IF n[1] = fd THEN None ELSE q.knote[n]
    BY <1>0, CloseFdType
  <2>3. QED
    BY <2>1, <2>2
<1>2. QED
  BY <1>1, WriteNames DEF SameWrites, SameKnote

LEMMA DoneWrites ==
    ASSUME NEW q \in Registry
    PROVE  Done(q) \in Registry /\ SameWrites(q, Done(q), {}) /\ Done(q).knote = q.knote
BY DoneType DEF SameWrites, SameKnote

-----------------------------------------------------------------------------
WriteOf(fd) == kq.knote[<<fd, EVFILT_WRITE>>]

\* The write event is registered, with the server of the socket, exactly while a
\* response is queued.
WriteExact(fd) ==
    IF sock[fd] # None /\ QueueOf(conn[Home[sock[fd]]][fd]) # <<>>
    THEN WriteOf(fd) # None /\ WriteOf(fd).srv = Home[sock[fd]]
    ELSE WriteOf(fd) = None

WriteInv == \A fd \in Fds : WriteExact(fd)

\* The response event that the loop holds is that of the socket's own server.
HeldWrite ==
    Holding /\ kq.polled.info.type = RESPONSE /\ sock[Fd] # None => Srv = Home[sock[Fd]]

LEMMA WriteSame ==
    ASSUME NEW fd \in Fds, WriteExact(fd), sock'[fd] = sock[fd],
           sock[fd] # None => QueueOf(conn'[Home[sock[fd]]][fd]) = QueueOf(conn[Home[sock[fd]]][fd]),
           SameKnote(WriteOf(fd), WriteOf(fd)')
    PROVE  WriteExact(fd)'
BY DEF WriteExact, SameKnote

LEMMA WritesRest ==
    ASSUME IInv, WriteInv, UNCHANGED sock, SameWrites(kq, kq', {}),
           \/ SameTable(conn, conn')
           \/ \E s \in Servers, fd \in Fds : \E b, o : Becomes(s, fd, b, QueueOf(conn[s][fd]), o)
    PROVE  WriteInv'
<1>1. \A s \in Servers, fd \in Fds : QueueOf(conn'[s][fd]) = QueueOf(conn[s][fd])
  BY DEF SameTable, SameTableBut, SameEntry, Becomes
<1>2. \A fd \in Fds : sock[fd] # None => Home[sock[fd]] \in Servers
  BY WebserverAssumption DEF IInv, RegistryInv
<1>3. QED
  BY <1>1, <1>2, WriteSame DEF WriteInv, SameWrites, WriteOf

\* One descriptor is opened, closed or answered, and the others keep what they have.
LEMMA WritesBut ==
    ASSUME IInv, WriteInv, NEW s \in Servers, NEW fd \in Fds,
           SameTableBut(conn, conn', s, fd), \A g \in Fds \ {fd} : sock'[g] = sock[g],
           SameWrites(kq, kq', {fd}), WriteExact(fd)'
    PROVE  WriteInv'
<1>1. \A t \in Servers, g \in Fds \ {fd} : QueueOf(conn'[t][g]) = QueueOf(conn[t][g])
  BY DEF SameTableBut, SameEntry
<1>2. \A g \in Fds : sock[g] # None => Home[sock[g]] \in Servers
  BY WebserverAssumption DEF IInv, RegistryInv
<1>3. QED
  BY <1>1, <1>2, WriteSame DEF WriteInv, SameWrites, WriteOf
\* What is closed has neither a queue nor a write event.
LEMMA WritesClosed ==
    ASSUME IInv, WriteInv, NEW s \in Servers, NEW fd \in Fds, NEW q \in Registry, close(fd, q),
           SameWrites(kq, q, {}), SameTableBut(conn, conn', s, fd)
    PROVE  WriteInv'
<1>1. sock' = [sock EXCEPT ![fd] = None] /\ kq' = closeFd(q, fd)
      /\ sock \in [Fds -> Clients \cup {None}]
  BY DEF close, IInv, RegistryInv
<1>2. SameWrites(q, kq', {fd}) /\ kq'.knote[<<fd, EVFILT_WRITE>>] = None
  BY <1>1, ClosedWrites
<1>3. SameWrites(kq, kq', {fd})
  <2>1. SameWrites(kq, kq', {} \cup {fd})
    BY <1>2, SameWritesChain
  <2>2. {} \cup {fd} = {fd}
    OBVIOUS
  <2>3. QED
    BY <2>1, <2>2
<1>4. WriteExact(fd)' /\ \A g \in Fds \ {fd} : sock'[g] = sock[g]
  BY <1>1, <1>2 DEF WriteExact, WriteOf
<1>5. QED
  BY <1>3, <1>4, WritesBut

LEMMA WritesPoll ==
    ASSUME IInv, WriteInv, Poll \/ Idle
    PROVE  WriteInv'
<1>1. kq'.knote = kq.knote /\ UNCHANGED <<conn, sock>>
  BY DEF Poll, Idle, pollEvents, kernelVars
<1>2. QED
  BY <1>1 DEF WriteInv, WriteExact, WriteOf

LEMMA WritesTimeout ==
    ASSUME IInv, WriteInv, NEW s \in Servers, NEW fd \in Fds, TimesOut(s, fd)
    PROVE  WriteInv'
<1> DEFINE q == removeEvent(kq, fd, EVFILT_READ)
<1>1. kq \in Registry /\ conn \in Tables /\ None \in Entries
  BY DEF IInv, RegistryInv, TableInv, Entries
<1>2. q \in Registry /\ SameWrites(kq, q, {})
  BY <1>1, RemovedWrites, WriteNames
<1> HIDE DEF q
<1>3. close(fd, q) /\ SameTableBut(conn, conn', s, fd)
  BY <1>1, PutEntry DEF TimesOut, q
<1>4. QED
  BY <1>2, <1>3, WritesClosed

LEMMA WritesAccept ==
    ASSUME IInv, WriteInv, connectClient, up' = "up"
    PROVE  WriteInv'
<1>1. kq \in Registry /\ conn \in Tables /\ sock \in [Fds -> Clients \cup {None}] /\ Srv \in Servers
  BY EventFacts DEF IInv, RegistryInv, TableInv, connectClient, Event
<1>2. PICK fd \in Fds : /\ Nth(fd, 0)
                        /\ sock' = [sock EXCEPT ![fd] = Head(backlog[Srv])]
                        /\ conn' = Put(conn, Srv, fd, NewConnection)
                        /\ kq' = Done(addEvent(kq, TRUE, fd, REQUEST, Srv, None))
  BY DEF connectClient, Exit
<1> DEFINE r == addEvent(kq, TRUE, fd, REQUEST, Srv, None)
<1>3. r \in Registry /\ SameWrites(kq, r, {})
  BY <1>1, EventTypes, AddedWrites
<1> HIDE DEF r
<1>4. kq'.knote = r.knote
  BY <1>2, <1>3, DoneWrites DEF r
<1>5. SameWrites(kq, kq', {}) /\ SameWrites(kq, kq', {fd})
  BY <1>3, <1>4 DEF SameWrites
<1>6. /\ SameTableBut(conn, conn', Srv, fd) /\ conn'[Srv][fd] = NewConnection
  BY <1>1, <1>2, FreshEntry, PutEntry DEF Entries
<1>7. WriteOf(fd) = None /\ WriteOf(fd)' = None
  <2>1. WriteOf(fd) = None
    BY <1>2 DEF Nth, Free, WriteInv, WriteExact
  <2>2. QED
    BY <1>5, <2>1 DEF SameWrites, SameKnote, WriteOf
<1>8. QueueOf(conn'[Srv][fd]) = <<>>
  BY <1>6, FreshEntry DEF QueueOf
<1>9. WriteExact(fd)'
  <2>1. /\ kq.polled # None /\ kq.polled.info.type = SERVER
    BY DEF connectClient, Event
  <2>2. /\ backlog[Srv] \in Seq(Clients) /\ backlog[Srv] # <<>>
        /\ \A i \in DOMAIN backlog[Srv] : Home[backlog[Srv][i]] = Srv
    BY <1>1, <2>1, EventFacts DEF connectClient, Event, IInv, EnvInv, BacklogHome, AcceptWaits, Fd
  <2>3. Home[sock'[fd]] = Srv
    BY <1>1, <1>2, <2>2
  <2>4. QED
    BY <1>7, <1>8, <2>3 DEF WriteExact
<1>10. \A g \in Fds \ {fd} : sock'[g] = sock[g]
  BY <1>1, <1>2
<1>11. QED
  BY <1>1, <1>5, <1>6, <1>9, <1>10, WritesBut

\* A request that waits, is refused or starts a program leaves the queue alone.
LEMMA WritesRequest ==
    ASSUME IInv, LoopInv, NoReset, WriteInv, NEW k,
           ~TooLarge(Appended(k).buf), up' = "up",
           RequestIncomplete(k) \/ RequestRejected(k) \/ RequestCgi(k)
    PROVE  WriteInv'
<1> DEFINE a == Appended(k)
<1>1. recv(k)
  BY DEF RequestIncomplete, RequestRejected, RequestCgi, Takes
<1>2. /\ kq \in Registry /\ conn \in Tables /\ Fd \in Fds /\ Srv \in Servers /\ sock[Fd] # None
      /\ a \in Connection /\ a.queue = QueueOf(conn[Srv][Fd])
  BY <1>1, RecvEntry DEF IInv, RegistryInv, TableInv
<1>3. SameWrites(kq, Done(kq), {})
  BY <1>2, DoneWrites
<1>4. hasRequest(a.buf) => Rest(a) \in Connection /\ Rest(a).queue = a.queue
  BY <1>2, RestEntry
<1> HIDE DEF a
<1>5. ASSUME NEW e \in Connection, e.queue = a.queue, conn' = Put(conn, Srv, Fd, e),
             UNCHANGED sock, SameWrites(kq, kq', {})
      PROVE  WriteInv'
  <2>1. Becomes(Srv, Fd, e.buf, QueueOf(conn[Srv][Fd]), e.cgi)
    BY <1>2, <1>5, PutBecomes
  <2>2. QED
    BY <1>2, <1>5, <2>1, WritesRest
<1>6. CASE RequestIncomplete(k)
  <2>1. conn' = Put(conn, Srv, Fd, a) /\ kq' = Done(kq) /\ UNCHANGED sock
    BY <1>6 DEF RequestIncomplete, kernelVars, a
  <2>2. QED
    BY <1>2, <1>3, <1>5, <2>1
<1>7. CASE RequestRejected(k)
  <2>1. /\ hasRequest(a.buf)
        /\ \E r : handleError(Put(conn, Srv, Fd, Rest(a)), Srv, Fd, r)
    BY <1>7 DEF RequestRejected, Takes, a
  <2>2. conn' = Put(conn, Srv, Fd, Rest(a)) /\ kq' = Done(kq) /\ UNCHANGED sock
    BY <1>2, <2>1, CalmError DEF kernelVars
  <2>3. QED
    BY <1>3, <1>4, <1>5, <2>1, <2>2
<1>8. CASE RequestCgi(k)
  <2>1. hasRequest(a.buf)
    BY <1>8 DEF RequestCgi, Takes, a
  <2>2. PICK h \in Fds : /\ conn' = Put(conn, Srv, Fd, Rest(a)) /\ UNCHANGED sock
                         /\ kq' = Done(addEvent(kq, TRUE, h, CGI_RESPONSE, Srv, Fd))
    BY <1>8 DEF RequestCgi, Exit, a
  <2> DEFINE r == addEvent(kq, TRUE, h, CGI_RESPONSE, Srv, Fd)
  <2>3. r \in Registry /\ SameWrites(kq, r, {})
    BY <1>2, EventTypes, AddedWrites
  <2> HIDE DEF r
  <2>4. SameWrites(kq, kq', {})
    BY <2>2, <2>3, DoneWrites DEF SameWrites, r
  <2>5. QED
    BY <1>4, <1>5, <2>1, <2>2, <2>4
<1>9. QED
  BY <1>6, <1>7, <1>8

\* A response that is queued is watched.
LEMMA WritesStatic ==
    ASSUME IInv, LoopInv, WriteInv, NEW k, RequestStatic(k)
    PROVE  WriteInv'
<1> DEFINE a == Appended(k)
           e == [Rest(a) EXCEPT !.queue = Append(@, [code |-> 200, of |-> {a.buf[1].req}])]
<1>1. recv(k) /\ hasRequest(a.buf)
  BY DEF RequestStatic, Takes
<1>2. /\ kq \in Registry /\ conn \in Tables /\ Fd \in Fds /\ Srv \in Servers /\ sock[Fd] # None
      /\ a \in Connection /\ Srv = Home[sock[Fd]] /\ a.buf[1].req \in Origins
  BY <1>1, RecvEntry, RecvFacts, ReadsOwn DEF IInv, RegistryInv, TableInv
<1>3. Rest(a) \in Connection
  BY <1>1, <1>2, RestEntry
<1>4. e \in Connection /\ e.queue # <<>>
  <2>1. Rest(a).queue \in Seq(Response) /\ [code |-> 200, of |-> {a.buf[1].req}] \in Response
    BY <1>2, <1>3 DEF Connection, Response
  <2>2. /\ Append(Rest(a).queue, [code |-> 200, of |-> {a.buf[1].req}]) \in Seq(Response)
        /\ Append(Rest(a).queue, [code |-> 200, of |-> {a.buf[1].req}]) # <<>>
    BY <2>1
  <2>3. QED
    BY <1>3, <2>2 DEF Connection
<1>5. conn' = Put(conn, Srv, Fd, e) /\ UNCHANGED sock
      /\ kq' = Done(addEvent(kq, TRUE, Fd, RESPONSE, Srv, None))
  <2>1. Attaches(Fd, EVFILT_WRITE) = TRUE
    BY <1>2 DEF Attaches
  <2>2. QED
    BY <2>1 DEF RequestStatic, kernelVars
<1> HIDE DEF e, a
<1>6. PICK f \in Fds, s \in Servers : f = Fd /\ s = Srv
  BY <1>2
<1>7. Becomes(s, f, e.buf, e.queue, e.cgi)
  BY <1>2, <1>4, <1>5, <1>6, PutBecomes
<1>8. /\ QueueOf(conn'[s][f]) # <<>> /\ SameTableBut(conn, conn', s, f)
      /\ sock[f] # None /\ s = Home[sock[f]] /\ UNCHANGED sock
  BY <1>2, <1>4, <1>5, <1>6, <1>7 DEF Becomes
<1> HIDE DEF e, a
<1>9. ASSUME NEW r, r = addEvent(kq, TRUE, f, RESPONSE, s, None)
      PROVE  r \in Registry /\ SameWrites(kq, r, {f}) /\ WatchedBy(r, f, s)
  BY <1>2, <1>6, <1>9, AskedWrites
<1>10. PICK r : r = addEvent(kq, TRUE, f, RESPONSE, s, None)
  OBVIOUS
<1>11. kq' = Done(r)
  BY <1>5, <1>6, <1>10
<1>12. kq'.knote = r.knote
  BY <1>9, <1>10, <1>11, DoneWrites
<1>13. SameWrites(kq, kq', {f}) /\ WriteOf(f)' # None /\ WriteOf(f)'.srv = s
  BY <1>9, <1>10, <1>12 DEF SameWrites, WriteOf, WatchedBy
<1>14. WriteExact(f)'
  BY <1>8, <1>13 DEF WriteExact
<1>15. QED
  BY <1>8, <1>13, <1>14, WritesBut

LEMMA WritesEof ==
    ASSUME IInv, WriteInv, RequestEof
    PROVE  WriteInv'
<1>1. /\ kq \in Registry /\ conn \in Tables /\ Fd \in Fds /\ Srv \in Servers /\ None \in Entries
  BY EventFacts, EventTypes DEF RequestEof, Event, IInv, RegistryInv, TableInv, Entries
<1>2. PICK f \in Fds, s \in Servers : f = Fd /\ s = Srv
  BY <1>1
<1>3. close(f, Done(kq)) /\ conn' = Put(conn, s, f, None)
  BY <1>2 DEF RequestEof, closeConnection, removeConnection
<1>4. Done(kq) \in Registry /\ SameWrites(kq, Done(kq), {}) /\ SameTableBut(conn, conn', s, f)
  BY <1>1, <1>3, DoneWrites, PutEntry
<1>5. QED
  BY <1>3, <1>4, WritesClosed

LEMMA WritesError ==
    ASSUME IInv, WriteInv, NoReset, RequestError
    PROVE  WriteInv'
<1>1. /\ kq \in Registry /\ conn \in Tables /\ Fd \in Fds /\ Srv \in Servers
  BY EventFacts, EventTypes DEF RequestError, Event, IInv, RegistryInv, TableInv
<1>2. kq' = Done(kq) /\ UNCHANGED sock /\ SameTable(conn, conn')
  BY <1>1, TouchedEntries DEF RequestError, Touched
<1>3. SameWrites(kq, kq', {})
  BY <1>1, <1>2, DoneWrites
<1>4. QED
  BY <1>2, <1>3, WritesRest

\* The only response of a queue is sent, and its event removed.
LEMMA WritesSend ==
    ASSUME IInv, LoopInv, NoReset, ConnIffSocket, WriteInv, SendResponse, up' = "up",
           \A s \in Servers, fd \in Fds : Len(QueueOf(conn[s][fd])) <= 1
    PROVE  WriteInv'
<1>1. /\ kq \in Registry /\ conn \in Tables /\ Fd \in Fds /\ Srv \in Servers
      /\ conn[Srv][Fd] # None
  BY EventFacts, EventTypes DEF SendResponse, Event, HasResponse, IInv, RegistryInv, TableInv
<1>2. PICK f \in Fds, s \in Servers : f = Fd /\ s = Srv
  BY <1>1
<1>3. sock[f] # None /\ Home[sock[f]] = s
  BY <1>1, <1>2 DEF ConnIffSocket
<1>4. ~Exit("removeEvent") /\ ~Exit("SIGPIPE")
  BY DEF Exit
<1>5. kq' = Done(removeEvent(kq, f, EVFILT_WRITE)) /\ UNCHANGED sock
  BY <1>2, <1>4 DEF SendResponse, kernelVars
<1>6. ASSUME NEW r, r = removeEvent(kq, f, EVFILT_WRITE)
      PROVE  SameWrites(kq, kq', {f}) /\ WriteOf(f)' = None
  <2>1. /\ r \in Registry /\ SameWrites(kq, r, {f}) /\ r.knote[<<f, EVFILT_WRITE>>] = None
    BY <1>1, <1>6, RemovedWrites, WriteNames
  <2>2. kq'.knote = r.knote
    BY <1>5, <1>6, <2>1, DoneWrites
  <2>3. QED
    BY <2>1, <2>2 DEF SameWrites, WriteOf
<1>7. Becomes(s, f, BufOf(conn[s][f]), Tail(QueueOf(conn[s][f])), OutputOf(conn[s][f]))
  <2>1. ~Ends
    BY WebserverAssumption DEF Ends, Exits
  <2>2. QED
    BY <1>2, <2>1, SendResponseCase DEF Answers, Entry
<1>8. QueueOf(conn'[s][f]) = <<>>
  <2>1. QueueOf(conn[s][f]) \in Seq(Response) /\ Len(QueueOf(conn[s][f])) <= 1
    BY <1>1, EntryTypes DEF Tables, Entries
  <2>2. QueueOf(conn[s][f]) # <<>>
    BY <1>1, <1>2 DEF SendResponse, HasResponse, QueueOf
  <2>3. Tail(QueueOf(conn[s][f])) = <<>>
    BY <2>1, <2>2
  <2>4. QED
    BY <1>7, <2>3 DEF Becomes
<1>9. WriteExact(f)' /\ SameTableBut(conn, conn', s, f) /\ \A g \in Fds \ {f} : sock'[g] = sock[g]
  BY <1>3, <1>5, <1>6, <1>7, <1>8 DEF WriteExact, Becomes
<1>10. QED
  BY <1>6, <1>9, WritesBut

\* An event for which there is no response has no socket.
LEMMA NoResponseNoSocket ==
    ASSUME IInv, LoopInv, WriteInv, HeldWrite, Holding, kq.polled.info.type = RESPONSE, ~HasResponse
    PROVE  sock[Fd] = None
<1>1. SUFFICES ASSUME sock[Fd] # None PROVE FALSE
  OBVIOUS
<1>2. Fd \in Fds
  BY EventFacts, EventTypes DEF IInv, Holding
<1>3. Srv = Home[sock[Fd]] /\ kq.knote[<<Fd, EVFILT_WRITE>>] # None
  BY <1>1, <1>2 DEF HeldWrite, LoopInv, PolledKnown, Registered
<1>4. QueueOf(conn[Srv][Fd]) # <<>>
  BY <1>1, <1>2, <1>3 DEF WriteInv, WriteExact, WriteOf
<1>5. QED
  BY <1>4 DEF HasResponse, QueueOf

LEMMA WritesNoResponse ==
    ASSUME IInv, LoopInv, NoReset, WriteInv, HeldWrite, NoResponse
    PROVE  WriteInv'
<1>1. /\ kq \in Registry /\ conn \in Tables /\ Fd \in Fds /\ Srv \in Servers
      /\ sock[Fd] = None /\ None \in Entries
  BY EventFacts, EventTypes, NoResponseNoSocket
     DEF NoResponse, Event, Holding, IInv, RegistryInv, TableInv, Entries
<1>2. close(Fd, Done(kq)) /\ conn' = Put(Touched, Srv, Fd, None)
  BY <1>1, CalmError DEF NoResponse
<1>3. PICK f \in Fds, s \in Servers : f = Fd /\ s = Srv
  BY <1>1
<1>4. SameTable(conn, updateLastActiveTime(s, f)) /\ updateLastActiveTime(s, f) \in Tables
  BY <1>1, TouchedEntries
<1>5. SameTableBut(conn, conn', s, f)
  <2>1. conn' = Put(updateLastActiveTime(s, f), s, f, None)
    BY <1>2, <1>3 DEF Touched
  <2>2. SameTableBut(updateLastActiveTime(s, f), conn', s, f)
    BY <1>1, <1>4, <2>1, PutEntry
  <2>3. QED
    BY <1>4, <2>2 DEF SameTable, SameTableBut, SameEntry
<1>6. Done(kq) \in Registry /\ SameWrites(kq, Done(kq), {}) /\ close(f, Done(kq))
  BY <1>1, <1>2, <1>3, DoneWrites
<1>7. QED
  BY <1>5, <1>6, WritesClosed

LEMMA WritesData ==
    ASSUME IInv, WriteInv, CgiData
    PROVE  WriteInv'
<1>1. /\ kq \in Registry /\ CgiTo \in Fds /\ Srv \in Servers
  BY EventFacts, EventTypes DEF CgiData, Event, IInv, RegistryInv
<1>2. kq' = Done(kq) /\ UNCHANGED sock
  BY DEF CgiData, kernelVars
<1>3. SameWrites(kq, kq', {})
  BY <1>1, <1>2, DoneWrites
<1>4. \/ SameTable(conn, conn')
      \/ \E s \in Servers, fd \in Fds : \E b, o : Becomes(s, fd, b, QueueOf(conn[s][fd]), o)
  BY <1>1, CgiDataCase DEF Collects, Owner
<1>5. QED
  BY <1>2, <1>3, <1>4, WritesRest

\* What has been read of the output of the pipe x, for the client of its event.
Gathered(x) == OutputOf(conn[EventOf(x).srv][EventOf(x).client])[x]

\* A program does not end before it has written, and what is read of its output is kept.
Progress ==
    \A x \in Fds : pipe[x] # None =>
       /\ proc[pipe[x]].st = "exit" => proc[pipe[x]].wrote > 0
       /\ proc[pipe[x]].wrote > 0 /\ ~proc[pipe[x]].unread => Gathered(x) # {}

\* A program has written, so a response is queued at the end of its output.
LEMMA FinishedOwner ==
    ASSUME IInv, LoopInv, ConnIffSocket, PipesOwned, Progress, CgiEof, up' = "up"
    PROVE  \E x \in Fds, g \in Fds, s \in Servers :
              /\ x = Fd /\ g = CgiTo /\ s = Srv /\ x # g /\ pipe[x] # None
              /\ EventOf(x).srv = s /\ EventOf(x).client = g
              /\ sock[x] = None /\ sock[g] # None /\ Home[sock[g]] = s
              /\ QueueOf(conn'[s][g]) # <<>> /\ SameTableBut(conn, conn', s, g)
              /\ close(x, Done(removeEvent(addEvent(kq, TRUE, g, RESPONSE, s, None), x, EVFILT_READ)))
<1>1. /\ kq \in Registry /\ conn \in Tables /\ Fd \in Fds /\ Srv \in Servers /\ CgiTo \in Fds
      /\ sock \in [Fds -> Clients \cup {None}] /\ OpenIsWatched /\ Holding
      /\ kq.polled.info.type = CGI_RESPONSE
  BY EventFacts, EventTypes DEF CgiEof, Event, IInv, RegistryInv, TableInv, Holding
<1>2. PICK x \in Fds, g \in Fds, s \in Servers : x = Fd /\ g = CgiTo /\ s = Srv
  BY <1>1
<1>3. pipe[x] # None /\ EventOf(x).srv = s /\ EventOf(x).client = g
  BY <1>1, <1>2, EventTypes DEF LoopInv, PolledKnown, NeverBlocks, Holding, EventOf, Fd
<1>4. sock[g] = pipe[x][1] /\ s = Home[pipe[x][1]] /\ conn[s][g] # None
  BY <1>3 DEF PipesOwned, Owned
<1>5. sock[g] # None /\ Home[sock[g]] = s /\ sock[x] = None /\ x # g
  <2>1. sock[g] # None
    BY <1>4 DEF ConnIffSocket
  <2>2. sock[x] = None
    BY <1>1, <1>3 DEF OpenIsWatched
  <2>3. QED
    BY <1>4, <2>1, <2>2
<1>6. OutputOf(conn[s][g])[x] # {}
  <2>1. ~proc[pipe[x]].unread /\ proc[pipe[x]].st = "exit"
    BY <1>2, <1>3 DEF CgiEof
  <2>2. QED
    BY <1>3, <2>1 DEF Progress, Gathered
<1>7. \E b, o : Becomes(s, g, b, Append(QueueOf(conn[s][g]), [code |-> 200, of |-> OutputOf(conn[s][g])[x]]), o)
  BY <1>2, <1>4, <1>6, CgiEofCase DEF Finishes, Owner
<1>8. QueueOf(conn'[s][g]) # <<>> /\ SameTableBut(conn, conn', s, g)
  <2>1. QueueOf(conn[s][g]) \in Seq(Response)
    BY <1>1, EntryTypes DEF Tables, Entries
  <2>2. \A r : Append(QueueOf(conn[s][g]), r) # <<>>
    BY <2>1
  <2>3. QED
    BY <1>7, <2>2 DEF Becomes
<1>9. close(x, Done(removeEvent(addEvent(kq, TRUE, g, RESPONSE, s, None), x, EVFILT_READ)))
  <2>1. Attaches(g, EVFILT_WRITE) = TRUE
    BY <1>5 DEF Attaches
  <2>2. QED
    BY <1>2, <2>1 DEF CgiEof
<1>10. QED
  BY <1>2, <1>3, <1>5, <1>8, <1>9

LEMMA WritesFinish ==
    ASSUME IInv, LoopInv, ConnIffSocket, PipesOwned, Progress, WriteInv, CgiEof, up' = "up"
    PROVE  WriteInv'
<1>1. PICK x \in Fds, g \in Fds, s \in Servers :
         /\ x # g /\ sock[x] = None /\ sock[g] # None /\ Home[sock[g]] = s
         /\ QueueOf(conn'[s][g]) # <<>> /\ SameTableBut(conn, conn', s, g)
         /\ close(x, Done(removeEvent(addEvent(kq, TRUE, g, RESPONSE, s, None), x, EVFILT_READ)))
  BY FinishedOwner
<1>2. kq \in Registry /\ sock \in [Fds -> Clients \cup {None}]
  BY DEF IInv, RegistryInv
<1>3. ASSUME NEW q, q = addEvent(kq, TRUE, g, RESPONSE, s, None),
             NEW r, r = removeEvent(q, x, EVFILT_READ)
      PROVE  /\ SameWrites(kq, kq', {x, g}) /\ WriteOf(x)' = None
             /\ WatchedBy(kq', g, s) /\ UNCHANGED sock
  <2>1. q \in Registry /\ SameWrites(kq, q, {g}) /\ WatchedBy(q, g, s)
    BY <1>2, <1>3, AskedWrites
  <2>2. r \in Registry /\ SameWrites(q, r, {})
    BY <1>3, <2>1, RemovedWrites, WriteNames
  <2>3. Done(r) \in Registry /\ SameWrites(r, Done(r), {})
    BY <2>2, DoneWrites
  <2>4. kq' = closeFd(Done(r), x) /\ sock' = [sock EXCEPT ![x] = None]
    BY <1>1, <1>3 DEF close
  <2>5. SameWrites(Done(r), kq', {x}) /\ kq'.knote[<<x, EVFILT_WRITE>>] = None
    BY <2>3, <2>4, ClosedWrites
  <2>6. SameWrites(q, kq', {x})
    <3>1. SameWrites(q, Done(r), {} \cup {}) /\ SameWrites(q, kq', ({} \cup {}) \cup {x})
      BY <2>2, <2>3, <2>5, SameWritesChain
    <3>2. ({} \cup {}) \cup {x} = {x}
      OBVIOUS
    <3>3. QED
      BY <3>1, <3>2
  <2>7. SameWrites(kq, kq', {x, g})
    <3>1. SameWrites(kq, kq', {g} \cup {x})
      BY <2>1, <2>6, SameWritesChain
    <3>2. {g} \cup {x} = {x, g}
      OBVIOUS
    <3>3. QED
      BY <3>1, <3>2
  <2>8. WatchedBy(kq', g, s)
    BY <1>1, <2>1, <2>6 DEF SameWrites, SameKnote, WatchedBy
  <2>9. UNCHANGED sock
    BY <1>1, <1>2, <2>4
  <2>10. QED
    BY <2>5, <2>7, <2>8, <2>9 DEF WriteOf
<1>4. /\ SameWrites(kq, kq', {x, g}) /\ WriteOf(x)' = None
      /\ WatchedBy(kq', g, s) /\ UNCHANGED sock
  BY <1>3
<1>5. WriteExact(g)' /\ WriteExact(x)'
  BY <1>1, <1>4 DEF WriteExact, WriteOf, WatchedBy
<1>6. ASSUME NEW fd \in Fds, fd # x, fd # g
      PROVE  WriteExact(fd)'
  <2>1. sock[fd] # None => Home[sock[fd]] \in Servers
    BY <1>2, WebserverAssumption
  <2>2. sock[fd] # None => QueueOf(conn'[Home[sock[fd]]][fd]) = QueueOf(conn[Home[sock[fd]]][fd])
    BY <1>1, <1>6, <2>1 DEF SameTableBut, SameEntry
  <2>3. SameKnote(WriteOf(fd), WriteOf(fd)') /\ WriteExact(fd) /\ sock'[fd] = sock[fd]
    BY <1>4, <1>6 DEF SameWrites, WriteOf, WriteInv
  <2>4. QED
    BY <2>2, <2>3, WriteSame
<1>7. QED
  BY <1>5, <1>6 DEF WriteInv

-----------------------------------------------------------------------------

LEMMA WriteServerStep ==
    ASSUME IInv, SocketInv, LoopInv, NoReset, ConnIffSocket, StreamInv, PipesOwned, Progress,
           WriteInv, HeldWrite, "large" \notin Kinds, Server, up' = "up",
           \A s \in Servers, fd \in Fds : Len(QueueOf(conn[s][fd])) <= 1
    PROVE  WriteInv'
<1>1. ASSUME NEW s \in Servers, NEW fd \in Fds, validateLastActiveTime(s, fd)
      PROVE  WriteInv'
  <2>1. TimesOut(s, fd)
    BY <1>1 DEF validateLastActiveTime, TimesOut, removeConnection, Exit
  <2>2. QED
    BY <2>1, WritesTimeout
<1>2. ASSUME NEW k \in 1..(2 * MaxReq),
             \/ RequestTooLarge(k) \/ RequestIncomplete(k) \/ RequestStatic(k)
             \/ RequestRejected(k) \/ RequestCgi(k)
      PROVE  WriteInv'
  <2>1. recv(k)
    BY <1>2 DEF RequestTooLarge, RequestIncomplete, RequestStatic, RequestRejected, RequestCgi, Takes
  <2>2. ~TooLarge(Appended(k).buf)
    BY <2>1, NothingLarge
  <2>3. ~RequestTooLarge(k)
    BY <2>2 DEF RequestTooLarge
  <2>4. QED
    BY <1>2, <2>2, <2>3, WritesRequest, WritesStatic
<1>3. QED
  BY <1>1, <1>2, WritesPoll, WritesAccept, WritesEof, WritesError, WritesSend, WritesNoResponse,
     WritesData, WritesFinish DEF Server

LEMMA WriteUnchanged ==
    ASSUME IInv, WriteInv, UNCHANGED <<kq, sock>>, SameTable(conn, conn')
    PROVE  WriteInv'
<1>1. SameWrites(kq, kq', {})
  BY DEF SameWrites, SameKnote
<1>2. QED
  BY <1>1, WritesRest

\* The event that is taken up says what is registered.
LEMMA HeldWritePoll ==
    ASSUME IInv, LoopInv, WriteInv, Poll
    PROVE  HeldWrite'
<1>1. /\ pc = "poll" /\ kq.polled = None /\ UNCHANGED sock
      /\ kq \in Registry /\ NoDangling(kq)
  BY DEF Poll, LoopInv, PollFirst, kernelVars, IInv, RegistryInv, UdataLive
<1>2. CASE UNCHANGED kq
  BY <1>1, <1>2 DEF HeldWrite, Holding
<1>3. ASSUME NEW n \in Descriptors \X Filters, Ready(n), kq' = pollEvents(kq, n)
      PROVE  HeldWrite'
  <2> DEFINE k == kq.knote[n]
             fd == n[1]
  <2>1. n \in Knotes /\ k # None /\ n = <<n[1], n[2]>> /\ fd \in Descriptors
    BY <1>3 DEF Ready, Registered, Knotes, Filters
  <2>2. kq'.polled = [fd |-> fd, info |-> k]
    BY <1>1, <1>3, <2>1, PollEventsSafe
  <2>3. Fd' = fd /\ Srv' = k.srv /\ kq'.polled.info = k
    BY <2>2 DEF Fd, Srv
  <2>4. k.type = SERVER <=> fd \in Servers
    BY <1>1, <2>1 DEF NoDangling, InfoLive, Knotes
  <2>5. getFilter(k.type) = n[2]
    BY <1>1, <2>1 DEF NoDangling, InfoLive, Knotes
  <2>6. k.type = RESPONSE => n[2] = EVFILT_WRITE /\ fd \in Fds /\ k = WriteOf(fd)
    BY <2>1, <2>4, <2>5, EventTypes DEF getFilter, Descriptors, WriteOf
  <2> HIDE DEF k, fd
  <2>7. k.type = RESPONSE /\ sock[fd] # None => k.srv = Home[sock[fd]]
    BY <2>1, <2>6 DEF WriteInv, WriteExact, k
  <2>8. QED
    BY <1>1, <2>3, <2>7 DEF HeldWrite
<1>4. QED
  BY <1>2, <1>3 DEF Poll

LEMMA HeldWriteServerStep ==
    ASSUME IInv, LoopInv, WriteInv, HeldWrite, Server, up' = "up"
    PROVE  HeldWrite'
<1>1. LetsGo => HeldWrite'
  BY DEF LetsGo, HeldWrite, Holding
<1>2. ASSUME NEW s \in Servers, NEW fd \in Fds, TimesOut(s, fd)
      PROVE  HeldWrite'
  <2> DEFINE q == removeEvent(kq, fd, EVFILT_READ)
  <2>1. /\ kq \in Registry /\ NoDangling(kq) /\ fd \in Descriptors
        /\ sock \in [Fds -> Clients \cup {None}]
    BY DEF IInv, RegistryInv, UdataLive, Descriptors
  <2>2. q \in Registry /\ NoDangling(q) /\ q.polled = kq.polled
    BY <2>1, EventTypes, RemoveEventSafe, RemoveEventType
  <2>3. kq' = closeFd(q, fd) /\ sock' = [sock EXCEPT ![fd] = None] /\ UNCHANGED <<pc, up>>
    BY <1>2 DEF TimesOut, close
  <2> HIDE DEF q
  <2>4. kq'.polled = kq.polled /\ Fd' = Fd /\ Srv' = Srv
    BY <2>1, <2>2, <2>3, CloseFdSafe DEF Fd, Srv
  <2>5. ASSUME Holding, kq.polled.info.type = RESPONSE
        PROVE  Fd \in Fds
    BY <2>5, EventFacts, EventTypes DEF IInv, Holding
  <2>6. \A g \in Fds : sock'[g] \in {sock[g], None}
    BY <2>1, <2>3
  <2>7. QED
    BY <2>3, <2>4, <2>5, <2>6 DEF HeldWrite, Holding
<1>3. Ends => FALSE
  BY DEF Ends, Exits
<1>4. QED
  BY <1>1, <1>2, <1>3, HeldWritePoll, ServerCases
     DEF Passes, Reads, Dispatches, Cuts, Drops, Answers, Collects, Finishes

\* What has been read of a program's output stays until the end of it is read.
LEMMA OutputsGrow ==
    ASSUME IInv, Server, up' = "up", NEW s \in Servers, NEW f \in Fds, NEW x \in Fds,
           pipe'[x] = pipe[x], pipe[x] # None, conn[s][f] # None, conn'[s][f] # None
    PROVE  OutputOf(conn[s][f])[x] \subseteq OutputOf(conn'[s][f])[x]
<1> DEFINE Goal == OutputOf(conn[s][f])[x] \subseteq OutputOf(conn'[s][f])[x]
<1>0. /\ conn \in Tables /\ None \in Entries /\ NewConnection \in Entries /\ pipe \in [Fds -> Origins \cup {None}]
      /\ \A t \in Servers, g \in Fds : OutputOf(conn[t][g]) \in [Fds -> SUBSET Origins]
  <2>1. /\ conn \in Tables /\ None \in Entries /\ NewConnection \in Entries /\ pipe \in [Fds -> Origins \cup {None}]
    BY FreshEntry DEF IInv, TableInv, RegistryInv, Entries
  <2>2. \A t \in Servers, g \in Fds : OutputOf(conn[t][g]) \in [Fds -> SUBSET Origins]
    BY <2>1, EntryTypes DEF Tables, Entries
  <2>3. QED
    BY <2>1, <2>2
<1>1. SameTable(conn, conn') => Goal
  BY DEF SameTable, SameEntry
<1>2. ASSUME NEW t \in Servers, NEW g \in Fds, SameTableBut(conn, conn', t, g),
             conn'[t][g] = None \/ conn[t][g] = None
                \/ OutputOf(conn'[t][g]) = OutputOf(conn[t][g])
      PROVE  Goal
  BY <1>2 DEF SameTableBut, SameEntry
<1> HIDE DEF Goal
<1>3. ASSUME NEW t \in Servers, NEW g \in Fds, TimesOut(t, g)
      PROVE  Goal
  <2>1. conn'[t][g] = None /\ SameTableBut(conn, conn', t, g)
    BY <1>0, <1>3, PutEntry DEF TimesOut
  <2>2. QED
    BY <1>2, <2>1
<1>4. ASSUME NEW t, NEW g \in Fds, Event(SERVER), t = Fd, Accepts(t, g)
      PROVE  Goal
  <2>0. t \in Servers
    BY <1>4, EventFacts DEF Event, IInv
  <2>1. SameTableBut(conn, conn', t, g) /\ conn[t][g] = None
    BY <1>0, <1>4, <2>0, PutEntry DEF Accepts
  <2>2. QED
    BY <1>2, <2>0, <2>1
<1>5. ASSUME kq.polled # None, kq.polled.info.type # SERVER
      PROVE  Srv \in Servers /\ Fd \in Fds /\ (kq.polled.info.type = CGI_RESPONSE => CgiTo \in Fds)
  BY <1>5, EventFacts DEF IInv
<1>6. ASSUME NEW b, NEW q, Srv \in Servers, Fd \in Fds, Becomes(Srv, Fd, b, q, OutputOf(Entry))
      PROVE  Goal
  BY <1>2, <1>6 DEF Becomes, Entry
<1>7. ASSUME NEW k, Reads(k) \/ Dispatches(k)
      PROVE  Goal
  <2>1. recv(k)
    BY <1>7 DEF Reads, Dispatches, Cuts
  <2>2. Srv \in Servers /\ Fd \in Fds
    BY <2>1, RecvFacts
  <2>3. QED
    BY <1>6, <1>7, <2>2 DEF Reads, Dispatches, Cuts
<1>8. ASSUME Event(REQUEST) \/ Event(RESPONSE), Drops(Srv, Fd)
      PROVE  Goal
  <2>1. Srv \in Servers /\ Fd \in Fds
    BY <1>5, <1>8, EventTypes DEF Event
  <2>2. QED
    BY <1>2, <1>8, <2>1 DEF Drops, Removed
<1>9. ASSUME Answers
      PROVE  Goal
  <2>1. Srv \in Servers /\ Fd \in Fds
    BY <1>5, <1>9, EventTypes DEF Event, Answers
  <2>2. QED
    BY <1>6, <1>9, <2>1 DEF Answers
<1>10. ASSUME NEW of, NEW b, NEW q, Event(CGI_RESPONSE), Fd # x \/ OutputOf(Owner)[Fd] \subseteq of,
              Becomes(Srv, CgiTo, b, q, [OutputOf(Owner) EXCEPT ![Fd] = of])
       PROVE  Goal
  <2>1. Srv \in Servers /\ Fd \in Fds /\ CgiTo \in Fds
    BY <1>5, <1>10, EventTypes DEF Event
  <2>2. OutputOf(conn'[Srv][CgiTo]) = [OutputOf(Owner) EXCEPT ![Fd] = of]
        /\ SameTableBut(conn, conn', Srv, CgiTo)
    BY <1>10 DEF Becomes
  <2>3. OutputOf(Owner) \in [Fds -> SUBSET Origins]
    BY <1>0, <2>1 DEF Owner
  <2>4. CASE s = Srv /\ f = CgiTo
    <3>1. OutputOf(conn'[s][f])[x] = IF x = Fd THEN of ELSE OutputOf(Owner)[x]
      BY <2>2, <2>3, <2>4
    <3>2. QED
      BY <1>10, <2>4, <3>1 DEF Goal, Owner
  <2>5. CASE ~(s = Srv /\ f = CgiTo)
    BY <2>1, <2>2, <2>5 DEF SameTableBut, SameEntry, Goal
  <2>6. QED
    BY <2>4, <2>5
<1>11. Collects => Goal
  <2>1. OutputOf(Owner)[Fd] \subseteq OutputOf(Owner)[Fd] \cup {pipe[Fd]}
    OBVIOUS
  <2>2. ASSUME Collects, ~SameTable(conn, conn')
        PROVE  Goal
    <3>1. Event(CGI_RESPONSE)
          /\ Becomes(Srv, CgiTo, BufOf(Owner), QueueOf(Owner),
                     [OutputOf(Owner) EXCEPT ![Fd] = OutputOf(Owner)[Fd] \cup {pipe[Fd]}])
      BY <2>2 DEF Collects
    <3>2. QED
      BY <1>10, <2>1, <3>1
  <2>3. QED
    BY <1>1, <2>2
<1>12. Finishes => Goal
  <2>1. ASSUME Finishes, Owner # None
        PROVE  Goal
    <3>1. /\ Event(CGI_RESPONSE) /\ Closes(Fd)
          /\ \E q : Becomes(Srv, CgiTo, BufOf(Owner), q, [OutputOf(Owner) EXCEPT ![Fd] = {}])
      BY <2>1 DEF Finishes, Ends, Exits
    <3>2. Fd # x
      BY <1>0, <3>1 DEF Closes
    <3>3. QED
      BY <1>10, <3>1, <3>2
  <2>2. QED
    BY <1>1, <2>1 DEF Finishes
<1>13. QED
  <2>1. Passes => SameTable(conn, conn')
    BY DEF Passes
  <2>2. ~Ends
    BY DEF Ends, Exits
  <2>3. QED
    BY <1>1, <1>3, <1>4, <1>7, <1>8, <1>9, <1>11, <1>12, <2>1, <2>2, ServerCases DEF Goal

-----------------------------------------------------------------------------
\* A program's pipe is opened for a request that was just cut off, or closed for good.
LEMMA PipeCases ==
    ASSUME IInv, LoopInv, Server, up' = "up"
    PROVE  \/ (UNCHANGED proc \/ CgiData) /\ \A x \in Fds : pipe'[x] \in {pipe[x], None}
           \/ \E k \in Nat, fd \in Fds, p \in Origins, h \in Fds :
                 /\ Cut(k, fd, p) /\ proc' = [proc EXCEPT ![p].st = "run"]
                 /\ pipe' = [pipe EXCEPT ![h] = p]
<1>1. CASE \E k \in 1..(2 * MaxReq) : RequestCgi(k)
  <2>1. \A k \in 1..(2 * MaxReq) : k \in Nat
    BY WebserverAssumption
  <2>2. \A h \in Free : h \in Fds
    BY DEF Free
  <2>3. QED
    BY <1>1, <2>1, <2>2, StartedCut
<1>2. CASE ~\E k \in 1..(2 * MaxReq) : RequestCgi(k)
  <2>1. UNCHANGED proc \/ CgiData
    BY <1>2 DEF Server, Poll, Idle, validateLastActiveTime, connectClient, RequestTooLarge,
       RequestIncomplete, RequestStatic, RequestRejected, RequestEof, RequestError, SendResponse,
       NoResponse, CgiEof
  <2>2. pipe \in [Fds -> Origins \cup {None}]
    BY DEF IInv, RegistryInv
  <2>3. \A fd, q : close(fd, q) => \A x \in Fds : pipe'[x] \in {pipe[x], None}
    BY <2>2 DEF close
  <2>4. \A cn, s, fd, r : handleError(cn, s, fd, r) => \A x \in Fds : pipe'[x] \in {pipe[x], None}
    BY <2>3 DEF handleError, closeConnection, kernelVars, Exit, serverVars
  <2>5. UNCHANGED pipe => \A x \in Fds : pipe'[x] \in {pipe[x], None}
    OBVIOUS
  <2>6. /\ Poll \/ Idle \/ connectClient \/ SendResponse \/ CgiData => UNCHANGED pipe
        /\ NoResponse \/ RequestEof => \A x \in Fds : pipe'[x] \in {pipe[x], None}
        /\ RequestError \/ CgiEof => \A x \in Fds : pipe'[x] \in {pipe[x], None}
    <3>1. Poll \/ Idle \/ connectClient \/ SendResponse \/ CgiData => UNCHANGED pipe
      BY DEF Poll, Idle, connectClient, SendResponse, CgiData, kernelVars, Exit, serverVars
    <3>2. NoResponse \/ RequestEof => \A x \in Fds : pipe'[x] \in {pipe[x], None}
      BY <2>3, <2>4 DEF NoResponse, RequestEof, closeConnection
    <3>3. RequestError => UNCHANGED pipe
      BY DEF RequestError
    <3>4. CgiEof => \A x \in Fds : pipe'[x] \in {pipe[x], None}
      BY <2>3, <2>5 DEF CgiEof, kernelVars
    <3>5. QED
      BY <2>5, <3>1, <3>2, <3>3, <3>4
  <2>7. \A k : RequestTooLarge(k) \/ RequestIncomplete(k) \/ RequestStatic(k) \/ RequestRejected(k)
           => \A x \in Fds : pipe'[x] \in {pipe[x], None}
    BY <2>4, <2>5 DEF RequestTooLarge, RequestIncomplete, RequestStatic, RequestRejected, kernelVars
  <2>8. \A s, fd : validateLastActiveTime(s, fd) => \A x \in Fds : pipe'[x] \in {pipe[x], None}
    BY <2>3, <2>5 DEF validateLastActiveTime, Exit, serverVars
  <2>9. QED
    BY <1>2, <2>1, <2>6, <2>7, <2>8 DEF Server
<1>3. QED
  BY <1>1, <1>2

\* What is read is kept for the client that the program works for.
LEMMA DataGathered ==
    ASSUME IInv, LoopInv, PipesOwned, CgiData
    PROVE  \E x \in Fds : /\ x = Fd /\ pipe[x] # None
                          /\ OutputOf(conn'[EventOf(x).srv][EventOf(x).client])[x] # {}
<1>1. /\ kq \in Registry /\ conn \in Tables /\ Fd \in Fds /\ Srv \in Servers /\ CgiTo \in Fds
      /\ Holding /\ kq.polled.info.type = CGI_RESPONSE
  BY EventFacts, EventTypes DEF CgiData, Event, IInv, RegistryInv, TableInv, Holding
<1>2. PICK x \in Fds, g \in Fds, s \in Servers : x = Fd /\ g = CgiTo /\ s = Srv
  BY <1>1
<1>3. pipe[x] # None /\ EventOf(x).srv = s /\ EventOf(x).client = g
  BY <1>1, <1>2, EventTypes DEF LoopInv, PolledKnown, NeverBlocks, Holding, EventOf, Fd
<1>4. conn[s][g] # None
  BY <1>3 DEF PipesOwned, Owned
<1> DEFINE t == Touched[s][g]
<1>5. t # None /\ t \in Connection /\ Touched \in Tables
  <2>1. SameTable(conn, Touched) /\ Touched \in Tables
    BY <1>1, TouchedEntries DEF Touched
  <2>2. QED
    BY <1>4, <2>1 DEF SameTable, SameEntry, Tables
<1>6. conn' = [Touched EXCEPT ![s][g].cgi[x] = @ \cup {pipe[x]}]
  BY <1>2, <1>5 DEF CgiData
<1>7. conn'[s][g].cgi[x] = t.cgi[x] \cup {pipe[x]}
  BY <1>1, <1>2, <1>5, <1>6 DEF Tables, Connection
<1>8. OutputOf(conn'[s][g])[x] # {}
  <2>1. conn'[s][g] # None
    BY <1>2, <1>4, CgiDataCase DEF Collects, SameTable, SameEntry, Becomes
  <2>2. QED
    BY <1>7, <2>1 DEF OutputOf
<1>9. QED
  BY <1>2, <1>3, <1>8

-----------------------------------------------------------------------------
LEMMA ProgressServerStep ==
    ASSUME IInv, SocketInv, LoopInv, StreamInv, UsedInv, SpentInv, AnswerInv, PipesOwned,
           PipesOwned', Progress, Server, up' = "up"
    PROVE  Progress'
<1>1. /\ pipe \in [Fds -> Origins \cup {None}] /\ None \notin Origins
      /\ proc \in [Origins -> Process] /\ KeptPipes(kq')
  BY NoneIsNoObject, PipeEventKept DEF IInv, RegistryInv, EnvInv
<1>2. ASSUME NEW x \in Fds, pipe[x] # None, pipe'[x] = pipe[x], Gathered(x) # {}
      PROVE  Gathered(x)' # {}
  <2>1. PICK s, f : s = EventOf(x).srv /\ f = EventOf(x).client
    OBVIOUS
  <2>2. EventOf(x)'.srv = s /\ EventOf(x)'.client = f
    BY <1>1, <1>2, <2>1, KnoteNames DEF KeptPipes, SameKnote, EventOf, IInv, RegistryInv, OpenIsWatched
  <2>3. /\ f \in Fds /\ s \in Servers /\ conn[s][f] # None /\ conn'[s][f] # None
    <3>1. pipe[x][1] \in Clients
      BY <1>1, <1>2, OriginType
    <3>2. Home[pipe[x][1]] \in Servers
      BY <3>1, WebserverAssumption
    <3>3. f \in Fds /\ s = Home[pipe[x][1]] /\ conn[s][f] # None
      BY <1>2, <2>1 DEF PipesOwned, Owned
    <3>4. conn'[s][f] # None
      BY <1>1, <1>2, <2>2 DEF PipesOwned, Owned
    <3>5. QED
      BY <3>2, <3>3, <3>4
  <2>4. OutputOf(conn[s][f])[x] \subseteq OutputOf(conn'[s][f])[x]
    BY <1>2, <2>3, OutputsGrow
  <2>5. QED
    BY <1>2, <2>1, <2>2, <2>4 DEF Gathered
<1>3. ASSUME UNCHANGED proc, \A x \in Fds : pipe'[x] \in {pipe[x], None}
      PROVE  Progress'
  BY <1>2, <1>3 DEF Progress
<1>4. ASSUME CgiData, \A x \in Fds : pipe'[x] \in {pipe[x], None}
      PROVE  Progress'
  <2>1. PICK y \in Fds : /\ y = Fd /\ pipe[y] # None
                         /\ OutputOf(conn'[EventOf(y).srv][EventOf(y).client])[y] # {}
    BY <1>4, DataGathered
  <2>2. proc' = [proc EXCEPT ![pipe[y]].unread = FALSE] /\ UNCHANGED pipe /\ pipe[y] \in Origins
    BY <1>1, <1>4, <2>1 DEF CgiData, kernelVars
  <2>3. \A o \in Origins : proc'[o].st = proc[o].st /\ proc'[o].wrote = proc[o].wrote
                           /\ (o # pipe[y] => proc'[o] = proc[o])
    BY <1>1, <2>2 DEF Process
  <2>4. ASSUME NEW x \in Fds, pipe'[x] # None
        PROVE  /\ proc'[pipe'[x]].st = "exit" => proc'[pipe'[x]].wrote > 0
               /\ proc'[pipe'[x]].wrote > 0 /\ ~proc'[pipe'[x]].unread => Gathered(x)' # {}
    <3>1. pipe'[x] = pipe[x] /\ pipe[x] \in Origins /\ pipe[x] # None
      BY <1>1, <2>2, <2>4
    <3>2. proc'[pipe'[x]].st = "exit" => proc'[pipe'[x]].wrote > 0
      BY <2>3, <3>1 DEF Progress
    <3>3. CASE x = y
      <4>1. EventOf(y)'.srv = EventOf(y).srv /\ EventOf(y)'.client = EventOf(y).client
        BY <1>1, <2>1, <2>2, KnoteNames DEF KeptPipes, SameKnote, EventOf, IInv, RegistryInv, OpenIsWatched
      <4>2. PICK s, f : s = EventOf(y).srv /\ f = EventOf(y).client
        OBVIOUS
      <4>3. EventOf(y)'.srv = s /\ EventOf(y)'.client = f /\ OutputOf(conn'[s][f])[y] # {}
        BY <2>1, <4>1, <4>2
      <4>4. QED
        BY <3>2, <3>3, <4>3 DEF Gathered
    <3>4. CASE x # y
      <4>1. pipe[x] # pipe[y]
        BY <2>2, <3>1, <3>4 DEF AnswerInv, PipedOnce, Piped
      <4>2. QED
        BY <1>2, <2>3, <3>1, <3>2, <4>1 DEF Progress
    <3>5. QED
      BY <3>3, <3>4
  <2>5. QED
    BY <2>4 DEF Progress
<1>5. ASSUME NEW k \in Nat, NEW fd \in Fds, NEW p \in Origins, NEW h \in Fds, Cut(k, fd, p),
             proc' = [proc EXCEPT ![p].st = "run"], pipe' = [pipe EXCEPT ![h] = p]
      PROVE  Progress'
  <2>1. ~Spent(p) /\ ~Used(p)
    <3>1. Coming(p[1], Appended(k).buf[1]) /\ Appended(k).buf[1].req = p /\ p[2] \in Nat
      BY <1>5, CutFacts, OriginType DEF Cut
    <3>2. QED
      BY <3>1, UnansweredCut
  <2>2. proc'[p].st = "run" /\ proc'[p].wrote = 0
    BY <1>1, <1>5, <2>1 DEF Spent, Begun
  <2>3. ASSUME NEW x \in Fds, x # h, pipe'[x] # None
        PROVE  /\ proc'[pipe'[x]].st = "exit" => proc'[pipe'[x]].wrote > 0
               /\ proc'[pipe'[x]].wrote > 0 /\ ~proc'[pipe'[x]].unread => Gathered(x)' # {}
    <3>1. pipe'[x] = pipe[x] /\ pipe[x] # None
      BY <1>1, <1>5, <2>3
    <3>2. pipe[x] # p
      BY <2>1 DEF Used, Waiting, Piped
    <3>3. proc'[pipe[x]] = proc[pipe[x]]
      BY <1>1, <1>5, <3>1, <3>2
    <3>4. QED
      BY <1>2, <3>1, <3>3 DEF Progress
  <2>4. pipe'[h] = p
    BY <1>1, <1>5
  <2>5. QED
    BY <2>2, <2>3, <2>4 DEF Progress
<1>6. QED
  BY <1>3, <1>4, <1>5, PipeCases

LEMMA ProgressEnvStep ==
    ASSUME Patient, IInv, AnswerInv, PipesOwned, Progress, Environment
    PROVE  Progress'
<1>1. /\ UNCHANGED <<kq, sock, pipe>> /\ SameTable(conn, conn')
      /\ pipe \in [Fds -> Origins \cup {None}] /\ proc \in [Origins -> Process]
      /\ \A x \in Fds : EventOf(x)' = EventOf(x)
  BY EnvCases DEF IInv, RegistryInv, EnvInv, EventOf
<1>2. ASSUME NEW x \in Fds, pipe[x] # None, Gathered(x) # {}
      PROVE  Gathered(x)' # {}
  <2>1. EventOf(x).srv \in Servers /\ EventOf(x).client \in Fds
    <3>1. pipe[x][1] \in Clients
      BY <1>1, <1>2, OriginType
    <3>2. QED
      BY <1>2, <3>1, WebserverAssumption DEF PipesOwned, Owned
  <2>2. OutputOf(conn'[EventOf(x).srv][EventOf(x).client]) = OutputOf(conn[EventOf(x).srv][EventOf(x).client])
    BY <1>1, <2>1 DEF SameTable, SameEntry
  <2>3. PICK s, f : s = EventOf(x).srv /\ f = EventOf(x).client
    OBVIOUS
  <2>4. EventOf(x)'.srv = s /\ EventOf(x)'.client = f /\ OutputOf(conn'[s][f]) = OutputOf(conn[s][f])
    BY <1>1, <2>2, <2>3
  <2>5. QED
    BY <1>2, <2>3, <2>4 DEF Gathered
<1>3. ASSUME NEW x \in Fds, pipe[x] # None, proc'[pipe[x]] = proc[pipe[x]]
      PROVE  /\ proc'[pipe'[x]].st = "exit" => proc'[pipe'[x]].wrote > 0
             /\ proc'[pipe'[x]].wrote > 0 /\ ~proc'[pipe'[x]].unread => Gathered(x)' # {}
  BY <1>1, <1>2, <1>3 DEF Progress
<1>4. UNCHANGED proc => Progress'
  BY <1>1, <1>3 DEF Progress
<1>5. ASSUME NEW o \in Origins, Cgi(o)
      PROVE  Progress'
  <2>1. ASSUME NEW x \in Fds, pipe[x] = o
        PROVE  /\ proc'[o].st = "exit" => proc'[o].wrote > 0
               /\ proc'[o].wrote > 0 /\ ~proc'[o].unread => Gathered(x)' # {}
    <3>1. pipe[x] # None
      BY <2>1, NoneIsNoObject
    <3>2. ~CgiExecFails(o)
      BY DEF CgiExecFails, Patient, Staying
    <3>3. CASE CgiWrite(o)
      BY <1>1, <2>1, <3>3 DEF CgiWrite, Process
    <3>4. CASE CgiExit(o)
      <4>1. proc'[o].wrote = proc[o].wrote /\ proc'[o].unread = proc[o].unread /\ proc[o].wrote > 0
        BY <1>1, <3>4 DEF CgiExit, Process, Patient
      <4>2. QED
        BY <1>2, <2>1, <3>1, <4>1 DEF Progress
    <3>5. QED
      BY <1>5, <3>2, <3>3, <3>4 DEF Cgi
  <2>2. ASSUME NEW x \in Fds, pipe[x] # None, pipe[x] # o
        PROVE  proc'[pipe[x]] = proc[pipe[x]]
    BY <1>1, <1>5, <2>2 DEF Cgi, CgiWrite, CgiExit, CgiExecFails
  <2>3. QED
    BY <1>1, <1>3, <2>1, <2>2 DEF Progress
<1>6. QED
  BY <1>4, <1>5 DEF Environment, Client, Connect, SendRemainder, Leave, Reset, SendRequest, Tick

\* The bookkeeping of what has been asked and used, which ends with the process, and
\* what holds at its end as well.
Asked == OneAtATime /\ SpentInv /\ UsedKind /\ Progress

PromiseInv == /\ PatientInv
              /\ up = "up" => Asked
              /\ NoneComplete /\ WriteInv /\ HeldWrite

LEMMA PatientIsStaying == Patient => Staying /\ Lasting /\ "large" \notin Kinds
BY DEF Patient, Staying, Lasting

LEMMA PromiseStep ==
    ASSUME Patient, PromiseInv, [Next]_vars
    PROVE  PromiseInv'
<1>1. /\ PatientInv' /\ PatientInv /\ Staying /\ "large" \notin Kinds
  BY PatientIsStaying, PatientStep DEF PromiseInv
<1>2. /\ IInv /\ SocketInv /\ LoopInv /\ NoReset /\ ConnIffSocket
      /\ IInv' /\ ConnIffSocket' /\ PipesOwned /\ PipesOwned' /\ RefusedKind /\ HeldOwn
      /\ up = "up" => StreamInv /\ UsedInv /\ AnswerInv
      /\ NoneComplete /\ WriteInv /\ HeldWrite
  BY <1>1 DEF PatientInv, LastingInv, DeliveryInv, StayInv, PromiseInv
<1>3. ASSUME Server, up' = "up"
      PROVE  PromiseInv'
  <2>1. up = "up"
    BY <1>2, <1>3, ServerCases
  <2>2. /\ StreamInv /\ UsedInv /\ AnswerInv
        /\ OneAtATime /\ SpentInv /\ UsedKind /\ Progress
    BY <1>2, <2>1 DEF PromiseInv, Asked
  <2>3. OneAtATime'
    BY <1>2, <1>3, <2>2, OneServerKept
  <2>4. SpentInv'
    BY <1>1, <1>2, <1>3, <2>2, SpentServerStep
  <2>5. UsedKind'
    BY <1>2, <1>3, <2>2, UsedKindServerStep
  <2>6. Progress'
    BY <1>2, <1>3, <2>2, ProgressServerStep
  <2>7. NoneComplete'
    BY <1>1, <1>2, <1>3, <2>2, NoneCompleteServerStep
  <2>8. WriteInv'
    <3>1. \A s \in Servers, fd \in Fds : Len(QueueOf(conn[s][fd])) <= 1
      BY <1>2, <2>2, QueueShort
    <3>2. QED
      BY <1>1, <1>2, <1>3, <2>2, <3>1, WriteServerStep
  <2>9. HeldWrite'
    BY <1>2, <1>3, HeldWriteServerStep
  <2>10. QED
    BY <1>1, <2>3, <2>4, <2>5, <2>6, <2>7, <2>8, <2>9 DEF PromiseInv, Asked
<1>4. ASSUME up' # "up", UNCHANGED <<kq, conn, sock>>
      PROVE  PromiseInv'
  <2>1. NoneComplete'
    BY <1>2, <1>4 DEF NoneComplete, Buffer
  <2>2. WriteInv'
    BY <1>2, <1>4 DEF WriteInv, WriteExact, WriteOf
  <2>3. HeldWrite'
    BY <1>4 DEF HeldWrite, Holding
  <2>4. QED
    BY <1>1, <1>4, <2>1, <2>2, <2>3 DEF PromiseInv
<1>5. CASE Server
  BY <1>2, <1>3, <1>4, <1>5, EndsStill
<1>6. CASE Environment
  <2>1. up = "up" /\ UNCHANGED <<kq, sock, pc, up>> /\ SameTable(conn, conn')
    BY <1>2, <1>6, EnvCases
  <2>2. /\ StreamInv /\ UsedInv /\ AnswerInv
        /\ OneAtATime /\ SpentInv /\ UsedKind /\ Progress
    BY <1>2, <2>1 DEF PromiseInv, Asked
  <2>3. OneAtATime'
    BY <1>2, <1>6, <2>2, OneEnvStep
  <2>4. SpentInv'
    BY <1>1, <1>2, <1>6, <2>2, SpentEnvStep
  <2>5. UsedKind'
    BY <1>1, <1>2, <1>6, <2>2, UsedKindEnvStep
  <2>6. Progress'
    BY <1>2, <1>6, <2>2, ProgressEnvStep
  <2>7. NoneComplete'
    BY <1>2, <1>6, NoneCompleteEnvStep
  <2>8. WriteInv'
    BY <1>2, <2>1, WriteUnchanged
  <2>9. HeldWrite'
    BY <1>2, <2>1 DEF HeldWrite, Holding, Fd, Srv
  <2>10. QED
    BY <1>1, <2>3, <2>4, <2>5, <2>6, <2>7, <2>8, <2>9 DEF PromiseInv, Asked
<1>7. CASE UNCHANGED vars
  <2>1. OneAtATime => OneAtATime'
    BY <1>7 DEF vars, OneAtATime, Answered, clientVars
  <2>2. UNCHANGED <<kq, conn, sock, inbuf, sent, half, got, proc, pipe, pc, up>>
    BY <1>7 DEF vars
  <2>3. SpentInv => SpentInv'
    BY <2>2 DEF SpentInv, Spent, Begun, Refused, Whole, Coming, Buffer
  <2>4. UsedKind => UsedKind'
    BY <2>2 DEF UsedKind, Used, Waiting, Kept, Piped, Told, Held
  <2>5. Progress => Progress'
    BY <2>2 DEF Progress, Gathered, EventOf
  <2>6. NoneComplete' /\ WriteInv' /\ HeldWrite'
    BY <1>2, <2>2 DEF NoneComplete, Buffer, WriteInv, WriteExact, WriteOf, HeldWrite, Holding, Fd, Srv
  <2>7. QED
    BY <1>1, <2>1, <2>2, <2>3, <2>4, <2>5, <2>6 DEF PromiseInv, Asked
<1>8. QED
  BY <1>5, <1>6, <1>7 DEF Next, Environment

LEMMA PromiseInit ==
    ASSUME Init
    PROVE  PromiseInv
<1>1. PatientInv
  BY PatientInit
<1>2. /\ \A c \in Clients : sent[c] = <<>> /\ inbuf[c] = <<>> /\ got[c] = <<>>
      /\ \A fd \in Fds : sock[fd] = None /\ pipe[fd] = None
      /\ \A o \in Origins : ~Begun(o)
      /\ \A s \in Servers, fd \in Fds : conn[s][fd] = None
      /\ kq.polled = None
      /\ \A fd \in Fds : WriteOf(fd) = None
  <2>1. \A fd \in Fds : WriteOf(fd) = None
    BY WriteNames, DescriptorsAssumption DEF Init, WriteOf, EmptyRegistry, Descriptors, Filters
  <2>2. QED
    BY <2>1 DEF Init, Begun, EmptyRegistry
<1>3. OneAtATime
  BY <1>2 DEF OneAtATime
<1>4. SpentInv
  BY <1>2 DEF SpentInv, Spent, Refused
<1>5. UsedKind
  <2>1. \A o \in Origins : ~Used(o)
    BY <1>2, NoneIsNoObject DEF Used, Waiting, Kept, Piped, Told, Held, QueueOf, OutputOf
  <2>2. QED
    BY <2>1 DEF UsedKind
<1>6. NoneComplete /\ Progress /\ WriteInv /\ HeldWrite
  BY <1>2 DEF NoneComplete, Progress, WriteInv, WriteExact, HeldWrite, Holding
<1>7. QED
  BY <1>1, <1>3, <1>4, <1>5, <1>6 DEF PromiseInv, Asked

\* On a server's own socket the write event is registered exactly while a response is
\* queued: no response is stuck, and the loop is not woken for one that is not there
\* (Server.cpp:61, :109, :133; Webserver.cpp:61-62).
THEOREM EventsFollowResponses == Patient => (Spec => []EventIffResponse)
<1> SUFFICES ASSUME Patient PROVE Spec => []EventIffResponse
  OBVIOUS
<1>1. Init => PromiseInv
  BY PromiseInit
<1>2. PromiseInv /\ [Next]_vars => PromiseInv'
  BY PromiseStep
<1>3. PromiseInv => EventIffResponse
  <2>1. SUFFICES ASSUME PromiseInv, NEW fd \in Fds, sock[fd] # None
                 PROVE  Registered(kq, fd, EVFILT_WRITE) <=> conn[Home[sock[fd]]][fd].queue # <<>>
    BY DEF EventIffResponse
  <2>2. ConnIffSocket /\ WriteExact(fd) /\ sock \in [Fds -> Clients \cup {None}]
    BY <2>1 DEF PromiseInv, PatientInv, LastingInv, IInv, RegistryInv, WriteInv
  <2>3. conn[Home[sock[fd]]][fd] # None
    BY <2>1, <2>2, WebserverAssumption DEF ConnIffSocket
  <2>4. QED
    BY <2>1, <2>2, <2>3 DEF WriteExact, WriteOf, QueueOf, Registered
<1>4. QED
  BY <1>1, <1>2, <1>3, PTL DEF Spec

\* "No response found for client FD" (Server.cpp:111) is never thrown: the event the loop
\* holds for a response still has one (Webserver.cpp:61-62).
THEOREM ResponsesAreThere == Patient => (Spec => []ResponseEventHasResponse)
<1> SUFFICES ASSUME Patient PROVE Spec => []ResponseEventHasResponse
  OBVIOUS
<1>1. Init => PromiseInv
  BY PromiseInit
<1>2. PromiseInv /\ [Next]_vars => PromiseInv'
  BY PromiseStep
<1>3. PromiseInv => ResponseEventHasResponse
  <2>1. SUFFICES ASSUME PromiseInv, up = "up", pc = "process", kq.polled # None,
                        kq.polled.info.type = RESPONSE
                 PROVE  conn[Srv][Fd] = None \/ conn[Srv][Fd].queue # <<>>
    BY DEF ResponseEventHasResponse
  <2>2. Holding /\ IInv /\ LoopInv /\ ConnIffSocket /\ WriteInv /\ HeldWrite
    BY <2>1 DEF PromiseInv, PatientInv, LastingInv, Holding
  <2>3. Fd \in Fds /\ Srv \in Servers
    BY <2>1, <2>2, EventFacts, EventTypes DEF IInv
  <2>4. HasResponse \/ sock[Fd] = None
    BY <2>1, <2>2, NoResponseNoSocket
  <2>5. QED
    BY <2>2, <2>3, <2>4 DEF HasResponse, ConnIffSocket
<1>4. QED
  BY <1>1, <1>2, <1>3, PTL DEF Spec

\* When the loop goes to sleep there is neither a complete request in a buffer nor a
\* response in a queue, for any connection of any server (Server.cpp:56-65).
THEOREM SleepsWithNothingToDo == Patient => (Spec => []NothingLeftWaiting)
<1> SUFFICES ASSUME Patient PROVE Spec => []NothingLeftWaiting
  OBVIOUS
<1>1. Init => PromiseInv
  BY PromiseInit
<1>2. PromiseInv /\ [Next]_vars => PromiseInv'
  BY PromiseStep
<1>3. PromiseInv => NothingLeftWaiting
  <2>1. SUFFICES ASSUME PromiseInv, \A n \in Descriptors \X Filters : ~Ready(n),
                        NEW s \in Servers, NEW fd \in Fds, conn[s][fd] # None
                 PROVE  /\ \A i \in DOMAIN conn[s][fd].buf : ~conn[s][fd].buf[i].last
                        /\ conn[s][fd].queue = <<>>
    BY DEF NothingLeftWaiting
  <2>2. sock[fd] # None /\ Home[sock[fd]] = s
    BY <2>1 DEF PromiseInv, PatientInv, LastingInv, ConnIffSocket
  <2>3. \A i \in DOMAIN conn[s][fd].buf : ~conn[s][fd].buf[i].last
    BY <2>1, <2>2 DEF PromiseInv, NoneComplete, Buffer, BufOf
  <2>4. WriteOf(fd) = None
    <3>1. <<fd, EVFILT_WRITE>> \in Descriptors \X Filters
      BY WriteNames
    <3>2. ~Ready(<<fd, EVFILT_WRITE>>)
      BY <2>1, <3>1
    <3>3. QED
      BY <3>2 DEF Ready, Registered, WriteOf
  <2>5. conn[s][fd].queue = <<>>
    BY <2>1, <2>2, <2>4 DEF PromiseInv, WriteInv, WriteExact, QueueOf
  <2>6. QED
    BY <2>3, <2>5
<1>4. QED
  BY <1>1, <1>2, <1>3, PTL DEF Spec

\* For every client a socket and a pipe, and what it takes to start one more program.
Spare == /\ IsFiniteSet(Clients) /\ IsFiniteSet(Fds)
         /\ Cardinality(Fds) >= 2 * Cardinality(Clients) + 3

OpenSockets == {fd \in Fds : sock[fd] # None}
OpenPipes   == {fd \in Fds : pipe[fd] # None}

\* Different descriptors that belong to different members are not more than these.
LEMMA AtMost ==
    ASSUME IsFiniteSet(Fds), NEW S \in SUBSET Fds, NEW T, IsFiniteSet(T), NEW f \in [S -> T],
           \A x, y \in S : f[x] = f[y] => x = y
    PROVE  /\ Cardinality(S) \in Nat /\ Cardinality(T) \in Nat /\ Cardinality(S) <= Cardinality(T)
<1>1. IsFiniteSet(S)
  BY FS_Subset
<1>2. Cardinality(S) \in Nat /\ Cardinality(T) \in Nat
  BY <1>1, FS_CardinalityType
<1>3. ~(Cardinality(T) < Cardinality(S))
  BY <1>1, FS_PigeonHole
<1>4. QED
  BY <1>2, <1>3

LEMMA OpenBound ==
    ASSUME IsFiniteSet(Fds)
    PROVE  /\ Cardinality(Free) \in Nat /\ Cardinality(Fds) \in Nat
           /\ Cardinality(OpenSockets) \in Nat /\ Cardinality(OpenPipes) \in Nat
           /\ Cardinality(Fds) <= Cardinality(Free) + Cardinality(OpenSockets) + Cardinality(OpenPipes)
<1> DEFINE U == Free \cup OpenSockets
<1>1. /\ IsFiniteSet(Free) /\ IsFiniteSet(OpenSockets) /\ IsFiniteSet(OpenPipes)
  <2>1. Free \in SUBSET Fds /\ OpenSockets \in SUBSET Fds /\ OpenPipes \in SUBSET Fds
    BY DEF Free, OpenSockets, OpenPipes
  <2>2. QED
    BY <2>1, FS_Subset
<1>2. /\ IsFiniteSet(U)
      /\ Cardinality(U) = Cardinality(Free) + Cardinality(OpenSockets) - Cardinality(Free \cap OpenSockets)
  BY <1>1, FS_Union
<1>3. Cardinality(U \cup OpenPipes) = Cardinality(U) + Cardinality(OpenPipes) - Cardinality(U \cap OpenPipes)
  BY <1>1, <1>2, FS_Union
<1>4. /\ IsFiniteSet(Free \cap OpenSockets) /\ IsFiniteSet(U \cap OpenPipes)
  <2>1. Free \cap OpenSockets \in SUBSET Free /\ U \cap OpenPipes \in SUBSET U
    OBVIOUS
  <2>2. QED
    BY <1>1, <1>2, <2>1, FS_Subset
<1>5. Fds = U \cup OpenPipes
  BY DEF Free, OpenSockets, OpenPipes
<1> HIDE DEF U
<1>6. /\ Cardinality(Free) \in Nat /\ Cardinality(OpenSockets) \in Nat /\ Cardinality(OpenPipes) \in Nat
      /\ Cardinality(U) \in Nat /\ Cardinality(Fds) \in Nat
      /\ Cardinality(Free \cap OpenSockets) \in Nat /\ Cardinality(U \cap OpenPipes) \in Nat
  BY <1>1, <1>2, <1>4, FS_CardinalityType
<1>7. QED
  BY <1>2, <1>3, <1>5, <1>6

\* A client has one socket, and one program at most works for it.
LEMMA SocketsPerClient ==
    ASSUME IInv, SocketInv, Spare
    PROVE  Cardinality(OpenSockets) <= Cardinality(Clients)
<1> DEFINE f == [fd \in OpenSockets |-> sock[fd]]
<1>1. OpenSockets \in SUBSET Fds /\ f \in [OpenSockets -> Clients]
  BY DEF OpenSockets, IInv, RegistryInv
<1>2. \A x, y \in OpenSockets : f[x] = f[y] => x = y
  BY DEF OpenSockets, SocketInv, SocketsDistinct
<1> HIDE DEF f
<1>3. QED
  BY <1>1, <1>2, AtMost DEF Spare

LEMMA PipesPerClient ==
    ASSUME IInv, UsedInv, AnswerInv, UsedKind, RefusedKind, OneAtATime, Spare,
           NEW T \in SUBSET Clients,
           \A x \in Fds : pipe[x] # None => pipe[x][1] \in T
    PROVE  Cardinality(OpenPipes) <= Cardinality(T)
<1> DEFINE f == [fd \in OpenPipes |-> pipe[fd][1]]
<1>1. OpenPipes \in SUBSET Fds /\ f \in [OpenPipes -> T] /\ IsFiniteSet(T)
  BY FS_Subset DEF OpenPipes, Spare
<1>2. \A x \in OpenPipes : /\ pipe[x] \in Origins
                           /\ pipe[x] = <<pipe[x][1], Len(sent[pipe[x][1]])>>
  <2>1. SUFFICES ASSUME NEW x \in OpenPipes
                 PROVE  /\ pipe[x] \in Origins
                        /\ pipe[x] = <<pipe[x][1], Len(sent[pipe[x][1]])>>
    OBVIOUS
  <2>2. x \in Fds /\ pipe[x] \in Origins
    BY DEF OpenPipes, IInv, RegistryInv
  <2>3. Pending(pipe[x])
    BY <2>2 DEF Pending, Waiting, Piped
  <2>4. QED
    BY <2>2, <2>3, PendingLast, OriginType
<1>3. \A x, y \in OpenPipes : f[x] = f[y] => x = y
  <2>1. \A x, y \in OpenPipes : pipe[x] = pipe[y] => x = y
    BY <1>2 DEF OpenPipes, AnswerInv, PipedOnce, Piped
  <2>2. QED
    BY <1>2, <2>1
<1> HIDE DEF f
<1>4. QED
  BY <1>1, <1>3, AtMost DEF Spare

\* What is read of a complete request: it has been announced and was not read before.
LEMMA TakenFacts ==
    ASSUME IInv, LoopInv, StreamInv, NEW k, recv(k), hasRequest(Appended(k).buf)
    PROVE  \E c \in Clients, p \in Origins :
              /\ p = Appended(k).buf[1].req /\ c = sock[Fd] /\ p[1] = c
              /\ Coming(c, Appended(k).buf[1]) /\ p[2] <= Whole(c)
<1>0. PICK fd \in Fds : fd = Fd
  BY RecvEntry
<1> DEFINE c == sock[fd]
           q == inbuf[c]
           b == Buffer(fd)
           t == Appended(k).buf
<1>1. c \in Clients /\ c # None /\ q \in Seq(Segments) /\ k \in 1..Len(q) /\ t[1].req \in Origins
  BY <1>0, RecvEntry, RecvFacts
<1>2. b \in Seq(Segments) /\ t = b \o SubSeq(q, 1, k)
  BY <1>0, ReadsOwn
<1>3. Ordered(q) /\ Ordered(b) /\ Behind(b, q)
  BY <1>1 DEF StreamInv
<1>4. /\ t \in Seq(Segments) /\ SubSeq(q, k + 1, Len(q)) \in Seq(Segments)
      /\ Ordered(t) /\ Behind(t, SubSeq(q, k + 1, Len(q)))
      /\ \A g : Among(g, t) => Among(g, b) \/ Among(g, q)
  BY <1>1, <1>2, <1>3, RecvOrder
<1>5. hasRequest(t)
  OBVIOUS
<1> HIDE DEF t
<1>6. /\ Among(t[1], t)
      /\ \E g : Among(g, t) /\ g.last /\ t[1].req[2] <= g.req[2]
  BY <1>4, <1>5, CutOrder
<1>7. \A g : Among(g, t) => WellSent(c, g) /\ Coming(c, g)
  BY <1>1, <1>4 DEF StreamInv, Coming
<1>8. PICK p \in Origins : p = t[1].req
  BY <1>1
<1>9. p[1] = c /\ Coming(c, t[1])
  BY <1>6, <1>7, <1>8 DEF WellSent
<1>10. p[2] <= Whole(c)
  <2>1. PICK g : Among(g, t) /\ g.last /\ p[2] <= g.req[2]
    BY <1>6, <1>8
  <2>2. g.req[2] <= Whole(c) /\ g.req[2] \in 1..Len(sent[c])
    BY <1>7, <2>1 DEF WellSent
  <2>3. p[2] \in Int /\ Whole(c) \in Int /\ g.req[2] \in Int
    BY <1>9, <2>2, OriginType
  <2>4. QED
    BY <2>1, <2>2, <2>3
<1>11. QED
  BY <1>0, <1>1, <1>8, <1>9, <1>10 DEF t

\* The client that asks for a program has none yet.
LEMMA AskerWithoutPipe ==
    ASSUME IInv, LoopInv, StreamInv, UsedInv, AnswerInv, SpentInv, UsedKind, RefusedKind, OneAtATime,
           NEW k, recv(k), hasRequest(Appended(k).buf)
    PROVE  \E c \in Clients : \A x \in Fds : pipe[x] # None => pipe[x][1] # c
<1>1. PICK c \in Clients, p \in Origins :
         /\ p = Appended(k).buf[1].req /\ p[1] = c
         /\ Coming(c, Appended(k).buf[1]) /\ p[2] <= Whole(c)
  BY TakenFacts
<1>2. p[2] \in Nat /\ p = <<p[1], p[2]>>
  BY OriginType
<1>3. ~Used(p) /\ p[2] = Len(sent[c])
  BY <1>1, <1>2, UnansweredCut, LastCut
<1>4. ASSUME NEW x \in Fds, pipe[x] # None, pipe[x][1] = c
      PROVE  FALSE
  <2>1. pipe[x] \in Origins
    BY <1>4 DEF IInv, RegistryInv
  <2>2. Pending(pipe[x])
    BY <2>1 DEF Pending, Waiting, Piped
  <2>3. pipe[x] = <<pipe[x][1], pipe[x][2]>> /\ pipe[x][2] = Len(sent[pipe[x][1]])
    BY <2>1, <2>2, PendingLast, OriginType
  <2>4. pipe[x] = p
    BY <1>1, <1>2, <1>3, <1>4, <2>3
  <2>5. QED
    BY <1>3, <2>4 DEF Used, Waiting, Piped
<1>5. QED
  BY <1>4

LEMMA StaysUpStep ==
    ASSUME Patient, Spare, PromiseInv, up = "up", [Next]_vars
    PROVE  up' = "up"
<1>1. /\ IInv /\ SocketInv /\ LoopInv /\ NoReset /\ RefusedKind /\ StreamInv /\ UsedInv /\ AnswerInv
      /\ OneAtATime /\ SpentInv /\ UsedKind
  BY DEF PromiseInv, PatientInv, LastingInv, DeliveryInv, StayInv, Asked
<1>2. SUFFICES ASSUME up' # "up" PROVE FALSE
  OBVIOUS
<1>3. Server
  BY <1>1, <1>2, EnvCases DEF Next, Environment, vars
<1>4. up' \in {"accept", "pipe"}
  <2>1. PromiseInv'
    BY PromiseStep
  <2>2. (EndsOnlyFor /\ NoReset /\ IInv)'
    BY <2>1 DEF PromiseInv, PatientInv, LastingInv
  <2>3. QED
    BY <1>2, <2>2 DEF EndsOnlyFor, NoReset, IInv, TableInv, Exits
<1>5. /\ Cardinality(Free) \in Nat /\ Cardinality(Fds) \in Nat /\ Cardinality(Clients) \in Nat
      /\ Cardinality(OpenSockets) \in Nat /\ Cardinality(OpenPipes) \in Nat
      /\ Cardinality(Fds) <= Cardinality(Free) + Cardinality(OpenSockets) + Cardinality(OpenPipes)
      /\ Cardinality(OpenSockets) <= Cardinality(Clients)
      /\ Cardinality(Fds) >= 2 * Cardinality(Clients) + 3
  BY <1>1, OpenBound, SocketsPerClient, FS_CardinalityType DEF Spare
<1>6. \A x \in Fds : pipe[x] # None => pipe[x][1] \in Clients
  BY <1>1, OriginType DEF IInv, RegistryInv
<1>7. CASE up' = "accept"
  <2>1. Free = {}
    <3>1. connectClient
      BY <1>3, <1>7 DEF Server, Poll, Idle, validateLastActiveTime, RequestTooLarge, RequestIncomplete,
         RequestStatic, RequestRejected, RequestCgi, RequestEof, RequestError, SendResponse, NoResponse,
         CgiData, CgiEof, handleError, Exit
    <3>2. Free = {} \/ peer[Head(backlog[Srv])] = "rst"
      BY <1>1, <1>7, <3>1 DEF connectClient, Exit
    <3>3. Head(backlog[Srv]) \in Clients
      BY <1>1, <3>1, EventFacts DEF connectClient, Event, IInv, AcceptWaits, EnvInv, Fd
    <3>4. QED
      BY <1>1, <3>2, <3>3 DEF NoReset
  <2>2. Cardinality(OpenPipes) <= Cardinality(Clients)
    BY <1>1, <1>6, PipesPerClient
  <2>3. Cardinality(Free) = 0
    BY <2>1, FS_EmptySet
  <2>4. QED
    BY <1>5, <2>2, <2>3
<1>8. CASE up' = "pipe"
  <2>1. PICK k \in 1..(2 * MaxReq) : RequestCgi(k)
    BY <1>3, <1>8 DEF Server, Poll, Idle, validateLastActiveTime, connectClient, RequestTooLarge,
       RequestIncomplete, RequestStatic, RequestRejected, RequestEof, RequestError, SendResponse,
       NoResponse, CgiData, CgiEof, handleError, Exit
  <2>2. recv(k) /\ hasRequest(Appended(k).buf) /\ Cardinality(Free) < 4
    BY <1>2, <2>1 DEF RequestCgi, Takes
  <2>3. PICK c \in Clients : \A x \in Fds : pipe[x] # None => pipe[x][1] # c
    BY <1>1, <2>2, AskerWithoutPipe
  <2>4. Cardinality(OpenPipes) <= Cardinality(Clients \ {c})
    BY <1>1, <1>6, <2>3, PipesPerClient
  <2>5. Cardinality(Clients \ {c}) = Cardinality(Clients) - 1
    BY FS_RemoveElement DEF Spare
  <2>6. QED
    BY <1>5, <2>2, <2>4, <2>5
<1>9. QED
  BY <1>4, <1>7, <1>8

\* With descriptors enough for a socket and a program per client, patient clients and
\* programs that answer end the server process by nothing they do (main.cpp:69): it
\* never lacks a descriptor and no event makes it throw.
THEOREM PatientClientsKeepItUp == Patient /\ Spare => (Spec => []StaysUp)
<1> SUFFICES ASSUME Patient, Spare PROVE Spec => []StaysUp
  OBVIOUS
<1> DEFINE Inv == PromiseInv /\ up = "up"
<1>1. Init => Inv
  BY PromiseInit DEF Init
<1>2. Inv /\ [Next]_vars => Inv'
  BY PromiseStep, StaysUpStep
<1>3. Inv => StaysUp
  BY DEF StaysUp
<1> HIDE DEF Inv
<1>4. QED
  BY <1>1, <1>2, <1>3, PTL DEF Spec

-----------------------------------------------------------------------------
(* The promise of HttpService, step by step. *)

\* The answers a client has are those to its first requests, in their order.
Ledger ==
    \A c \in Clients :
       /\ Replies(c) <= Whole(c)
       /\ \A i \in 1..Replies(c) : got[c][i].of = {<<c, i>>}
       /\ Replies(c) < Len(got[c]) => peer[c] = "closed"

\* No client hears anything, and only one that has left is taken leave of.
NoReply ==
    /\ UNCHANGED got
    /\ \A c \in Clients : peer'[c] = peer[c] \/ (peer[c] = "fin" /\ peer'[c] = "closed")

\* A client hears the answer to its last request.
Reply(c) ==
    /\ <<c, Len(sent[c])>> \notin Answered(c) /\ Len(sent[c]) > 0 /\ Len(sent[c]) <= Whole(c)
    /\ peer[c] # "closed" /\ UNCHANGED peer
    /\ \E r : /\ r.of = {<<c, Len(sent[c])>>}
              /\ got' = IF Len(got[c]) < MaxLog THEN [got EXCEPT ![c] = Append(@, r)] ELSE got

LEMMA RepliesType ==
    ASSUME IInv, NEW c \in Clients
    PROVE  /\ Replies(c) \in Nat /\ Replies(c) <= Len(got[c]) /\ Len(got[c]) \in Nat
           /\ Len(got[c]) <= Replies(c) + 1
           /\ got[c] \in Seq(Response) /\ DOMAIN got[c] = 1..Len(got[c])
           /\ Len(sent[c]) \in Nat /\ Whole(c) \in Int /\ Len(sent[c]) <= Whole(c) + 1
           /\ Whole(c) <= Len(sent[c]) /\ Len(sent[c]) <= MaxReq /\ MaxReq \in Nat
           /\ Whole(c) \in Nat
<1>1. /\ got \in [Clients -> Seq(Response)] /\ sent \in [Clients -> Seq(Kinds)]
      /\ half[c] => sent[c] # <<>>
      /\ Len(sent[c]) <= MaxReq /\ MaxReq \in Nat
  BY WebserverAssumption DEF IInv, EnvInv, SentBounded, TableInv
<1>2. got[c] \in Seq(Response) /\ Len(got[c]) \in Nat /\ DOMAIN got[c] = 1..Len(got[c])
      /\ (got[c] # <<>> => Len(got[c]) > 0)
  BY <1>1
<1>3. sent[c] \in Seq(Kinds) /\ Len(sent[c]) \in Nat /\ (sent[c] # <<>> => Len(sent[c]) > 0)
  BY <1>1
<1>4. QED
  BY <1>1, <1>2, <1>3 DEF Replies, Whole

LEMMA LedgerAnswered ==
    ASSUME IInv, Ledger, NEW c \in Clients, NEW n \in Nat, n > 0
    PROVE  <<c, n>> \in Answered(c) <=> n <= Replies(c)
<1>1. /\ Replies(c) \in Nat /\ Replies(c) <= Len(got[c]) /\ Len(got[c]) \in Nat
      /\ DOMAIN got[c] = 1..Len(got[c])
  BY RepliesType
<1>2. ASSUME n <= Replies(c) PROVE <<c, n>> \in Answered(c)
  <2>1. n \in DOMAIN got[c] /\ got[c][n].of = {<<c, n>>}
    BY <1>1, <1>2 DEF Ledger
  <2>2. QED
    BY <2>1 DEF Answered
<1>3. ASSUME <<c, n>> \in Answered(c) PROVE n <= Replies(c)
  <2>1. PICK i \in DOMAIN got[c] : <<c, n>> \in got[c][i].of
    BY <1>3 DEF Answered
  <2>2. i \in 1..Replies(c)
    BY <1>1, <2>1 DEF Replies
  <2>3. got[c][i].of = {<<c, i>>}
    BY <2>2 DEF Ledger
  <2>4. i = n
    BY <2>1, <2>3
  <2>5. QED
    BY <2>2, <2>4
<1>4. QED
  BY <1>2, <1>3

\* An answer to a request that is taken but not yet answered reaches its client.
LEMMA ReplyReaches ==
    ASSUME IInv, SocketInv, NoReset, LeftAnswered, NEW fd \in Fds, NEW r, NEW p \in Origins,
           sock[fd] = p[1], r.of = {p}, got' = Delivered(fd, r), UNCHANGED peer,
           p \notin Answered(p[1]), p[2] <= Whole(p[1]), p[2] = Len(sent[p[1]])
    PROVE  Reply(p[1])
<1>1. p[1] \in Clients /\ p[2] \in Nat /\ p[2] > 0 /\ p = <<p[1], p[2]>> /\ p[1] # None
  BY OriginType, NoneIsNoObject
<1>2. peer[p[1]] # "closed"
  BY <1>1 DEF SocketInv, SocketsPresent, Present
<1>3. QED
  BY <1>1, <1>2 DEF Reply, Delivered

LEMMA HeldEvent ==
    ASSUME IInv, NEW t \in {REQUEST, RESPONSE, CGI_RESPONSE}, Event(t)
    PROVE  Fd \in Fds /\ Srv \in Servers /\ Holding /\ kq.polled.info.type = t
BY EventFacts, EventTypes DEF Event, Holding, IInv

LEMMA ReplyCases ==
    ASSUME IInv, SocketInv, LoopInv, NoReset, LeftAnswered, RefusedKind, HeldOwn,
           StreamInv, UsedInv, AnswerInv, OneAtATime, SpentInv, UsedKind, WriteInv, HeldWrite,
           "large" \notin Kinds, Server, up' = "up"
    PROVE  NoReply \/ (\E c \in Clients : Reply(c)) \/ \E s \in Servers, fd \in Fds : TimesOut(s, fd)
<1> DEFINE Goal == \/ NoReply \/ \E c \in Clients : Reply(c)
                   \/ \E s \in Servers, fd \in Fds : TimesOut(s, fd)
<1>1. peer \in [Clients -> PeerStates] /\ None \notin Clients
  BY NoneIsNoObject DEF IInv, RegistryInv
<1>2. UNCHANGED <<got, peer>> => Goal
  BY DEF NoReply
<1>3. ASSUME NEW fd, Closes(fd), UNCHANGED got, sock[fd] # None => peer[sock[fd]] = "fin"
      PROVE  Goal
  BY <1>1, <1>3 DEF NoReply, Closes
<1> HIDE DEF Goal
<1>4. ASSUME Poll PROVE Goal
  BY <1>2, <1>4 DEF Poll, kernelVars
<1>5. ASSUME Idle PROVE Goal
  BY <1>2, <1>5 DEF Idle, kernelVars
<1>6. ASSUME NEW s \in Servers, NEW fd \in Fds, validateLastActiveTime(s, fd)
      PROVE  Goal
  <2>1. TimesOut(s, fd)
    BY <1>6 DEF validateLastActiveTime, TimesOut, removeConnection, Exit
  <2>2. QED
    BY <2>1 DEF Goal
<1>7. ASSUME connectClient PROVE Goal
  BY <1>2, <1>7 DEF connectClient, Exit
<1>8. ASSUME NEW k \in 1..(2 * MaxReq), RequestIncomplete(k) \/ RequestStatic(k)
      PROVE  Goal
  BY <1>2, <1>8 DEF RequestIncomplete, RequestStatic, kernelVars
<1>9. ASSUME NEW k \in 1..(2 * MaxReq), RequestCgi(k)
      PROVE  Goal
  BY <1>2, <1>9 DEF RequestCgi, Exit
<1>10. ASSUME NEW k \in 1..(2 * MaxReq), RequestTooLarge(k)
       PROVE  Goal
  BY <1>10, NothingLarge DEF RequestTooLarge
<1>11. ASSUME NEW k \in 1..(2 * MaxReq), RequestRejected(k)
       PROVE  Goal
  <2>1. recv(k) /\ hasRequest(Appended(k).buf)
    BY <1>11 DEF RequestRejected, Takes
  <2>2. PICK c \in Clients, p \in Origins :
           /\ p = Appended(k).buf[1].req /\ c = sock[Fd] /\ p[1] = c
           /\ Coming(c, Appended(k).buf[1]) /\ p[2] <= Whole(c)
    BY <2>1, TakenFacts
  <2>3. PICK fd \in Fds : fd = Fd
    BY <2>1, RecvEntry
  <2>4. p[2] \in Nat /\ p = <<p[1], p[2]>>
    BY OriginType
  <2>5. p \notin Answered(c) /\ p[2] = Len(sent[c])
    BY <2>2, <2>4, UnansweredCut, LastCut
  <2>6. PICK r : r.of = {p} /\ handleError(Put(conn, Srv, Fd, Rest(Appended(k))), Srv, fd, r)
    <3>1. handleError(Put(conn, Srv, Fd, Rest(Appended(k))), Srv, Fd,
                      [code |-> 404, of |-> {Appended(k).buf[1].req}])
      BY <1>11 DEF RequestRejected
    <3>2. QED
      BY <2>2, <2>3, <3>1
  <2>7. sock[fd] = p[1] /\ p[1] # None
    BY <1>1, <2>2, <2>3
  <2>8. got' = Delivered(fd, r) /\ UNCHANGED peer
    BY <2>6, <2>7, CalmError DEF kernelVars
  <2>9. Reply(c)
    BY <2>2, <2>5, <2>6, <2>7, <2>8, ReplyReaches
  <2>10. QED
    BY <2>9 DEF Goal
<1>12. ASSUME RequestEof PROVE Goal
  <2>1. Closes(Fd) /\ UNCHANGED got /\ sock[Fd] # None /\ peer[sock[Fd]] \in {"fin", "dead"}
    BY <1>12 DEF RequestEof, closeConnection, close, Closes
  <2>2. Event(REQUEST)
    BY <1>12 DEF RequestEof
  <2>3. Fd \in Fds
    BY <2>2, HeldEvent
  <2>4. sock[Fd] \in Clients
    BY <2>1, <2>3 DEF IInv, RegistryInv
  <2>5. QED
    BY <1>3, <2>1, <2>4 DEF NoReset
<1>13. ASSUME RequestError PROVE Goal
  <2>1. Event(REQUEST) /\ UNCHANGED got
    BY <1>13 DEF RequestError
  <2>2. Fd \in Fds
    BY <2>1, HeldEvent
  <2>3. sock[Fd] = None
    BY <1>1, <1>13, <2>2 DEF RequestError, NoReset, IInv, RegistryInv
  <2>4. peer' = [c \in Clients |-> IF sock[Fd] = c THEN "dead" ELSE peer[c]]
    BY <1>13 DEF RequestError
  <2>5. peer' = peer
    BY <1>1, <2>3, <2>4
  <2>6. QED
    BY <1>2, <2>1, <2>5
<1>14. ASSUME SendResponse PROVE Goal
  <2>1. Event(RESPONSE) /\ HasResponse
    BY <1>14 DEF SendResponse
  <2>2. PICK fd \in Fds, s \in Servers : fd = Fd /\ s = Srv
    BY <2>1, HeldEvent
  <2>3. /\ "ok" \in send(fd) /\ got' = Delivered(fd, Head(conn[s][fd].queue)) /\ UNCHANGED peer
    BY <1>14, <2>2 DEF SendResponse, popResponse, Exit, kernelVars
  <2>4. conn[s][fd] # None /\ conn[s][fd].queue # <<>>
    BY <2>1, <2>2 DEF HasResponse
  <2>5. conn[s][fd].queue \in Seq(Response)
    BY <2>2, <2>4 DEF IInv, TableInv, Connection, Tables, Entries
  <2>6. PICK r : r = conn[s][fd].queue[1]
    OBVIOUS
  <2>7. 1 \in DOMAIN QueueOf(conn[s][fd]) /\ QueueOf(conn[s][fd])[1] = r /\ r \in Response
        /\ Head(conn[s][fd].queue) = r
    BY <2>4, <2>5, <2>6 DEF QueueOf
  <2>8. r.of # {} /\ r.of \subseteq Origins
    BY <2>2, <2>7 DEF SocketInv, QueueCodes, AllOk, Response
  <2>9. \A o \in r.of : Held(o, s, fd, 1)
    BY <2>2, <2>7 DEF Held
  <2>10. \A o \in r.of : Used(o) /\ Pending(o) /\ sock[fd] = o[1]
    BY <2>8, <2>9 DEF HeldOwn, Used, Pending
  <2>11. \A o \in r.of : /\ o \notin Answered(o[1]) /\ o[2] = Len(sent[o[1]])
                         /\ o[2] <= Whole(o[1]) /\ o = <<o[1], o[2]>>
    BY <2>8, <2>10, PendingLast, OriginType DEF UsedInv
  <2>12. PICK p \in Origins : p \in r.of
    BY <2>8
  <2>13. \A o \in r.of : o = p
    BY <2>10, <2>11, <2>12
  <2>14. r.of = {p}
    BY <2>12, <2>13
  <2>15. Reply(p[1]) /\ p[1] \in Clients
    BY <2>2, <2>3, <2>7, <2>10, <2>11, <2>12, <2>14, ReplyReaches, OriginType
  <2>16. QED
    BY <2>15 DEF Goal
<1>15. ASSUME NoResponse PROVE Goal
  <2>1. Event(RESPONSE) /\ ~HasResponse
    BY <1>15 DEF NoResponse
  <2>2. PICK fd \in Fds : fd = Fd
    BY <2>1, HeldEvent
  <2>3. Holding /\ kq.polled.info.type = RESPONSE
    BY <2>1, HeldEvent
  <2>4. sock[fd] = None
    BY <2>1, <2>2, <2>3, NoResponseNoSocket
  <2>5. PICK cn, s, r : handleError(cn, s, fd, r)
    BY <1>15, <2>2 DEF NoResponse
  <2>6. close(fd, Done(kq)) /\ UNCHANGED got
    BY <2>4, <2>5, CalmError
  <2>7. Closes(fd)
    BY <2>6 DEF close, Closes
  <2>8. QED
    BY <1>3, <2>4, <2>6, <2>7
<1>16. ASSUME CgiData PROVE Goal
  BY <1>2, <1>16 DEF CgiData, kernelVars
<1>17. ASSUME CgiEof PROVE Goal
  <2>1. Event(CGI_RESPONSE) /\ UNCHANGED got
    BY <1>17 DEF CgiEof
  <2>2. PICK fd \in Fds : fd = Fd
    BY <2>1, HeldEvent
  <2>3. Closes(fd)
    BY <1>17, <2>2 DEF CgiEof, close, Closes
  <2>4. sock[fd] = None
    <3>1. Holding /\ kq.polled.info.type = CGI_RESPONSE
      BY <2>1, HeldEvent
    <3>2. pipe[fd] # None
      BY <2>2, <3>1 DEF LoopInv, NeverBlocks, Holding, Fd
    <3>3. QED
      BY <2>2, <3>2 DEF IInv, RegistryInv, OpenIsWatched
  <2>5. QED
    BY <1>3, <2>1, <2>3, <2>4
<1>18. Goal
  BY <1>4, <1>5, <1>6, <1>7, <1>8, <1>9, <1>10, <1>11, <1>12, <1>13, <1>14, <1>15, <1>16, <1>17 DEF Server
<1>19. QED
  BY <1>18 DEF Goal

-----------------------------------------------------------------------------

\* What the clients of HttpService see.
Heard(c) == [i \in 1..Replies(c) |-> got[c][i].of]
Over(c)   == peer[c] \in {"fin", "closed"}

SameFor(c) == Whole(c)' = Whole(c) /\ Heard(c)' = Heard(c) /\ Over(c)' = Over(c)

\* The steps of HttpService, in the terms of the server.
LEMMA Asking ==
    ASSUME IInv, NEW c \in Clients, ~Over(c), ~Over(c)', Whole(c) = Replies(c),
           Whole(c)' = Whole(c) + 1, Heard(c)' = Heard(c),
           \A d \in Clients \ {c} : SameFor(d)
    PROVE  Service!ServiceNext
<1>1. Replies(c) \in Nat /\ Len(Heard(c)) = Replies(c)
  BY RepliesType DEF Heard
<1>2. [d \in Clients |-> Whole(d)]' = [[d \in Clients |-> Whole(d)] EXCEPT ![c] = @ + 1]
  BY DEF SameFor
<1>3. [d \in Clients |-> Heard(d)]' = [d \in Clients |-> Heard(d)]
  BY DEF SameFor
<1>4. [d \in Clients |-> Over(d)]' = [d \in Clients |-> Over(d)]
  BY DEF SameFor, Over
<1>5. Service!Ask(c)
  BY <1>1, <1>2, <1>3, <1>4 DEF Service!Ask, Heard, Over
<1>6. QED
  BY <1>5 DEF Service!ServiceNext

LEMMA Answering ==
    ASSUME IInv, NEW c \in Clients, ~Over(c), ~Over(c)', Replies(c) < Whole(c), Whole(c)' = Whole(c),
           Heard(c)' = Append(Heard(c), {<<c, Replies(c) + 1>>}),
           \A d \in Clients \ {c} : SameFor(d)
    PROVE  Service!ServiceNext
<1>1. Replies(c) \in Nat /\ Len(Heard(c)) = Replies(c)
  BY RepliesType DEF Heard
<1>2. [d \in Clients |-> Whole(d)]' = [d \in Clients |-> Whole(d)]
  BY DEF SameFor
<1>3. [d \in Clients |-> Heard(d)]'
        = [[d \in Clients |-> Heard(d)] EXCEPT ![c] = Append(@, {<<c, Len(@) + 1>>})]
  BY <1>1 DEF SameFor
<1>4. [d \in Clients |-> Over(d)]' = [d \in Clients |-> Over(d)]
  BY DEF SameFor, Over
<1>5. Service!Answer(c)
  BY <1>1, <1>2, <1>3, <1>4 DEF Service!Answer, Heard, Over
<1>6. QED
  BY <1>5 DEF Service!ServiceNext

LEMMA Ending ==
    ASSUME IInv, NEW c \in Clients, ~Over(c), Over(c)',
           Whole(c)' = Whole(c), Heard(c)' = Heard(c),
           \A d \in Clients \ {c} : SameFor(d)
    PROVE  Service!ServiceNext
<1>2. [d \in Clients |-> Whole(d)]' = [d \in Clients |-> Whole(d)]
  BY DEF SameFor
<1>3. [d \in Clients |-> Heard(d)]' = [d \in Clients |-> Heard(d)]
  BY DEF SameFor
<1>4. [d \in Clients |-> Over(d)]' = [[d \in Clients |-> Over(d)] EXCEPT ![c] = TRUE]
  BY DEF SameFor, Over
<1>5. Service!End(c)
  BY <1>2, <1>3, <1>4 DEF Service!End, Heard, Over
<1>6. QED
  BY <1>5 DEF Service!ServiceNext

LEMMA Standing ==
    ASSUME \A d \in Clients : SameFor(d)
    PROVE  UNCHANGED Service!serviceVars
BY DEF SameFor, Heard, Over, Service!serviceVars

\* All but the last request of a client have their answers.
LEMMA AllButLast ==
    ASSUME IInv, Ledger, OneAtATime, NEW c \in Clients
    PROVE  Len(sent[c]) <= Replies(c) + 1
<1>1. Len(sent[c]) \in Nat /\ Replies(c) \in Nat
  BY RepliesType
<1>2. SUFFICES ASSUME Len(sent[c]) - 1 > 0 PROVE Len(sent[c]) - 1 <= Replies(c)
  BY <1>1
<1>3. PICK n \in Nat : n = Len(sent[c]) - 1 /\ n > 0 /\ n \in 1..(Len(sent[c]) - 1)
  BY <1>1, <1>2
<1>4. <<c, n>> \in Answered(c)
  BY <1>3 DEF OneAtATime
<1>5. QED
  BY <1>3, <1>4, LedgerAnswered

\* A client with no answer outstanding has as many as it has asked for.
LEMMA NothingOwed ==
    ASSUME IInv, Ledger, NEW c \in Clients, ~Outstanding(c)
    PROVE  Replies(c) = Whole(c)
<1>1. Whole(c) \in Nat /\ Replies(c) \in Nat /\ Replies(c) <= Whole(c)
  BY RepliesType DEF Ledger
<1>2. ASSUME Whole(c) > 0 PROVE Whole(c) <= Replies(c)
  <2>1. <<c, Whole(c)>> \in Answered(c)
    BY <1>1, <1>2 DEF Outstanding
  <2>2. QED
    BY <1>1, <1>2, <2>1, LedgerAnswered
<1>3. QED
  BY <1>1, <1>2

LEMMA SameReplies ==
    ASSUME NEW c \in Clients, got'[c] = got[c]
    PROVE  Replies(c)' = Replies(c) /\ Heard(c)' = Heard(c)
BY DEF Replies, Heard

LEMMA SameLedger ==
    ASSUME IInv, IInv', Ledger, UNCHANGED got,
           \A c \in Clients : Whole(c) <= Whole(c)' /\ (peer[c] = "closed" => peer'[c] = "closed")
    PROVE  Ledger'
<1>1. SUFFICES ASSUME NEW c \in Clients
               PROVE  /\ Replies(c)' <= Whole(c)'
                      /\ \A i \in 1..Replies(c)' : got'[c][i].of = {<<c, i>>}
                      /\ Replies(c)' < Len(got'[c]) => peer'[c] = "closed"
  BY DEF Ledger
<1>2. Replies(c)' = Replies(c)
  BY SameReplies
<1>3. Replies(c) \in Nat /\ Whole(c) \in Nat /\ Whole(c)' \in Nat
  <2>1. Replies(c) \in Nat /\ Whole(c) \in Nat
    BY RepliesType
  <2>2. Whole(c)' \in Nat
    <3>1. /\ sent' \in [Clients -> Seq(Kinds)] /\ half' \in [Clients -> BOOLEAN]
          /\ half'[c] => sent'[c] # <<>>
      BY DEF IInv, EnvInv, SentBounded
    <3>2. Len(sent'[c]) \in Nat /\ (sent'[c] # <<>> => Len(sent'[c]) > 0)
      BY <3>1
    <3>3. QED
      BY <3>1, <3>2 DEF Whole
  <2>3. QED
    BY <2>1, <2>2
<1>4. QED
  BY <1>2, <1>3 DEF Ledger

\* A reply that is not stored beyond the limit of the log.
LEMMA ReplyStep ==
    ASSUME IInv, Ledger, OneAtATime, LeftAnswered, MaxLog >= MaxReq, NEW c \in Clients, Reply(c),
           UNCHANGED <<sent, half>>
    PROVE  Ledger' /\ Service!ServiceNext
<1> DEFINE n == Len(sent[c])
<1>1. /\ Replies(c) \in Nat /\ Replies(c) <= Len(got[c]) /\ Len(got[c]) \in Nat
      /\ got[c] \in Seq(Response)
      /\ n \in Nat /\ n > 0 /\ n <= Whole(c) /\ n <= MaxReq /\ MaxReq \in Nat /\ Whole(c) \in Int
      /\ MaxLog \in Nat /\ Whole(c) <= n
  BY RepliesType, WebserverAssumption DEF Reply
<1>2. \A d \in Clients : Whole(d)' = Whole(d)
  BY DEF Whole
<1>3. Replies(c) = Len(got[c])
  BY <1>1 DEF Reply, Ledger
<1>4. Replies(c) + 1 = n
  <2>1. ~(n <= Replies(c))
    BY <1>1, LedgerAnswered DEF Reply
  <2>2. n <= Replies(c) + 1
    BY AllButLast
  <2>3. QED
    BY <1>1, <2>1, <2>2
<1>5. ~Over(c) /\ Over(c)' = Over(c) /\ \A d \in Clients : Over(d)' = Over(d)
  <2>1. peer[c] # "fin"
    <3>1. n \in 1..Whole(c) /\ <<c, n>> \notin Answered(c)
      BY <1>1 DEF Reply
    <3>2. Outstanding(c)
      BY <3>1 DEF Outstanding
    <3>3. QED
      BY <3>2 DEF LeftAnswered
  <2>2. QED
    BY <2>1 DEF Over, Reply
<1>6. PICK r : r.of = {<<c, n>>} /\ got' = [got EXCEPT ![c] = Append(@, r)]
  <2>1. Len(got[c]) < MaxLog
    BY <1>1, <1>3, <1>4
  <2>2. QED
    BY <2>1 DEF Reply
<1>7. got'[c] = Append(got[c], r) /\ \A d \in Clients \ {c} : got'[d] = got[d]
  BY <1>6 DEF IInv, TableInv
<1>8. /\ Len(got'[c]) = n /\ got'[c][n].of = {<<c, n>>} /\ got'[c] # <<>>
      /\ \A i \in 1..Replies(c) : got'[c][i] = got[c][i]
  BY <1>1, <1>3, <1>4, <1>6, <1>7
<1>9. Replies(c)' = n
  BY <1>8 DEF Replies
<1>10. Heard(c)' = Append(Heard(c), {<<c, Replies(c) + 1>>})
  <2>1. Heard(c)' = [i \in 1..n |-> got'[c][i].of]
    BY <1>9 DEF Heard
  <2>2. Len(Heard(c)) = Replies(c) /\ Heard(c) = [i \in 1..Replies(c) |-> got[c][i].of]
    BY <1>1 DEF Heard
  <2>3. QED
    BY <1>1, <1>4, <1>8, <2>1, <2>2
<1>11. \A d \in Clients \ {c} : Replies(d)' = Replies(d) /\ Heard(d)' = Heard(d)
  BY <1>7, SameReplies
<1>12. Service!ServiceNext
  BY <1>1, <1>2, <1>4, <1>5, <1>10, <1>11, Answering DEF SameFor
<1>13. Ledger'
  <2>1. SUFFICES ASSUME NEW d \in Clients
                 PROVE  /\ Replies(d)' <= Whole(d)'
                        /\ \A i \in 1..Replies(d)' : got'[d][i].of = {<<d, i>>}
                        /\ Replies(d)' < Len(got'[d]) => peer'[d] = "closed"
    BY DEF Ledger
  <2>2. CASE d = c
    <3>1. \A i \in 1..n : got'[c][i].of = {<<c, i>>}
      <4>1. ASSUME NEW i \in 1..n PROVE i = n \/ i \in 1..Replies(c)
        BY <1>1, <1>4
      <4>2. ASSUME NEW i \in 1..Replies(c) PROVE got'[c][i].of = {<<c, i>>}
        BY <1>8 DEF Ledger
      <4>3. QED
        BY <1>8, <4>1, <4>2
    <3>2. QED
      BY <1>1, <1>2, <1>8, <1>9, <2>2, <3>1
  <2>3. CASE d # c
    BY <1>2, <1>7, <1>11, <2>3 DEF Ledger, Reply
  <2>4. QED
    BY <2>2, <2>3
<1>14. QED
  BY <1>12, <1>13

\* A timeout ends the connection, and what it says is no answer.
LEMMA TimeoutEnds ==
    ASSUME IInv, SocketInv, Ledger, NEW s \in Servers, NEW fd \in Fds, TimesOut(s, fd),
           UNCHANGED <<sent, half>>
    PROVE  Ledger' /\ (Service!ServiceNext \/ UNCHANGED Service!serviceVars)
<1>1. sock[fd] \in Clients /\ got \in [Clients -> Seq(Response)] /\ peer \in [Clients -> PeerStates]
  BY DEF TimesOut, send, IInv, RegistryInv, TableInv
<1>0. PICK c \in Clients : c = sock[fd]
  BY <1>1
<1> DEFINE r == [code |-> 408, of |-> {}]
<1>2. c = sock[fd] /\ r.of = {} /\ r \in Response /\ got' = Delivered(fd, r)
  BY <1>0 DEF TimesOut, Response
<1> HIDE DEF r
<1>3. peer' = [d \in Clients |-> IF d = c THEN "closed" ELSE peer[d]]
  BY <1>2 DEF TimesOut, close
<1>4. peer[c] # "closed"
  BY <1>1, <1>2, NoneIsNoObject DEF SocketInv, SocketsPresent, Present
<1>5. \A d \in Clients : Whole(d)' = Whole(d)
  BY DEF Whole
<1>6. /\ Replies(c) \in Nat /\ Replies(c) = Len(got[c]) /\ got[c] \in Seq(Response)
  BY <1>2, <1>4, RepliesType DEF Ledger
<1>7. /\ \A d \in Clients \ {c} : got'[d] = got[d]
      /\ got'[c] = got[c] \/ got'[c] = Append(got[c], r)
  BY <1>1, <1>2 DEF Delivered
<1>8. Replies(c)' = Replies(c) /\ Heard(c)' = Heard(c)
  <2>1. CASE got'[c] = got[c]
    BY <2>1, SameReplies
  <2>2. CASE got'[c] = Append(got[c], r)
    <3>1. /\ Len(got'[c]) = Replies(c) + 1 /\ got'[c][Len(got'[c])].of = {} /\ got'[c] # <<>>
          /\ \A i \in 1..Replies(c) : got'[c][i] = got[c][i]
      BY <1>2, <1>6, <2>2
    <3>2. Replies(c)' = Replies(c)
      BY <1>6, <3>1 DEF Replies
    <3>3. QED
      BY <3>1, <3>2 DEF Heard
  <2>3. QED
    BY <1>7, <2>1, <2>2
<1>9. \A d \in Clients \ {c} : Replies(d)' = Replies(d) /\ Heard(d)' = Heard(d)
  BY <1>7, SameReplies
<1>10. /\ \A d \in Clients \ {c} : Over(d)' = Over(d)
       /\ Over(c)' /\ Over(c) \in BOOLEAN
  BY <1>3 DEF Over
<1>11. Service!ServiceNext \/ UNCHANGED Service!serviceVars
  <2>1. CASE Over(c)
    <3>1. Over(c)' = Over(c)
      BY <1>3, <2>1 DEF Over
    <3>2. \A d \in Clients : SameFor(d)
      BY <1>5, <1>8, <1>9, <1>10, <3>1 DEF SameFor
    <3>3. QED
      BY <3>2, Standing
  <2>2. CASE ~Over(c)
    BY <1>5, <1>8, <1>9, <1>10, <2>2, Ending DEF SameFor
  <2>3. QED
    BY <2>1, <2>2
<1>12. Ledger'
  <2>1. SUFFICES ASSUME NEW d \in Clients
                 PROVE  /\ Replies(d)' <= Whole(d)'
                        /\ \A i \in 1..Replies(d)' : got'[d][i].of = {<<d, i>>}
                        /\ Replies(d)' < Len(got'[d]) => peer'[d] = "closed"
    BY DEF Ledger
  <2>2. CASE d = c
    <3>1. \A i \in 1..Replies(c) : got'[c][i] = got[c][i]
      BY <1>6, <1>7
    <3>2. peer'[c] = "closed"
      BY <1>3
    <3>3. QED
      BY <1>5, <1>8, <2>2, <3>1, <3>2 DEF Ledger
  <2>3. CASE d # c
    <3>1. got'[d] = got[d] /\ peer'[d] = peer[d] /\ Replies(d)' = Replies(d)
      BY <1>3, <1>7, <1>9, <2>3
    <3>2. QED
      BY <1>5, <3>1 DEF Ledger
  <2>4. QED
    BY <2>2, <2>3
<1>13. QED
  BY <1>11, <1>12

\* Nothing is heard: the promise stands still.
LEMMA NoReplyStands ==
    ASSUME IInv, IInv', Ledger, NoReply, UNCHANGED <<sent, half>>
    PROVE  Ledger' /\ UNCHANGED Service!serviceVars
<1>1. \A c \in Clients : Whole(c)' = Whole(c) /\ Whole(c) \in Int
  BY RepliesType DEF Whole
<1>2. \A c \in Clients : Over(c)' = Over(c) /\ (peer[c] = "closed" => peer'[c] = "closed")
  BY DEF NoReply, Over
<1>3. \A c \in Clients : Replies(c)' = Replies(c) /\ Heard(c)' = Heard(c)
  BY SameReplies DEF NoReply
<1>4. Ledger'
  BY <1>1, <1>2, SameLedger DEF NoReply
<1>5. QED
  BY <1>1, <1>2, <1>3, <1>4, Standing DEF SameFor

\* What clients and programs do, clients that wait for their answers.
LEMMA ServiceEnvStep ==
    ASSUME Patient, IInv, IInv', Ledger, OneAtATime, Environment
    PROVE  Ledger' /\ (Service!ServiceNext \/ UNCHANGED Service!serviceVars)
<1> DEFINE Moves == Service!ServiceNext \/ UNCHANGED Service!serviceVars
<1>1. UNCHANGED got /\ Staying
  BY StayingEnv DEF Patient
<1>2. \A c \in Clients : Replies(c)' = Replies(c) /\ Heard(c)' = Heard(c)
  BY <1>1, SameReplies
<1>3. /\ sent \in [Clients -> Seq(Kinds)] /\ half \in [Clients -> BOOLEAN]
      /\ peer \in [Clients -> PeerStates]
      /\ \A c \in Clients : half[c] => sent[c] # <<>>
  BY DEF IInv, RegistryInv, EnvInv, SentBounded
<1>4. \A c \in Clients : Whole(c) \in Int /\ Len(sent[c]) \in Nat
  BY RepliesType
<1> HIDE DEF Moves
<1>5. ASSUME UNCHANGED <<peer, sent, half>>
      PROVE  Ledger' /\ Moves
  BY <1>1, <1>5, NoReplyStands DEF NoReply, Moves
<1>6. ASSUME NEW c \in Clients, Connect(c)
      PROVE  Ledger' /\ Moves
  <2>1. /\ \A d \in Clients : Whole(d)' = Whole(d) /\ Over(d)' = Over(d)
        /\ \A d \in Clients : peer[d] = "closed" => peer'[d] = "closed"
    BY <1>3, <1>6 DEF Connect, clientVars, Whole, Over
  <2>2. Ledger'
    BY <1>1, <1>4, <2>1, SameLedger
  <2>3. QED
    BY <1>2, <2>1, <2>2, Standing DEF SameFor, Moves
<1>7. ASSUME NEW c \in Clients, NEW kind \in Kinds, NEW whole \in BOOLEAN, SendRequest(c, kind, whole)
      PROVE  Ledger' /\ Moves
  <2>1. /\ UNCHANGED peer /\ peer[c] = "open" /\ ~half[c]
        /\ sent' = [sent EXCEPT ![c] = Append(@, kind)] /\ half' = [half EXCEPT ![c] = ~whole]
        /\ ~Outstanding(c)
    BY <1>7 DEF SendRequest, Patient
  <2>2. Len(sent'[c]) = Len(sent[c]) + 1
    BY <1>3, <2>1
  <2>3. /\ whole => Whole(c)' = Whole(c) + 1
        /\ ~whole => Whole(c)' = Whole(c)
    <3>1. half'[c] <=> ~whole
      BY <1>3, <2>1
    <3>2. Whole(c) = Len(sent[c])
      BY <2>1 DEF Whole
    <3>3. (whole => Whole(c)' = Len(sent'[c])) /\ (~whole => Whole(c)' = Len(sent'[c]) - 1)
      BY <3>1 DEF Whole
    <3>4. QED
      BY <1>4, <2>2, <3>2, <3>3
  <2>4. \A d \in Clients \ {c} : Whole(d)' = Whole(d)
    BY <1>3, <2>1 DEF Whole
  <2>5. \A d \in Clients : Over(d)' = Over(d)
    BY <2>1 DEF Over
  <2>6. Ledger'
    BY <1>1, <1>4, <2>1, <2>3, <2>4, SameLedger
  <2>7. CASE whole
    <3>1. Replies(c) = Whole(c) /\ ~Over(c)
      BY <2>1, NothingOwed DEF Over
    <3>2. Service!ServiceNext
      BY <1>2, <2>3, <2>4, <2>5, <2>7, <3>1, Asking DEF SameFor
    <3>3. QED
      BY <2>6, <3>2 DEF Moves
  <2>8. CASE ~whole
    BY <1>2, <2>3, <2>4, <2>5, <2>6, <2>8, Standing DEF SameFor, Moves
  <2>9. QED
    BY <2>7, <2>8
<1>8. ASSUME NEW c \in Clients, SendRemainder(c)
      PROVE  Ledger' /\ Moves
  <2>1. /\ UNCHANGED <<peer, sent>> /\ peer[c] = "open" /\ half[c]
        /\ half' = [half EXCEPT ![c] = FALSE]
    BY <1>8 DEF SendRemainder
  <2>2. Whole(c)' = Whole(c) + 1 /\ \A d \in Clients \ {c} : Whole(d)' = Whole(d)
    BY <1>3, <1>4, <2>1 DEF Whole
  <2>3. Whole(c) = Replies(c)
    <3>1. Whole(c) = Len(sent[c]) - 1
      BY <2>1 DEF Whole
    <3>2. QED
      BY <1>4, <3>1, AllButLast, RepliesType DEF Ledger
  <2>4. ~Over(c) /\ \A d \in Clients : Over(d)' = Over(d)
    BY <2>1 DEF Over
  <2>5. Ledger'
    BY <1>1, <1>4, <2>1, <2>2, SameLedger
  <2>6. Service!ServiceNext
    BY <1>2, <2>2, <2>3, <2>4, Asking DEF SameFor
  <2>7. QED
    BY <2>5, <2>6 DEF Moves
<1>9. ASSUME NEW c \in Clients, Leave(c)
      PROVE  Ledger' /\ Moves
  <2>1. peer' = [peer EXCEPT ![c] = "fin"] /\ peer[c] = "open" /\ UNCHANGED <<sent, half>>
    BY <1>9 DEF Leave, clientVars
  <2>2. /\ ~Over(c) /\ Over(c)' /\ \A d \in Clients \ {c} : Over(d)' = Over(d)
        /\ \A d \in Clients : peer[d] = "closed" => peer'[d] = "closed"
    BY <1>3, <2>1 DEF Over
  <2>3. \A d \in Clients : Whole(d)' = Whole(d)
    BY <2>1 DEF Whole
  <2>4. Ledger'
    BY <1>1, <1>4, <2>2, <2>3, SameLedger
  <2>5. Service!ServiceNext
    BY <1>2, <2>2, <2>3, Ending DEF SameFor
  <2>6. QED
    BY <2>4, <2>5 DEF Moves
<1>10. ASSUME NEW c \in Clients, Reset(c)
       PROVE  FALSE
  BY <1>1, <1>10 DEF Reset, Staying
<1>11. ASSUME NEW o \in Origins, Cgi(o)
       PROVE  Ledger' /\ Moves
  BY <1>5, <1>11 DEF Cgi, CgiWrite, CgiExit, CgiExecFails, clientVars
<1>12. ASSUME Tick
       PROVE  Ledger' /\ Moves
  BY <1>5, <1>12 DEF Tick, clientVars, kernelVars
<1>13. Ledger' /\ Moves
  BY <1>6, <1>7, <1>8, <1>9, <1>10, <1>11, <1>12 DEF Environment, Client
<1>14. QED
  BY <1>13 DEF Moves

\* A pass of the loop keeps the promise: it answers a client's only unanswered request,
\* ends a connection or does nothing that a client can see.
LEMMA ServiceServerStep ==
    ASSUME Patient, PromiseInv, Ledger, MaxLog >= MaxReq, up = "up", Server
    PROVE  Ledger' /\ (Service!ServiceNext \/ UNCHANGED Service!serviceVars)
<1>1. /\ IInv /\ SocketInv /\ LoopInv /\ NoReset /\ LeftAnswered /\ RefusedKind /\ HeldOwn
      /\ StreamInv /\ UsedInv /\ AnswerInv /\ OneAtATime /\ SpentInv /\ UsedKind
      /\ WriteInv /\ HeldWrite /\ "large" \notin Kinds
  BY PatientIsStaying DEF PromiseInv, PatientInv, LastingInv, DeliveryInv, StayInv, Asked
<1>2. IInv'
  BY PromiseStep DEF Next, PromiseInv, PatientInv, LastingInv
<1>3. UNCHANGED <<sent, half>>
  BY <1>1, ServerCases DEF clientVars
<1>4. CASE up' # "up"
  <2>1. NoReply
    BY <1>1, <1>4, EndsStill DEF NoReply
  <2>2. QED
    BY <1>1, <1>2, <1>3, <2>1, NoReplyStands
<1>5. CASE up' = "up"
  <2>1. NoReply \/ (\E c \in Clients : Reply(c)) \/ \E s \in Servers, fd \in Fds : TimesOut(s, fd)
    BY <1>1, <1>5, ReplyCases
  <2>2. CASE NoReply
    BY <1>1, <1>2, <1>3, <2>2, NoReplyStands
  <2>3. ASSUME NEW c \in Clients, Reply(c)
        PROVE  Ledger' /\ Service!ServiceNext
    BY <1>1, <1>3, <2>3, ReplyStep
  <2>4. ASSUME NEW s \in Servers, NEW fd \in Fds, TimesOut(s, fd)
        PROVE  Ledger' /\ (Service!ServiceNext \/ UNCHANGED Service!serviceVars)
    BY <1>1, <1>3, <2>4, TimeoutEnds
  <2>5. QED
    BY <2>1, <2>2, <2>3, <2>4
<1>6. QED
  BY <1>4, <1>5

LEMMA ServiceStep ==
    ASSUME Patient, MaxLog >= MaxReq, PromiseInv, Ledger, [Next]_vars
    PROVE  Ledger' /\ [Service!ServiceNext]_(Service!serviceVars)
<1>1. PromiseInv' /\ IInv /\ IInv' /\ LoopInv
  BY PromiseStep DEF PromiseInv, PatientInv, LastingInv
<1>2. CASE Server
  <2>1. up = "up"
    BY <1>1, <1>2, ServerCases
  <2>2. QED
    BY <1>2, <2>1, ServiceServerStep
<1>3. CASE Environment
  <2>1. up = "up"
    BY <1>1, <1>3, EnvCases
  <2>2. OneAtATime
    BY <2>1 DEF PromiseInv, Asked
  <2>3. QED
    BY <1>1, <1>3, <2>2, ServiceEnvStep
<1>4. CASE UNCHANGED vars
  <2>1. NoReply /\ UNCHANGED <<sent, half>>
    BY <1>4 DEF vars, NoReply
  <2>2. QED
    BY <1>1, <2>1, NoReplyStands
<1>5. QED
  BY <1>2, <1>3, <1>4 DEF Next, Environment

LEMMA ServiceStart ==
    ASSUME Init
    PROVE  Ledger /\ Service!ServiceInit
<1>1. /\ \A c \in Clients : got[c] = <<>> /\ sent[c] = <<>> /\ half[c] = FALSE /\ peer[c] = "none"
  BY DEF Init
<1>2. \A c \in Clients : Replies(c) = 0 /\ Whole(c) = 0
  BY <1>1 DEF Replies, Whole
<1>3. Ledger
  BY <1>1, <1>2 DEF Ledger
<1>4. \A c \in Clients : [i \in 1..Replies(c) |-> got[c][i].of] = <<>>
  BY <1>2
<1>5. \A c \in Clients : (peer[c] \in {"fin", "closed"}) = FALSE
  BY <1>1
<1>6. /\ [c \in Clients |-> Whole(c)] = [c \in Clients |-> 0]
      /\ [c \in Clients |-> [i \in 1..Replies(c) |-> got[c][i].of]] = [c \in Clients |-> <<>>]
      /\ [c \in Clients |-> peer[c] \in {"fin", "closed"}] = [c \in Clients |-> FALSE]
  BY <1>2, <1>4, <1>5
<1>7. QED
  BY <1>3, <1>6 DEF Service!ServiceInit

\* The server keeps the promise of HttpService for clients that ask one thing at a time
\* and wait: a response is the answer to the one request of its client that has none
\* yet, and none comes once the connection is over (Server.cpp:56-144, Servers.cpp:9-24).
THEOREM ServesAsPromised == Patient /\ MaxLog >= MaxReq => (Spec => Service!ServiceSafety)
<1> SUFFICES ASSUME Patient, MaxLog >= MaxReq PROVE Spec => Service!ServiceSafety
  OBVIOUS
<1> DEFINE Inv == PromiseInv /\ Ledger
<1>1. Init => Inv /\ Service!ServiceInit
  BY PromiseInit, ServiceStart
<1>2. Inv /\ [Next]_vars => Inv' /\ [Service!ServiceNext]_(Service!serviceVars)
  BY PromiseStep, ServiceStep
<1> HIDE DEF Inv
<1>3. QED
  BY <1>1, <1>2, PTL DEF Spec, Service!ServiceSafety

=====================================================================================
