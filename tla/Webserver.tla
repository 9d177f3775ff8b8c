--------------------------------- MODULE Webserver ---------------------------------
(***************************************************************************)
(* The event loop of the web server with everything it drives: Webserver,  *)
(* Servers, Server, Connections, Responses, CgiHandler and CgiExecuter,    *)
(* over the registry of module Kqueue; and, as its environment, the        *)
(* clients, the CGI processes, the clock and the kernel's descriptors.     *)
(*                                                                         *)
(* One step of the server is one pass through a handler: the loop is       *)
(* single-threaded, so a handler is not interrupted. Clients, processes    *)
(* and the clock move between any two steps. A request is identified by    *)
(* its client and its number on the connection; its text is not modelled.  *)
(***************************************************************************)
EXTENDS Kqueue, Sequences, FiniteSets

CONSTANTS
    Clients,     \* every client connects once, to the server Home[c]
    Home,
    Kinds,       \* what clients ask for, a subset of RequestKinds
    Env,         \* what the environment may do, a subset of Behaviours
    MaxReq,      \* bound: requests a client sends on its connection
    MaxOut,      \* bound: chunks of output a CGI process writes
    MaxLog,      \* bound: responses recorded per client, later ones are dropped
    TimeoutMs    \* the argument of validateLastActiveTime, 2900 in the code

RequestKinds == {"static",  \* answered from a file, a directory or a redirect
                 "cgi",     \* handed to a CGI process
                 "fail",    \* refused with an HttpException: 400, 403, 404 or 405
                 "large"}   \* its Content-Length exceeds client_max_body_size

Behaviours == {"pipelining",  \* a client sends a request before the last is answered
               "splitting",   \* a request arrives in two parts
               "impatient",   \* a client ends its stream before it is answered
               "reset",       \* a client resets the connection
               "slow",        \* a request can stay unanswered beyond the timeout
               "silent",      \* a CGI process may exit without any output
               "execFails"}   \* the interpreter cannot be executed

Origins  == Clients \X (1..MaxReq)
Segments == [req: Origins, kind: RequestKinds, last: BOOLEAN]
Response == [code: {200, 404, 408, 413, 500}, of: SUBSET Origins]
Limit    == TimeoutMs \div 1000
Connection == [buf: Seq(Segments), queue: Seq(Response),
               cgi: [Fds -> SUBSET Origins], age: 0..(Limit + 1)]
Process  == [st: {"none", "run", "exit"}, unread: BOOLEAN, wrote: 0..MaxOut]
Exits    == {"accept", "exists", "pipe", "removeEvent", "SIGPIPE"}

ASSUME WebserverAssumption ==
    /\ Home \in [Clients -> Servers]
    /\ Kinds \subseteq RequestKinds
    /\ Env \subseteq Behaviours
    /\ MaxReq \in Nat /\ MaxOut \in Nat \ {0} /\ MaxLog \in Nat
    /\ TimeoutMs \in Nat

ASSUME NoneIsNoObject == None \notin Clients /\ None \notin Origins /\ None \notin Connection

VARIABLES
    kq,       \* the event registry
    conn,     \* conn[s][fd]: the entry of server s's connections_, or None
    sock,     \* sock[fd]: the client whose socket the descriptor is, or None
    pipe,     \* pipe[fd]: the CGI request whose output the descriptor reads, or None
    backlog,  \* backlog[s]: clients waiting for accept
    peer,     \* the client's end of its connection
    inbuf,    \* what the kernel received from the client and recv has not taken
    sent,     \* the kinds of the requests a client has begun to send
    half,     \* whether the last of them is still incomplete
    got,      \* the responses a client received
    proc,     \* the CGI process of a request
    pc,       \* where the loop of start() is: "poll" or "process"
    up        \* "up", or what ended the server process

kernelVars == <<sock, pipe, peer>>
clientVars == <<sent, half>>
serverVars == <<kq, conn, sock, pipe, peer, got, pc>>
vars == <<kq, conn, sock, pipe, backlog, peer, inbuf, sent, half, got, proc, pc, up>>

PeerStates == {"none", "open", "fin", "rst", "dead", "closed"}

TypeOK ==
    /\ kq \in Registry
    /\ conn \in [Servers -> [Fds -> Connection \cup {None}]]
    /\ sock \in [Fds -> Clients \cup {None}]
    /\ pipe \in [Fds -> Origins \cup {None}]
    /\ backlog \in [Servers -> Seq(Clients)]
    /\ peer \in [Clients -> PeerStates]
    /\ inbuf \in [Clients -> Seq(Segments)]
    /\ sent \in [Clients -> Seq(Kinds)]
    /\ half \in [Clients -> BOOLEAN]
    /\ got \in [Clients -> Seq(Response)]
    /\ proc \in [Origins -> Process]
    /\ pc \in {"poll", "process"}
    /\ up \in {"up"} \cup Exits

-----------------------------------------------------------------------------
(* Descriptors. open, socket, pipe and accept return the lowest free numbers. *)

Free == {fd \in Fds : sock[fd] = None /\ pipe[fd] = None}

\* The descriptor allocated when n lower ones are free.
Nth(fd, n) == fd \in Free /\ Cardinality({g \in Free : g < fd}) = n

\* kevent refuses a closed descriptor, and the write side of a pipe nobody holds.
Attaches(fd, filter) ==
    \/ sock[fd] # None
    \/ /\ pipe[fd] # None
       /\ filter = EVFILT_WRITE =>
             Registered(kq, fd, filter) \/ proc[pipe[fd]].st = "run"

\* Whether a read on a descriptor returns at once, and whether its event is active.
Readable(fd) ==
    \/ sock[fd] # None /\ (inbuf[sock[fd]] # <<>> \/ peer[sock[fd]] \in {"fin", "rst", "dead"})
    \/ pipe[fd] # None /\ (proc[pipe[fd]].unread \/ proc[pipe[fd]].st = "exit")

Ready(n) ==
    /\ Registered(kq, n[1], n[2])
    /\ \/ n[1] \in Servers /\ backlog[n[1]] # <<>>
       \/ n[1] \in Fds /\ (n[2] = EVFILT_WRITE \/ Readable(n[1]))

\* The outcomes of send(). A reset connection gives -1, or SIGPIPE, which nobody
\* handles; a pipe or a closed descriptor gives -1. Responses fit the send buffer.
send(fd) ==
    IF sock[fd] = None THEN {"fail"}
    ELSE IF peer[sock[fd]] \in {"rst", "dead"} THEN {"fail", "SIGPIPE"} ELSE {"ok"}

Delivered(fd, r) ==
    IF Len(got[sock[fd]]) < MaxLog THEN [got EXCEPT ![sock[fd]] = Append(@, r)] ELSE got

-----------------------------------------------------------------------------
(* Helpers of the handlers: what they assign, from the tables they are given. *)

\* A mutated form: the constructor forgets lastActiveTime.
UninitialisedConnection ==
    [buf |-> <<>>, queue |-> <<>>, cgi |-> [fd \in Fds |-> {}], age |-> Limit + 7]

NewConnection == [buf |-> <<>>, queue |-> <<>>, cgi |-> [fd \in Fds |-> {}], age |-> 0]

Put(cn, s, fd, c) == [cn EXCEPT ![s][fd] = c]

updateLastActiveTime(s, fd) ==
    IF conn[s][fd] = None THEN conn ELSE [conn EXCEPT ![s][fd].age = 0]

\* A mutated form: the entry of connections_ is not erased.
keepConnection(cn, s, fd) == cn

removeConnection(cn, s, fd) == Put(cn, s, fd, None)

\* A mutated form: the call of close(fd) is missing.
closeNot(fd, q) == kq' = q /\ UNCHANGED kernelVars

\* close(fd) with the registry already in state q.
close(fd, q) ==
    /\ kq' = closeFd(q, fd)
    /\ sock' = [sock EXCEPT ![fd] = None]
    /\ pipe' = [pipe EXCEPT ![fd] = None]
    /\ peer' = [c \in Clients |-> IF sock[fd] = c THEN "closed" ELSE peer[c]]

\* A mutated form: the socket is closed and its Connection forgotten.
closeSocketOnly(cn, s, fd) ==
    close(fd, Done(kq)) /\ conn' = cn

closeConnection(cn, s, fd) ==
    close(fd, Done(kq)) /\ conn' = removeConnection(cn, s, fd)

\* An exception that start() does not catch, or a signal, ends the process.
Exit(reason) == up' = reason /\ UNCHANGED serverVars

\* sendResponse: a failed send closes the connection and tells only handleResponse.
handleError(cn, s, fd, r) ==
    \/ /\ "ok" \in send(fd)
       /\ got' = Delivered(fd, r) /\ conn' = cn /\ kq' = Done(kq)
       /\ pc' = "poll" /\ UNCHANGED <<kernelVars, up>>
    \/ /\ "fail" \in send(fd)
       /\ closeConnection(cn, s, fd)
       /\ pc' = "poll" /\ UNCHANGED <<got, up>>
    \/ "SIGPIPE" \in send(fd) /\ Exit("SIGPIPE")

-----------------------------------------------------------------------------
(* The loop of Webserver::start. *)

Poll ==
    /\ up = "up" /\ pc = "poll"
    /\ \/ \E n \in Descriptors \X Filters : Ready(n) /\ kq' = pollEvents(kq, n)
       \/ (\A n \in Descriptors \X Filters : ~Ready(n)) /\ UNCHANGED kq
    /\ pc' = "process"
    /\ UNCHANGED <<conn, kernelVars, backlog, inbuf, clientVars, got, proc, up>>

\* A mutated form: >= for >.
isTimeoutAtLimit(s, fd) == conn[s][fd] # None /\ conn[s][fd].age >= Limit

isTimeout(s, fd) == conn[s][fd] # None /\ conn[s][fd].age > Limit
Expired == \E s \in Servers, fd \in Fds : isTimeout(s, fd)

\* validateLastActiveTime, one timed-out connection per step: its Connection is
\* removed, 408 is sent, and then the event is removed and the socket closed. After
\* a failed send the socket is closed already and removeEvent throws.
validateLastActiveTime(s, fd) ==
    /\ up = "up" /\ pc = "process"
    /\ isTimeout(s, fd)
    /\ \/ /\ "ok" \in send(fd) /\ Registered(kq, fd, EVFILT_READ)
          /\ got' = Delivered(fd, [code |-> 408, of |-> {}])
          /\ conn' = removeConnection(conn, s, fd)
          /\ close(fd, removeEvent(kq, fd, EVFILT_READ))
          /\ UNCHANGED <<pc, up>>
       \/ /\ "fail" \in send(fd) \/ ~Registered(kq, fd, EVFILT_READ)
          /\ Exit("removeEvent")
       \/ "SIGPIPE" \in send(fd) /\ Exit("SIGPIPE")
    /\ UNCHANGED <<backlog, inbuf, clientVars, proc>>

\* "if (event == nullptr) continue"
Idle ==
    /\ up = "up" /\ pc = "process" /\ ~Expired
    /\ kq.polled = None
    /\ pc' = "poll"
    /\ UNCHANGED <<kq, conn, kernelVars, backlog, inbuf, clientVars, got, proc, up>>

\* processEvents dispatches on the type found through the udata.
Event(type) ==
    /\ up = "up" /\ pc = "process" /\ ~Expired
    /\ kq.polled # None /\ kq.polled.info.type = type

Fd      == kq.polled.fd
Srv     == kq.polled.info.srv
CgiTo   == kq.polled.info.client
Touched == updateLastActiveTime(Srv, Fd)

\* SERVER: accept, addConnection, addEvent.
connectClient ==
    /\ Event(SERVER)
    /\ LET s == Srv
           c == Head(backlog[s])
       IN \/ \E fd \in Fds :
                /\ Nth(fd, 0) /\ conn[s][fd] = None
                /\ sock' = [sock EXCEPT ![fd] = c]
                /\ conn' = Put(conn, s, fd, NewConnection)
                /\ kq' = Done(addEvent(kq, TRUE, fd, REQUEST, s, None))
                /\ backlog' = [backlog EXCEPT ![s] = Tail(@)]
                /\ pc' = "poll"
                /\ UNCHANGED <<pipe, peer, got, up>>
          \/ /\ \E fd \in Fds : Nth(fd, 0) /\ conn[s][fd] # None
             /\ Exit("exists") /\ UNCHANGED backlog
          \/ /\ Free = {} \/ peer[c] = "rst"
             /\ Exit("accept") /\ UNCHANGED backlog
    /\ UNCHANGED <<inbuf, clientVars, proc>>

(* REQUEST: handleRequest. recv returns data, the end of the stream or an error. *)

HasData == sock[Fd] # None /\ inbuf[sock[Fd]] # <<>>

\* recv takes at most 1024 bytes: the first k segments of what has arrived.
recv(k) ==
    /\ Event(REQUEST) /\ HasData
    /\ k \in 1..Len(inbuf[sock[Fd]])
    /\ inbuf' = [inbuf EXCEPT ![sock[Fd]] = SubSeq(@, k + 1, Len(@))]

\* The Connection after addConnection, if it is missing, and appendRequestData.
Appended(k) ==
    LET c == IF Touched[Srv][Fd] = None THEN NewConnection ELSE Touched[Srv][Fd]
    IN  [c EXCEPT !.buf = @ \o SubSeq(inbuf[sock[Fd]], 1, k)]

\* getBodySize > client_max_body_size. Only a large request has a Content-Length
\* field, in its first segment, and the field is looked for in the whole buffer.
TooLarge(buf) == \E i \in DOMAIN buf : buf[i].kind = "large"

hasRequest(buf) == \E i \in DOMAIN buf : buf[i].last

\* The position of the segment that completes the first request.
RequestEnd(buf) ==
    CHOOSE i \in DOMAIN buf : buf[i].last /\ \A j \in DOMAIN buf : j < i => ~buf[j].last

\* A mutated form: the request is left in the buffer.
Uncut(c) == c

\* getRequest cuts one request off the buffer; the rest stays for a later recv.
Rest(c) == [c EXCEPT !.buf = SubSeq(@, RequestEnd(@) + 1, Len(@))]

Takes(k, kind) ==
    /\ recv(k)
    /\ hasRequest(Appended(k).buf) /\ ~TooLarge(Appended(k).buf)
    /\ Appended(k).buf[1].kind = kind

\* 413 before the buffer is looked at any further: it is never emptied again.
RequestTooLarge(k) ==
    /\ recv(k) /\ TooLarge(Appended(k).buf)
    /\ handleError(Put(conn, Srv, Fd, Appended(k)), Srv, Fd,
                   [code |-> 413, of |-> {Appended(k).buf[1].req}])
    /\ UNCHANGED <<backlog, clientVars, proc>>

RequestIncomplete(k) ==
    /\ recv(k) /\ ~hasRequest(Appended(k).buf) /\ ~TooLarge(Appended(k).buf)
    /\ conn' = Put(conn, Srv, Fd, Appended(k))
    /\ kq' = Done(kq) /\ pc' = "poll"
    /\ UNCHANGED <<kernelVars, backlog, clientVars, got, proc, up>>

\* dispatch returned a response: it is queued and the write event asked for.
RequestStatic(k) ==
    /\ Takes(k, "static")
    /\ LET c == Appended(k) IN
       conn' = Put(conn, Srv, Fd,
                   [Rest(c) EXCEPT !.queue = Append(@, [code |-> 200, of |-> {c.buf[1].req}])])
    /\ kq' = Done(addEvent(kq, Attaches(Fd, EVFILT_WRITE), Fd, RESPONSE, Srv, None))
    /\ pc' = "poll"
    /\ UNCHANGED <<kernelVars, backlog, clientVars, got, proc, up>>

\* dispatch threw: the router or the file handler refuses the request.
RequestRejected(k) ==
    /\ Takes(k, "fail")
    /\ handleError(Put(conn, Srv, Fd, Rest(Appended(k))), Srv, Fd,
                   [code |-> 404, of |-> {Appended(k).buf[1].req}])
    /\ UNCHANGED <<backlog, clientVars, proc>>

\* CgiExecuter::run opens two pipes, forks, and keeps the read end of the second
\* one: of four new descriptors the third. CgiHandler registers it for the client.
RequestCgi(k) ==
    /\ Takes(k, "cgi")
    /\ LET c == Appended(k)
           o == c.buf[1].req
       IN \/ \E fd \in Fds :
                /\ Cardinality(Free) >= 4 /\ Nth(fd, 2)
                /\ pipe' = [pipe EXCEPT ![fd] = o]
                /\ proc' = [proc EXCEPT ![o].st = "run"]
                /\ conn' = Put(conn, Srv, Fd, Rest(c))
                /\ kq' = Done(addEvent(kq, TRUE, fd, CGI_RESPONSE, Srv, Fd))
                /\ pc' = "poll"
                /\ UNCHANGED <<sock, peer, got, up>>
          \/ Cardinality(Free) < 4 /\ Exit("pipe") /\ UNCHANGED proc
    /\ UNCHANGED <<backlog, clientVars>>

\* recv returned 0: the client has ended its stream.
RequestEof ==
    /\ Event(REQUEST) /\ ~HasData
    /\ sock[Fd] # None /\ peer[sock[Fd]] \in {"fin", "dead"}
    /\ closeConnection(conn, Srv, Fd)
    /\ pc' = "poll"
    /\ UNCHANGED <<backlog, inbuf, clientVars, got, proc, up>>

\* recv returned -1, for a reset, which it reports once, or because the timeout has
\* just closed the descriptor: CLOSE is returned and nothing is done about it.
RequestError ==
    /\ Event(REQUEST) /\ ~HasData
    /\ sock[Fd] # None => peer[sock[Fd]] = "rst"
    /\ peer' = [c \in Clients |-> IF sock[Fd] = c THEN "dead" ELSE peer[c]]
    /\ conn' = Touched /\ kq' = Done(kq) /\ pc' = "poll"
    /\ UNCHANGED <<sock, pipe, backlog, inbuf, clientVars, got, proc, up>>

(* RESPONSE: handleResponse, and removeEvent once a response has been sent. *)

\* A mutated form: the latest response first.
popLast(queue) == [response |-> queue[Len(queue)], rest |-> SubSeq(queue, 1, Len(queue) - 1)]

\* popResponse: std::queue, first in, first out.
popResponse(queue) == [response |-> Head(queue), rest |-> Tail(queue)]

HasResponse == conn[Srv][Fd] # None /\ conn[Srv][Fd].queue # <<>>

SendResponse ==
    /\ Event(RESPONSE) /\ HasResponse
    /\ \/ /\ "ok" \in send(Fd) /\ Registered(kq, Fd, EVFILT_WRITE)
          /\ got' = Delivered(Fd, popResponse(conn[Srv][Fd].queue).response)
          /\ conn' = [Touched EXCEPT ![Srv][Fd].queue = popResponse(@).rest]
          /\ kq' = Done(removeEvent(kq, Fd, EVFILT_WRITE))
          /\ pc' = "poll" /\ UNCHANGED <<kernelVars, up>>
       \/ /\ "fail" \in send(Fd) \/ ~Registered(kq, Fd, EVFILT_WRITE)
          /\ Exit("removeEvent")
       \/ "SIGPIPE" \in send(Fd) /\ Exit("SIGPIPE")
    /\ UNCHANGED <<backlog, inbuf, clientVars, proc>>

\* InternalServerError is thrown past removeEvent: the write event stays.
NoResponse ==
    /\ Event(RESPONSE) /\ ~HasResponse
    /\ handleError(Touched, Srv, Fd, [code |-> 500, of |-> {}])
    /\ UNCHANGED <<backlog, inbuf, clientVars, proc>>

(* CGI_RESPONSE: handleCgiResponse, for the client the event was registered with. *)

CgiData ==
    /\ Event(CGI_RESPONSE)
    /\ pipe[Fd] # None /\ proc[pipe[Fd]].unread
    /\ proc' = [proc EXCEPT ![pipe[Fd]].unread = FALSE]
    /\ conn' = IF Touched[Srv][CgiTo] = None THEN Touched
               ELSE [Touched EXCEPT ![Srv][CgiTo].cgi[Fd] = @ \cup {pipe[Fd]}]
    /\ kq' = Done(kq) /\ pc' = "poll"
    /\ UNCHANGED <<kernelVars, backlog, inbuf, clientVars, got, up>>

\* A mutated form: the buffer is popped and no response made of it.
FinishedEmpty(cn) ==
    IF cn[Srv][CgiTo] = None THEN cn ELSE [cn EXCEPT ![Srv][CgiTo].cgi[Fd] = {}]

\* appendCgiBuffer(.., true): the buffer of the pipe is popped and, unless it is
\* empty, becomes a response.
Finished(cn) ==
    LET c == cn[Srv][CgiTo] IN
    IF c = None THEN cn
    ELSE Put(cn, Srv, CgiTo,
             [c EXCEPT !.cgi[Fd] = {},
                       !.queue = IF c.cgi[Fd] = {} THEN @
                                 ELSE Append(@, [code |-> 200, of |-> c.cgi[Fd]])])

CgiEof ==
    /\ Event(CGI_RESPONSE)
    /\ pipe[Fd] # None => ~proc[pipe[Fd]].unread /\ proc[pipe[Fd]].st = "exit"
    /\ conn' = Finished(Touched)
    /\ LET q == addEvent(kq, Attaches(CgiTo, EVFILT_WRITE), CgiTo, RESPONSE, Srv, None)
       IN  IF Registered(q, Fd, EVFILT_READ)
           THEN close(Fd, Done(removeEvent(q, Fd, EVFILT_READ))) /\ pc' = "poll" /\ UNCHANGED up
           ELSE up' = "removeEvent" /\ UNCHANGED <<kq, kernelVars, pc>>
    /\ UNCHANGED <<backlog, inbuf, clientVars, got, proc>>

Server ==
    \/ Poll \/ Idle
    \/ \E s \in Servers, fd \in Fds : validateLastActiveTime(s, fd)
    \/ connectClient
    \/ \E k \in 1..(2 * MaxReq) :
          \/ RequestTooLarge(k) \/ RequestIncomplete(k) \/ RequestStatic(k)
          \/ RequestRejected(k) \/ RequestCgi(k)
    \/ RequestEof \/ RequestError
    \/ SendResponse \/ NoResponse
    \/ CgiData \/ CgiEof

-----------------------------------------------------------------------------
(* The environment: clients, CGI processes and the clock. Once the server process *)
(* has ended there is nothing left to observe, and it stops too.                   *)

serverState == <<kq, conn, sock, pipe, pc, up>>

Whole(c)       == IF half[c] THEN Len(sent[c]) - 1 ELSE Len(sent[c])
Answered(c)    == UNION {got[c][i].of : i \in DOMAIN got[c]}
Outstanding(c) == \E n \in 1..Whole(c) : <<c, n>> \notin Answered(c)

\* The kernel completes the handshake before the server calls accept.
Connect(c) ==
    /\ up = "up" /\ peer[c] = "none"
    /\ peer' = [peer EXCEPT ![c] = "open"]
    /\ backlog' = [backlog EXCEPT ![Home[c]] = Append(@, c)]
    /\ UNCHANGED <<serverState, inbuf, clientVars, got, proc>>

Arrive(c, kind, last) ==
    inbuf' = [inbuf EXCEPT ![c] =
                Append(@, [req |-> <<c, Len(sent'[c])>>, kind |-> kind, last |-> last])]

SendRequest(c, kind, whole) ==
    /\ up = "up" /\ peer[c] = "open" /\ ~half[c]
    /\ Len(sent[c]) < MaxReq
    /\ Outstanding(c) => "pipelining" \in Env
    /\ ~whole => "splitting" \in Env
    /\ sent' = [sent EXCEPT ![c] = Append(@, kind)]
    /\ half' = [half EXCEPT ![c] = ~whole]
    /\ Arrive(c, kind, whole)
    /\ UNCHANGED <<serverState, peer, backlog, got, proc>>

SendRemainder(c) ==
    /\ up = "up" /\ peer[c] = "open" /\ half[c]
    /\ half' = [half EXCEPT ![c] = FALSE]
    /\ UNCHANGED sent
    /\ Arrive(c, sent[c][Len(sent[c])], TRUE)
    /\ UNCHANGED <<serverState, peer, backlog, got, proc>>

\* shutdown(SHUT_WR): the client still reads.
Leave(c) ==
    /\ up = "up" /\ peer[c] = "open"
    /\ Outstanding(c) => "impatient" \in Env
    /\ peer' = [peer EXCEPT ![c] = "fin"]
    /\ UNCHANGED <<serverState, backlog, inbuf, clientVars, got, proc>>

Reset(c) ==
    /\ up = "up" /\ "reset" \in Env /\ peer[c] \in {"open", "fin"}
    /\ peer' = [peer EXCEPT ![c] = "rst"]
    /\ UNCHANGED <<serverState, backlog, inbuf, clientVars, got, proc>>

\* A process whose output nobody reads dies of the write.
CgiWrite(o) ==
    /\ up = "up" /\ proc[o].st = "run" /\ proc[o].wrote < MaxOut
    /\ proc' = [proc EXCEPT ![o] =
                  IF \E fd \in Fds : pipe[fd] = o
                  THEN [st |-> "run", unread |-> TRUE, wrote |-> proc[o].wrote + 1]
                  ELSE [@ EXCEPT !.st = "exit"]]
    /\ UNCHANGED <<serverState, peer, backlog, inbuf, clientVars, got>>

CgiExit(o) ==
    /\ up = "up" /\ proc[o].st = "run"
    /\ proc[o].wrote > 0 \/ "silent" \in Env
    /\ proc' = [proc EXCEPT ![o].st = "exit"]
    /\ UNCHANGED <<serverState, peer, backlog, inbuf, clientVars, got>>

\* execlp failed: the child is still inside the handler of the parent's start(). It
\* sends 500 on the inherited socket, logs to its stdout, the pipe, and then ends,
\* for its next kevent fails.
CgiExecFails(o) ==
    /\ "execFails" \in Env
    /\ up = "up" /\ proc[o].st = "run" /\ proc[o].wrote = 0
    /\ proc' = [proc EXCEPT ![o] = [st |-> "exit", unread |-> TRUE, wrote |-> 1]]
    /\ got' = [got EXCEPT ![o[1]] =
                 IF peer[o[1]] \in {"open", "fin"} /\ Len(@) < MaxLog
                 THEN Append(@, [code |-> 500, of |-> {o}]) ELSE @]
    /\ UNCHANGED <<serverState, peer, backlog, inbuf, clientVars>>

\* One second. Time passes while the loop waits; without "slow" no connection with
\* an unanswered request grows older than the timeout allows.
Tick ==
    /\ up = "up" /\ pc = "poll"
    /\ \E s \in Servers, fd \in Fds : conn[s][fd] # None /\ conn[s][fd].age <= Limit
    /\ "slow" \notin Env =>
          \A s \in Servers, fd \in Fds :
             conn[s][fd] # None /\ sock[fd] # None /\ Outstanding(sock[fd]) =>
                conn[s][fd].age < Limit
    /\ conn' = [s \in Servers |-> [fd \in Fds |->
                  IF conn[s][fd] # None /\ conn[s][fd].age <= Limit
                  THEN [conn[s][fd] EXCEPT !.age = @ + 1] ELSE conn[s][fd]]]
    /\ UNCHANGED <<kq, kernelVars, backlog, inbuf, clientVars, got, proc, pc, up>>

Client(c) ==
    \/ Connect(c) \/ SendRemainder(c) \/ Leave(c) \/ Reset(c)
    \/ \E kind \in Kinds, whole \in BOOLEAN : SendRequest(c, kind, whole)

Cgi(o) == CgiWrite(o) \/ CgiExit(o) \/ CgiExecFails(o)

\* dependencyInjection: every listening socket is registered, nothing else is open.
Init ==
    /\ kq = [EmptyRegistry EXCEPT
               !.infos = {<<s, SERVER>> : s \in Servers},
               !.knote = [n \in Descriptors \X Filters |->
                            IF n[1] \in Servers /\ n[2] = EVFILT_READ
                            THEN [type |-> SERVER, srv |-> n[1], client |-> None, live |-> TRUE]
                            ELSE None]]
    /\ conn = [s \in Servers |-> [fd \in Fds |-> None]]
    /\ sock = [fd \in Fds |-> None]
    /\ pipe = [fd \in Fds |-> None]
    /\ backlog = [s \in Servers |-> <<>>]
    /\ peer = [c \in Clients |-> "none"]
    /\ inbuf = [c \in Clients |-> <<>>]
    /\ sent = [c \in Clients |-> <<>>]
    /\ half = [c \in Clients |-> FALSE]
    /\ got = [c \in Clients |-> <<>>]
    /\ proc = [o \in Origins |-> [st |-> "none", unread |-> FALSE, wrote |-> 0]]
    /\ pc = "poll"
    /\ up = "up"

Next ==
    \/ Server
    \/ \E c \in Clients : Client(c)
    \/ \E o \in Origins : Cgi(o)
    \/ Tick

Spec == Init /\ [][Next]_vars

\* The loop never stops by itself, a CGI process ends, and time passes while the loop
\* waits, though it waits only now and then: hence SF. Clients owe nothing.
Fairness ==
    /\ WF_vars(Server)
    /\ \A o \in Origins : WF_vars(CgiWrite(o)) /\ WF_vars(CgiExit(o))
    /\ SF_vars(Tick)

FairSpec == Spec /\ Fairness

-----------------------------------------------------------------------------
(* Properties. *)

\* Every udata that is registered, polled or being followed points at an allocated
\* object of the right kind. addEvent and removeEvent delete objects (Kqueue.cpp:52,
\* :77, :102) while processEvents still reads eventInfo (Webserver.cpp:59, :66, :88).
UdataLive == NoDangling(kq)

\* A descriptor in use is one thing only, and whatever is open is watched: an
\* accepted socket has its REQUEST event with its own server, and a CGI pipe its
\* CGI_RESPONSE event. Otherwise a client or a process is never heard of again and
\* the descriptor leaks (Webserver.cpp:16, CgiHandler.cpp:28, Kqueue.cpp:91).
OpenIsWatched ==
    \A fd \in Fds :
       LET k == kq.knote[<<fd, EVFILT_READ>>] IN
       /\ sock[fd] # None => /\ pipe[fd] = None
                            /\ k # None /\ k.type = REQUEST /\ k.srv = Home[sock[fd]]
       /\ pipe[fd] # None => k # None /\ k.type = CGI_RESPONSE
       /\ sock[fd] = None /\ pipe[fd] = None => k = None /\ kq.knote[<<fd, EVFILT_WRITE>>] = None

\* connections_ holds an entry for every accepted socket of the server and no other:
\* close() and removeConnection always go together (Server.cpp:146-150,
\* Servers.cpp:14-19, Connections.cpp:39-44).
ConnIffSocket ==
    \A s \in Servers, fd \in Fds :
       conn[s][fd] # None <=> sock[fd] # None /\ Home[sock[fd]] = s

\* The blocking recv and read are called only when they return at once: an event
\* polled before the timeouts were handled is not stale (Webserver.cpp:76-84).
NeverBlocks ==
    (up = "up" /\ pc = "process" /\ kq.polled # None) =>
       LET fd == kq.polled.fd
           t  == kq.polled.info.type
       IN  /\ t = REQUEST /\ sock[fd] # None => Readable(fd)
           /\ t = CGI_RESPONSE => pipe[fd] # None /\ Readable(fd)
           /\ t = SERVER => backlog[fd] # <<>>

\* The process ends only over a connection its client has reset or for want of
\* descriptors; no order of events makes addConnection or removeEvent throw
\* (Connections.cpp:41, Kqueue.cpp:96).
EndsOnlyFor ==
    /\ up # "exists"
    /\ up \in {"removeEvent", "SIGPIPE"} => \E c \in Clients : peer[c] \in {"rst", "dead"}
    /\ up \in {"accept", "pipe"} => Cardinality(Free) < 4 \/ \E c \in Clients : peer[c] = "rst"

\* The output of a CGI process and the content of a static resource are delivered at
\* most once, however requests are split, joined and overtaken (Connection.cpp:90-127,
\* Responses.cpp:21-37).
Deliveries(o) ==
    {d \in Clients \X (1..MaxLog) :
        d[2] <= Len(got[d[1]]) /\ got[d[1]][d[2]].code = 200 /\ o \in got[d[1]][d[2]].of}

AnsweredOnce == \A o \in Origins : Cardinality(Deliveries(o)) <= 1

\* Static resources arrive in the order in which they were asked for
\* (Server.cpp:56-62, Responses.cpp:13-25).
StaticInOrder ==
    \A c \in Clients : \A i, j \in DOMAIN got[c] : \A m, n \in DOMAIN sent[c] :
       /\ i < j /\ sent[c][m] = "static" /\ sent[c][n] = "static"
       /\ got[c][i] = [code |-> 200, of |-> {<<c, m>>}]
       /\ got[c][j] = [code |-> 200, of |-> {<<c, n>>}]
       => m < n

\* Nothing is sent to a client after its 408: validateLastActiveTime leaves nothing
\* behind that a later event could answer on (Servers.cpp:12-22, Server.cpp:32-38).
SilentAfterTimeout ==
    [][\A c \in Clients : (\E i \in DOMAIN got[c] : got[c][i].code = 408) => got'[c] = got[c]]_vars

(* With patient clients: those that wait for each answer, stay until it has come  *)
(* and never reset, and CGI programs that answer within the timeout.              *)

\* On a server's own socket the write event is registered exactly while a response
\* is queued: else the response is stuck or the loop spins on a 500 that changes
\* nothing (Server.cpp:61, :109, :133; Webserver.cpp:61-62).
EventIffResponse ==
    \A fd \in Fds : sock[fd] # None =>
       (Registered(kq, fd, EVFILT_WRITE) <=> conn[Home[sock[fd]]][fd].queue # <<>>)

\* The descriptor number kept in the event of a CGI pipe is still the socket of the
\* client that asked (CgiHandler.cpp:28, Server.cpp:132-141).
CgiTargetsOwner ==
    \A fd \in Fds : pipe[fd] # None =>
       sock[kq.knote[<<fd, EVFILT_READ>>].client] = pipe[fd][1]

\* When the loop goes to sleep, nothing is left that it would have to do for a client
\* by itself: no complete request in a buffer and no response without an event
\* (Server.cpp:56-65).
NothingLeftWaiting ==
    (pc = "poll" /\ \A n \in Descriptors \X Filters : ~Ready(n)) =>
       \A s \in Servers, fd \in Fds : conn[s][fd] # None =>
          /\ \A i \in DOMAIN conn[s][fd].buf : ~conn[s][fd].buf[i].last
          /\ conn[s][fd].queue = <<>>

\* Nothing ends the server process (main.cpp:69).
StaysUp == up = "up"

\* The responses that answer a request: all but the 408 that ends a connection.
Replies(c) ==
    IF got[c] # <<>> /\ got[c][Len(got[c])].of = {} THEN Len(got[c]) - 1 ELSE Len(got[c])

\* The promise of HttpService. A connection is over for its client when the server
\* has closed it or when the client, having all its answers, has left.
Service == INSTANCE HttpService WITH
    asked   <- [c \in Clients |-> Whole(c)],
    answers <- [c \in Clients |-> [i \in 1..Replies(c) |-> got[c][i].of]],
    ended   <- [c \in Clients |-> peer[c] \in {"fin", "closed"}]

ServicePromise == Service!Service

(* What comments and assertions of the code say, and impatient clients refute. *)

\* "Store the CGI response in the connection object" (Server.cpp:139): a client is
\* sent what its own requests asked for and nothing else.
OwnOutputOnly ==
    \A c \in Clients : \A i \in DOMAIN got[c] : got[c][i].of \subseteq {c} \X (1..MaxReq)

\* "No response found for client FD" (Server.cpp:111) is thrown for an event that
\* should not be there: RESPONSE is registered for a response that was queued.
ResponseEventHasResponse ==
    (up = "up" /\ pc = "process" /\ kq.polled # None /\ kq.polled.info.type = RESPONSE) =>
       conn[Srv][Fd] = None \/ conn[Srv][Fd].queue # <<>>

\* "Failed to remove FD from kqueue" (Kqueue.cpp:96) is never thrown.
RemoveEventSucceeds == up # "removeEvent"

\* Every connection is given up in the end, with its pipes: the timeout reaches each
\* client that falls silent and no descriptor is leaked (Servers.cpp:12-22).
DescriptorsReturn == <>[](Free = Fds)
=============================================================================
