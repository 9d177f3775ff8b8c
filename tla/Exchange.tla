---------------------------------- MODULE Exchange ----------------------------------
(***************************************************************************)
(* One connection byte by byte: a client's requests, the buffer they are   *)
(* cut from (Framing), the bodies handed to CGI processes (CgiPipe), their *)
(* output and the responses. Webserver models what goes on around this:    *)
(* many connections, descriptors, timeouts, disconnections.                *)
(***************************************************************************)
EXTENDS Framing, CgiPipe, SequencesExt

CONSTANTS
    Requests,              \* what a client may send
    MaxReq,                \* bound: the requests it sends
    MaxGot,                \* bound: responses recorded, later ones are dropped
    client_max_body_size

\* A program, or a static resource; the size of the body; whether that is announced.
Request == [kind: Programs \cup {"static"}, size: Nat, field: BOOLEAN]

ASSUME ExchangeAssumption ==
    /\ \A r \in Requests : r \in Request /\ (r.size > 0 => r.field)
    /\ MaxReq \in Nat /\ MaxGot \in Nat /\ client_max_body_size \in Nat \ {0}
    /\ Runs = 1..MaxReq

Texts    == Seq(Token \cup {Banner})
Response == [code: {200, 400, 413}, of: Runs, body: Texts]

VARIABLES
    sent,     \* the requests a client has sent, and whether it had waited before each
    arrived,  \* what the kernel received and recv has not taken
    buf,      \* originalRequest_
    taken,    \* what getRequest returned, one after the other
    cgiBuf,   \* the CgiBuffer of each run
    queue,    \* the queue of responses
    got,      \* the responses the client received
    pc,       \* where handleRequest is: "process" after recv, "dispatch" after getRequest
    up        \* "up", or what ended the server process

vars == <<sent, arrived, buf, taken, cgiBuf, queue, got, pc, up, pipeVars>>

TypeOK ==
    /\ PipeTypeOK
    /\ sent \in Seq([req: Requests, waited: BOOLEAN])
    /\ arrived \in Seq(Token) /\ buf \in Seq(Token) /\ taken \in Seq(Seq(Token))
    /\ cgiBuf \in [Runs -> Texts]
    /\ queue \in Seq(Response) /\ got \in Seq(Response)
    /\ pc \in {"loop", "process", "dispatch"}
    /\ up \in {"up", "getRequest", "SIGPIPE"}

-----------------------------------------------------------------------------
(* The client. *)

Tok(t, n, v) == [t |-> t, of |-> n, v |-> v]

Body(n, size) == [i \in 1..size |-> Tok("byte", n, i)]

\* Request n as it is sent.
Text(n, r) ==
    <<Tok("line", n, 0)>>
    \o (IF r.field THEN <<Tok("CRLF", n, 0), Tok("CL", n, 0), Tok("num", n, r.size)>> ELSE <<>>)
    \o <<Tok("CRLF", n, 0), Tok("CRLF", n, 0)>>
    \o Body(n, r.size)

\* Bytes has what requests consist of, and size_t counts whatever a client sends.
ASSUME StreamAssumption ==
    /\ Bytes \subseteq Token
    /\ \A n \in Runs, r \in Requests :
          Text(n, r) \in Seq(Bytes) /\ (MaxReq + 1) * Len(Text(n, r)) < SizeModulus

Answered(n) == \E i \in DOMAIN got : got[i].of = n
Waited      == \A n \in DOMAIN sent : Answered(n)

\* The next request may be sent before the last is answered.
Send(r) ==
    /\ up = "up" /\ Len(sent) < MaxReq
    /\ sent' = Append(sent, [req |-> r, waited |-> Waited])
    /\ arrived' = arrived \o Text(Len(sent) + 1, r)
    /\ UNCHANGED <<buf, taken, cgiBuf, queue, got, pc, up, pipeVars>>

-----------------------------------------------------------------------------
(* The responses, as Server::sendResponse sends them. *)

\* The program's output is preceded by an empty line of its own.
CgiResponse(r) == [r EXCEPT !.body = <<Tok("CRLF", r.of, 0)>> \o @]

\* What a static resource or an error page contains is left out: only output has a body.
getResponse(r) == IF r.body = <<>> THEN r ELSE CgiResponse(r)

\* A mutated form: the status is not set.
noStatus(code, n) == [code |-> 0, of |-> n, body |-> <<>>]

\* handleError for a request that is not answered otherwise.
errorResponse(code, n) == [code |-> code, of |-> n, body |-> <<>>]

Sent(r) == IF Len(got) < MaxGot THEN Append(got, getResponse(r)) ELSE got

-----------------------------------------------------------------------------
(* The event loop, while run() does not keep it. *)

Looping == up = "up" /\ pc = "loop" /\ writing.run = 0

\* handleRequest: recv returns some of what has arrived, and it is appended.
Receive(k) ==
    /\ Looping /\ k \in 1..Len(arrived)
    /\ buf' = buf \o SubSeq(arrived, 1, k)
    /\ arrived' = SubSeq(arrived, k + 1, Len(arrived))
    /\ pc' = "process"
    /\ UNCHANGED <<sent, taken, cgiBuf, queue, got, up, pipeVars>>

\* processClientData goes on with what is in the buffer now.
Processing(next) ==
    /\ up = "up" /\ pc = "process" /\ pc' = next
    /\ UNCHANGED <<sent, arrived, cgiBuf>>

\* A mutated form: a body of the size allowed is refused too.
TooLargeAtLimit == client_max_body_size <= getBodySize(buf)

TooLarge == client_max_body_size < getBodySize(buf)

\* RequestEntityTooLargeError: 413 at once, to the request whose bytes came last. The
\* buffer stays as it is, so that what comes later finds the same body in it.
RequestTooLarge ==
    /\ Processing("loop") /\ TooLarge
    /\ got' = Sent(errorResponse(413, Last(buf).of))
    /\ UNCHANGED <<buf, taken, queue, up, pipeVars>>

RequestIncomplete ==
    /\ Processing("loop") /\ ~TooLarge /\ ~hasRequest(buf)
    /\ UNCHANGED <<buf, taken, queue, got, up, pipeVars>>

\* A runtime_error of getRequest is no HttpException and leaves start().
GetRequestThrows ==
    /\ Processing("loop") /\ ~TooLarge /\ hasRequest(buf) /\ getRequestThrows(buf)
    /\ up' = "getRequest"
    /\ UNCHANGED <<buf, taken, queue, got, pipeVars>>

TakeRequest ==
    /\ Processing("dispatch") /\ ~TooLarge /\ hasRequest(buf) /\ ~getRequestThrows(buf)
    /\ buf' = remainder(buf)
    /\ taken' = Append(taken, getRequest(buf))
    /\ UNCHANGED <<queue, got, up, pipeVars>>

\* parseRequestHeader and dispatch; a request is known by its first token.
request == Last(taken)
Kind    == sent[request[1].of].req.kind

Dispatching ==
    /\ up = "up" /\ pc = "dispatch" /\ pc' = "loop"
    /\ UNCHANGED <<sent, arrived, buf, taken, cgiBuf, up>>

BadRequest ==
    /\ Dispatching /\ badRequestLine(request)
    /\ got' = Sent(errorResponse(400, request[1].of))
    /\ UNCHANGED <<queue, pipeVars>>

RequestStatic ==
    /\ Dispatching /\ ~badRequestLine(request) /\ Kind = "static"
    /\ queue' = Append(queue, [code |-> 200, of |-> request[1].of, body |-> <<>>])
    /\ UNCHANGED <<got, pipeVars>>

RequestCgi ==
    /\ Dispatching /\ ~badRequestLine(request) /\ Kind \in Programs
    /\ run(request[1].of, Kind, requestBody(request))
    /\ UNCHANGED <<queue, got>>

\* handleCgiResponse: read returns some output, or the end of the pipe.
CgiData(n, k) ==
    /\ Looping /\ stdout[n].open /\ k \in 1..Len(stdout[n].data)
    /\ cgiBuf' = [cgiBuf EXCEPT ![n] = @ \o SubSeq(stdout[n].data, 1, k)]
    /\ stdout' = [stdout EXCEPT ![n] = Drop(@, k)]
    /\ UNCHANGED <<sent, arrived, buf, taken, queue, got, pc, up, child, stdin, writing>>

CgiEof(n) ==
    /\ Looping /\ stdout[n].open /\ stdout[n].data = <<>> /\ child[n].st = "exit"
    /\ queue' = IF cgiBuf[n] = <<>> THEN queue
                ELSE Append(queue, [code |-> 200, of |-> n, body |-> cgiBuf[n]])
    /\ cgiBuf' = [cgiBuf EXCEPT ![n] = <<>>]
    /\ stdout' = [stdout EXCEPT ![n].open = FALSE]
    /\ UNCHANGED <<sent, arrived, buf, taken, got, pc, up, child, stdin, writing>>

SendResponse ==
    /\ Looping /\ queue # <<>>
    /\ got' = Sent(Head(queue))
    /\ queue' = Tail(queue)
    /\ UNCHANGED <<sent, arrived, buf, taken, cgiBuf, pc, up, pipeVars>>

\* What goes on inside run().
Run ==
    /\ up = "up"
    /\ \/ (writeBody \/ returnFromRun) /\ UNCHANGED up
       \/ Broken /\ up' = "SIGPIPE" /\ UNCHANGED pipeVars
    /\ UNCHANGED <<sent, arrived, buf, taken, cgiBuf, queue, got, pc>>

Server ==
    \/ \E k \in 1..Len(arrived) : Receive(k)
    \/ RequestTooLarge \/ RequestIncomplete \/ GetRequestThrows \/ TakeRequest
    \/ BadRequest \/ RequestStatic \/ RequestCgi
    \/ \E n \in Runs : CgiEof(n) \/ \E k \in 1..Capacity : CgiData(n, k)
    \/ SendResponse \/ Run

Cgi(n) ==
    /\ up = "up" /\ Process(n)
    /\ UNCHANGED <<sent, arrived, buf, taken, cgiBuf, queue, got, pc, up>>

Init ==
    /\ sent = <<>> /\ arrived = <<>> /\ buf = <<>> /\ taken = <<>>
    /\ cgiBuf = [n \in Runs |-> <<>>] /\ queue = <<>> /\ got = <<>>
    /\ pc = "loop" /\ up = "up" /\ PipeInit

Next == Server \/ (\E n \in Runs : Cgi(n)) \/ (\E r \in Requests : Send(r))

Spec == Init /\ [][Next]_vars

\* The loop runs, write returns when it can, and programs do what they have to do.
FairSpec == Spec /\ WF_vars(Server) /\ \A n \in Runs : WF_vars(Cgi(n))
-----------------------------------------------------------------------------
(* Properties. *)

\* The field of a request that was not waited for is taken for that of an earlier one
\* which has none (Connection.cpp:33, :61, :103). Up to request n this did not happen.
Delimited(n) ==
    \A m \in 1..n : \/ m >= Len(sent) \/ sent[m].req.field \/ sent[m + 1].waited
                   \/ \A j \in (m + 1)..Len(sent) : ~sent[j].req.field

\* getRequest returns the requests that were sent, each whole, once and in order, as
\* long as they are delimited; and in any case neither recv nor the buffer loses,
\* repeats or reorders a byte, however the stream is split and joined
\* (Connection.cpp:90-127, Server.cpp:50).
TakenAsSent ==
    /\ \A n \in DOMAIN taken : Delimited(n) => taken[n] = Text(n, sent[n].req)
    /\ FlattenSeq(taken) \o buf \o arrived = FlattenSeq([n \in DOMAIN sent |-> Text(n, sent[n].req)])

\* client_max_body_size is enforced: no request with a larger body is ever taken. And
\* 413 is answered to such a request or to one sent after it, with every request before
\* it taken at most: it stays where it is and is never passed over (Server.cpp:52-54).
LimitKept ==
    /\ \A n \in DOMAIN taken : Delimited(n) => sent[n].req.size <= client_max_body_size
    /\ \A i \in DOMAIN got : got[i].code = 413 /\ Delimited(got[i].of) =>
          \E m \in 1..got[i].of :
             m > Len(taken) /\ sent[m].req.size > client_max_body_size

\* What a client gets back from a program that repeats its input is the body it has
\* sent, through the buffer, the parser, both pipes and the CgiBuffer, even if too
\* much was cut off with it; it can be cut short only if the pipe could not hold it
\* and another child ended meanwhile
\* (CgiExecuter.cpp:41, requestParser.cpp:61-64, Server.cpp:139-141, Responses.cpp:27-37).
Repeated(n, output) ==
    LET r == sent[n].req
        whole == <<Tok("CRLF", n, 0), Banner>> \o Body(n, r.size)
    IN  /\ IsPrefix(output, whole)
        /\ \/ output = whole
           \/ r.size > Capacity /\ \E m \in Runs \ {n} : child[m].st = "exit"

BodyComesBack ==
    \A i \in DOMAIN got :
       got[i].code = 200 /\ sent[got[i].of].req.kind \in {"echo", "gather"}
       => Repeated(got[i].of, got[i].body)

\* Server and child wait for each other only if body and output together exceed what
\* the two pipes hold, and never if the program reads its input first
\* (CgiExecuter.cpp:41-44).
WaitsOnlyBeyondCapacity ==
    MutualWait =>
       LET r == sent[writing.run].req IN
       \/ r.kind = "echo" /\ r.size > 2 * Capacity
       \/ r.kind = "blind" /\ r.size > Capacity /\ Chatter > Capacity

\* The process ends only over a program that leaves its body unread, or over a field
\* cut off in the middle and taken for an earlier request's (CgiExecuter.cpp:41,
\* Connection.cpp:111-117).
EndsOnlyFor ==
    /\ up = "getRequest" => ~Delimited(Len(taken) + 1)
    /\ up = "SIGPIPE" => sent[writing.run].req.kind = "blind" /\ sent[writing.run].req.size > 0

\* A client that waits for each answer gets one to every request, unless one was too
\* large, the process ended or the pipes are stuck beyond their capacity: run() and
\* its write return, every program sees the end of its input, and its output becomes
\* a response (CgiExecuter.cpp:42, Server.cpp:130-137).
EveryRequestAnswered ==
    \A n \in Runs :
       (n <= Len(sent) /\ \A m \in 1..n : m <= Len(sent) => sent[m].waited)
          ~> \/ Answered(n) \/ up # "up" \/ MutualWait
             \/ \E i \in DOMAIN got : got[i].code = 413
=============================================================================
