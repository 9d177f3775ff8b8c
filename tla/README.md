# A verification project for NotNginx

NotNginx (`src/`) is a single-threaded HTTP server built on kqueue: one event
loop accepts clients, receives requests, answers static resources from a queue,
hands other requests to CGI processes and gives up connections that fall silent.
This directory holds TLA+ modules that model it, the TLC runs that check them
and TLAPS proofs. Paths like `Server.cpp:56` are below `src/src/webserver/`
unless another directory is named.

## 1. Inventory

| Component | State | Operations | Talks to | Model |
|---|---|---|---|---|
| `Kqueue` | `eventInfoMap_`, the kernel's knotes | `addEvent` (two overloads), `removeEvent`, `pollEvents` | kernel | `Kqueue` |
| `Webserver` | the polled event | `start`, `processEvents`, four handlers | Kqueue, Servers | `Webserver` |
| `Servers`, `Server` | the servers and their listening sockets | accept, request, response, CGI response, timeout, errors | Connections, Kqueue, RequestHandler | `Webserver` |
| `Connections`, `Connection` | per descriptor: request buffer, response queue, last active time | append, `hasRequest`, `getBodySize`, `getRequest`, timeout | Responses | `Webserver`, `Framing`, `Exchange` |
| `Responses`, `CgiBuffer` | queue of responses, a buffer per CGI pipe | add, pop, append | - | `Webserver`, `Exchange` |
| `RequestHandler` | - | `dispatch` | Router, CgiHandler, StaticResourceHandler | `Webserver` (the outcome), `Routing` |
| `CgiHandler`, `CgiExecuter` | pipes and processes | `processCgiRequest`, `run`, `executeChild` | Kqueue, kernel | `Webserver`, `CgiPipe`, `Exchange` |
| `Router`, `StaticResourceHandler` | sorted locations | `routeRequest`, `execute` | file system | `Routing` |
| `Request`, `RequestParser` | - | `parseRequestHeader`, `parseUri` | - | `Routing`: method, target, 400; `Framing`: header, body, length |
| Response texts, `MimeTypes`, `ErrorPageGenerator` | - | formatting | - | `Exchange`: the line before CGI output; the rest is not modelled |
| `config_parser` | tokens, a tree of contexts | `parseConfig`, `deleteTree` | - | `Config` |
| `config_adapter`, `config` | the configuration objects | `convertToHTTPConfig` | config_parser | `Config` |
| `Socket` | the listening socket | bind, listen, accept | kernel | `Config` (an address each), `Webserver` (accept) |
| `main` | - | `initializeConfig`, `dependencyInjection` | everything | `Config`; exceptions that end the process in `Webserver` |

How they interact: everything after start-up happens inside `Webserver::start`.
It polls one event, handles all timeouts, and then follows the event's `udata`
to an `EventInfo` that says which handler and which server the descriptor
belongs to. Handlers share the registry, the descriptors and, through a CGI
event, each other's connections. An `HttpException` is answered and forgotten,
any other exception ends the process.

What is hard here: the `EventInfo` objects are freed by calls made while the
loop still uses one; a body is written to a program on the only thread; a
timeout runs between a poll and the handling of its event; descriptor numbers
are reused while events and CGI processes still name them; a failed send closes
the connection under its caller; requests arrive split and joined; responses of
three origins (queue, CGI, error) meet on one connection; a configuration with
one token too few or too many may still be accepted. `PROJECT.json` lists each
place under `hazards`.

What makes each part correct:

* Kqueue: a `udata` always points at an allocated object of the right kind.
* Webserver, Servers: an open descriptor is watched, a closed one is not; no
  read blocks; no order of events ends the process.
* Connections: an entry for exactly the accepted sockets; requests are cut off
  the buffer once each, as they were sent.
* Responses: first in, first out; the write event is registered exactly while a
  response is queued.
* CGI: output reaches the client that asked, once; pipes are closed in the end;
  a body reaches the program whole, and neither waits for the other for ever.
* Configuration: the servers that listen are those the file describes; a file
  that is not understood is reported.
* Router: the deepest location that covers a target decides, and the answer is
  what that location and the tree say.
* The whole: what `HttpService` promises a client that waits for its answers.

## 2. The modules

| Module | What it is |
|---|---|
| `Kqueue` | the registry as operators on one record: the map's keys, the knotes with the object each points at, the polled event, and the descriptors for which a deleted object was followed |
| `Webserver` | the loop and everything it drives, with clients, CGI processes, clock and descriptors as environment; all properties |
| `HttpService` | the abstract specification: ask, answer, end |
| `Routing` | from a complete request to its answer; in `Webserver` this is the kind of the request |
| `Framing` | `hasRequest`, `getBodySize`, `getRequest` and the split of header and body, as operators on a sequence of tokens |
| `CgiPipe` | the two pipes between the server and each CGI process, the programs behind them, the interrupted write |
| `Exchange` | one connection from `recv` to the responses: it composes `Framing` and `CgiPipe` |
| `Config` | from the tokens of a configuration file to listening sockets |
| `MCWebserver`, `MCRouting`, `MCExchange`, `MCConfig` | values of the constants for TLC |
| `RoutingProofs` | that the longest matching pattern decides, and when a directory is listed: two theorems |
| `WebserverProofs` | what each operator of `Kqueue` returns and preserves, the inductive invariant of `Webserver` and three theorems |
| `HandlerProofs` | what each handler does to entries, descriptors and to what clients received |
| `ConnectionProofs` | sockets, their clients, and the event the loop holds: five theorems |
| `AnswerProofs` | how segments of requests go from a client through a buffer to `dispatch`, and where an answer is until it is handed out: two theorems |
| `PatientProofs` | what clients can rely on that do not reset, that stay for their answers, and that ask one thing at a time, up to the safety of `HttpService`: nine theorems |
| `ExchangeProofs` | the stream of bytes, the pipes and the bodies: six theorems |
| `ConfigProofs` | the types of the configuration, the reading of a text and the servers that listen: three theorems |

**State and code.** `kq` is `Kqueue`; `conn[s][fd]` is the `Connection` in the
`connections_` of server `s` (`buf` is `originalRequest_`, `queue` and `cgi` are
`responses_`, `age` is the time since `lastActiveTime_` in seconds); `sock`,
`pipe`, `peer`, `inbuf` and `backlog` are the kernel's; `proc` are the CGI
processes; `sent`, `half` and `got` are what clients did and received; `pc` and
`up` are the position in `start` and the fate of the process.

**Actions and code.** A step of the server is a whole handler, since the loop is
single-threaded; clients, processes and the clock move between any two steps.

| Action | Code |
|---|---|
| `Poll`, `Idle` | `Webserver.cpp:76-79` |
| `validateLastActiveTime` | `Servers.cpp:12-22` and what it calls, one connection per step |
| `connectClient` | `Webserver.cpp:8-17`, `Server.cpp:26-30` |
| `RequestTooLarge`, `RequestIncomplete`, `RequestStatic`, `RequestRejected`, `RequestCgi` | `Server.cpp:80-91` with `:44-69`, by the outcome of `dispatch`, and the catch at `Webserver.cpp:85` |
| `RequestEof`, `RequestError` | `Server.cpp:92-100` |
| `SendResponse`, `NoResponse` | `Server.cpp:103-121`, `Webserver.cpp:59-63` |
| `CgiData`, `CgiEof` | `Server.cpp:123-143` |
| `Connect`, `SendRequest`, `SendRemainder`, `Leave`, `Reset` | a client |
| `CgiWrite`, `CgiExit`, `CgiExecFails` | a CGI process; a failed exec goes on in a copy of the loop (`CGI/CgiExecuter.cpp:57`) |
| `Tick` | `time(NULL)` |

`Routing` is the sequential computation inside `Request...`, one step of the
code at a time: `order` is `sortedLocations_`, `i` the loop's index, `request`
and `result` the objects passed on, `answer` what `dispatch` returns or throws.

| Action of `Routing` | Code |
|---|---|
| `parseRequestHeader`, `badRequest` | `request_parser/requestParser.cpp:23-76`, `:131-152`, `connection/Request.cpp:4-39` |
| `nextLocation`, `methodNotAllowed`, `redirect`, `notFound`, `plainFile`, `namedFile`, `directory` | `Router.cpp:82-154`, by the exit of the loop's body |
| `startCgi`, `execute` | `request_handler/RequestHandler.cpp:7-26`, `request_handler/StaticResourceHandler.cpp:10-88` |
| `receive` | the next request; the `Router` is built once |

`Exchange` looks at one connection where `Webserver` looks at many. A byte is a
token; `buf` is `originalRequest_`, `arrived` what `recv` has not returned,
`taken` what `getRequest` has, `pc` the place in `handleRequest`, `writing` the
`write` of `CgiExecuter::run`. While that sleeps no action of the loop is
enabled, but processes and the client go on.

| Action of `Exchange`, `CgiPipe` | Code |
|---|---|
| `Receive` | `Server.cpp:80-91`, `:50`: `recv` may return any part of what has arrived |
| `RequestTooLarge`, `RequestIncomplete`, `GetRequestThrows`, `TakeRequest` | `Server.cpp:52-69`, `connection/Connection.cpp:26-127` |
| `BadRequest`, `RequestStatic`, `RequestCgi` | `request_parser/requestParser.cpp:23-76`, `request_handler/RequestHandler.cpp:7-26`, `CGI/CgiExecuter.cpp:9-35` |
| `Run` (`writeBody`, `returnFromRun`, `Broken`) | `CGI/CgiExecuter.cpp:37-45`, one token per step |
| `CgiData`, `CgiEof`, `SendResponse` | `Server.cpp:103-143`, `connection/response/Responses.cpp:21-37` |
| `childRead`, `childWrite`, `childExit` | a CGI program; its end interrupts a sleeping write (`SIGCHLD`) |

`Config` is `main` before `start`: the recursion of `parseConfigRecursive` is
`stack`, the tree is `nodes` (each with the places of its children), `configs` and
`bound` are `HTTPConfig` and the sockets. The initial states are the text of a
file that somebody means (`file`) and every text that differs from it by one
slip: a token too few or too many, a semicolon lost or set apart.

| Action of `Config` | Code |
|---|---|
| `parseContext`, `parseBlock`, `parseDirective`, `returnFromBlock` | `config_parser/ConfigParser.cpp:37-142` |
| `noSuchToken`, `noOpeningBrace`, `noClosingBrace` | its exceptions, and the iterator read at the end (`:79`) |
| `parsed`, `deleteTree`, `getChildOfNull` | `ConfigParser.cpp:14-35`, `config_parser/IConfigContext.cpp:68-78`, `main.cpp:27` |
| `convert`, `convertThrows`, `converted` | `config_adapter/ConfigAdapter.cpp:4-135`, `config/ServerConfig.cpp:21-39` |
| `listenSocket`, `bindFails`, `start` | `main.cpp`, `Socket.cpp:5-40` |

The references of these modules are the requests as they were sent (`Text` of
`Exchange`) and what a file means, read off its structure without a parser
(`Meant` of `Config`). Undefined behaviour is the value `"undefined"` of `up`,
and where it may also go unnoticed (a double deletion, an iterator at the end of
the vector), a choice between that and going on.

In `Routing` strings are sequences of tokens: `"/"`, `"?"` and names that never
touch. This keeps what the code asks of strings (a prefix ended by a slash, the
last segment, a suffix) and leaves out characters inside a name. The reference
`AnswerTo` is written over segments and the tree, without prefixes, loops or
joined paths. `std::sort` is any order that the comparison allows.

**Abstractions.** A request is its client and number, a kind (what `dispatch`
will make of it) and one or two segments. `Env` names what the environment may
do, so that a run can ask about clients that behave. Responses fit into the
socket's buffer, so `send` either takes everything or fails. A failed `send` to
a reset connection is either -1 or `SIGPIPE`. Only the first event of the array
that `pollEvents` returns is used, as in the code; any ready event may be first.

## 3. Runs

Every run is of the MC module that is named with it; those without one are of
`MCWebserver`. There descriptor 4 is the listening socket, 5 and up are free.

| Run | What it asks |
|---|---|
| `Sharing` | two clients, one request each, all kinds, misbehaving clients and processes, output in up to two parts, few descriptors so that numbers are reused and run out: `TypeOK`, `UdataLive`, `OpenIsWatched`, `NeverBlocks` |
| `Pipelined` | one client, three requests, pipelined, split, reset, slow: `ConnIffSocket`, `EndsOnlyFor`, `AnsweredOnce`, `StaticInOrder`, `SilentAfterTimeout` |
| `Patient` | two clients that wait for each answer, two requests each, static and CGI, timeout above one second, under fairness: `EventIffResponse`, `CgiTargetsOwner`, `NothingLeftWaiting`, `StaysUp`, `ServicePromise` (the refinement of `HttpService`), `DescriptorsReturn`, and no deadlock |
| `Routing` (`MCRouting`) | six servers (none, one or several locations, one given twice, one with `return`s that are no redirects and an index that is a directory), every target of up to five tokens, `DELETE` and an unknown method for those of up to three, a tree with directories called `42` and `v1.0`: `AnsweredAsPromised`, `LongestPatternDecides`, `ListsOnlyFor`, and no deadlock |
| `Bodies` (`MCExchange`) | one client, two requests out of nine, received in any pieces, programs that echo, gather or ignore their input, under fairness: `TypeOK`, `TakenAsSent`, `LimitKept`, `BodyComesBack`, `WaitsOnlyBeyondCapacity`, `EndsOnlyFor`, `EveryRequestAnswered` |
| `Config` (`MCConfig`) | fifteen files, usable and not, as written and with every slip of one token, under fairness: `TypeOK`, `AsWritten`, `SlipStaysInServer`, `ListensAsConfigured`, `EachWordOnce`, `Loads` |
| `StaleCgi`, `SilentCgi`, `ResetClient`, `PipelinedStuck`, `LostQuery` (`MCRouting`), `RejectedConfig` (`MCConfig`) | the disagreements of section 6, each as a property that TLC refutes |

**Bounds and why they are enough.** Two clients are what a reused descriptor, a
stale CGI event or a shared registry needs; a third only repeats them. Several
servers are left to the theorems, which hold for any number of them. Three
requests on a connection let one be answered while the next is in the buffer and
the last arrives in halves. A process writes once or twice: once for "output and
end", twice for "output arrives in two events". `MaxLog` only bounds the record
of what a client received; where an endless sequence of 500s is possible later
entries are dropped and no property depends on them. A timeout of 900 ms is
`Limit` 0, one tick, the shortest in which everything can expire; 1900 ms leaves
a second in which a request is under way. The timeout of the code is 2900 ms,
`Limit` 2. With `"slow"` absent, time does not carry a connection with an
unanswered request beyond the limit: this is the assumption "CGI programs answer
in time" of the patient runs. Symmetry is used in `Sharing`, which has safety
properties only. `CHECK_DEADLOCK FALSE` is set where the system may stop: a
client may reset, the process may end, the client of `Bodies` has sent its
requests, `Config` has loaded. `Patient` and `Routing` check for deadlock.

Not reached by the bounds: a write event registered on a CGI pipe because the
number in a CGI event has become one, which needs five clients; the actions
model it and the theorems include it.

In `Bodies` a pipe holds two tokens, and bodies have 1, 2, 4, 5 or 6: one fits a
pipe, one fills it, one fits both pipes, one fits neither, and one exceeds the
limit of 5. A program that ignores its input writes up to three tokens,
one more than its pipe holds, and ends when it likes: it can wait for the server
that waits for it, and it can end with the server still writing, which is what
`SIGPIPE` needs. Two requests are what a field taken for an earlier request's needs,
and a second child whose end interrupts the first one's write. `MaxGot` bounds
what is recorded of a client that is answered 413 again and again. `SizeModulus`
stands for 2^64 and only has to exceed every buffer.

In `Config` a single slip is every mistake that one stroke makes. The stray
tokens include the braces, the semicolon, contexts and directives, so that a
slip can open, close or swallow a block. The files have up to two servers and
three locations, every directive that the adapter reads, values on both sides of
each limit that `ServerConfig` checks, a body limit with a suffix (`std::stoul` stops
at it, `Leading`), and an address given twice.

Five tokens hold two segments with or without a final slash, a doubled slash and
a query: the pattern, a directory and a file below it, and every place where a
slash can be lost. Of `?`, `.`, `..` and the dotted directory `v1.0` a target has
two at most. `AnsweredAsPromised` speaks of *ordinary* requests: one of the five
methods, no query (section 6), no empty segment (the kernel reads `//` as `/`,
matching does not), no `.` or `..`, and no number and no final dot at the end, of
which `ListsOnlyFor` speaks; and the place they name is *clear*: a `return` there
has a code of 3xx, index files have an extension, and no directory has the name
of a file that is asked for. No pattern ends in a slash, as none does in the
repository's configurations.

**Fairness.** `WF(Server)`: `start` is an endless loop. `WF` of `CgiWrite` and
`CgiExit`: a CGI program produces its output and ends. `SF(Tick)`: time passes,
but the model lets it pass only between two passes of the loop, so it is enabled
again and again and not continuously. Clients are under no obligation.
`Exchange` assumes `WF` of the server and of each CGI program; a write that
sleeps is not enabled, so nothing is assumed of it. `Config` assumes `WF(Next)`:
`main` goes on.

## 4. Proofs

**The registry.** `WebserverProofs` begins with every operator of `Kqueue`: it
maps registries to registries and keeps `NoDangling`: `addEvent` deletes the
object under `<<fd, type>>`, and no polled event may point at it, which the
callers establish; `removeEvent` deletes nothing that is in use; `closeFd` only
drops knotes.

**The event loop**, for any sets of servers, clients and descriptors, any number
of requests and any timeout:

| Theorem | States | What its invariant adds |
|---|---|---|
| `TypeCorrect`, `NoUdataDangles`, `OpenDescriptorsWatched` (`WebserverProofs`) | `TypeOK`, `UdataLive`, `OpenIsWatched` | `IInv` |
| `SilenceAfterTimeout` (`ConnectionProofs`) | `SilentAfterTimeout`, an action property | `SocketInv` |
| `NothingBlocks` | `NeverBlocks` | `LoopInv` |
| `SocketsHaveEntries` | half of `ConnIffSocket`, for any number of servers | - |
| `EntriesFollowSockets` | `OneServer => ConnIffSocket` | `OneServerInv` |
| `EndsOnlyForACause` | `OneServer => EndsOnlyFor` | `OneServerInv` |
| `AnswersOnce`, `ResourcesInOrder` (`AnswerProofs`) | `AnsweredOnce`, `StaticInOrder` | `DeliveryInv` |

None of the properties is inductive alone.

* `IInv == RegistryInv /\ TableInv /\ EnvInv /\ AcceptWaits`. `UdataLive` needs
  to know which descriptors are open: a handler that registers an event for a
  new descriptor must not replace an object that the polled event uses, and it
  does not because the polled event's descriptor is open or its object is of
  another kind. `OpenIsWatched` needs that a client waiting in a backlog waits
  at its home server and is accepted by it (`AcceptWaits`, `BacklogHome`).
* `SocketInv`: a client has one socket at most, and none before it is accepted
  or after it was closed; who was told 408 is closed; what is queued has status
  200. Without the first part a timed-out client could have a second socket on
  which something is still sent.
* `LoopInv`: the event in the loop's hands still stands for what is registered.
  The timeouts run between the poll and the handler and close descriptors; what
  is left open was not touched, so the handler finds what the poll has seen.
* `OneServerInv` joins these with the two properties. With one server every
  event of a socket is that server's, so close() and `removeConnection` meet the
  same entry.
* `DeliveryInv` says where the answer to a request can be: in the pipe, in the
  buffer of the pipe, in a queue, or with the client, in one place at a time
  (`AnswerInv`), and only for requests that are no longer on their way
  (`UsedInv`, with `StreamInv`: segments are in order in
  the kernel and in the buffer). `Linked` is the part that is hardest to see:
  while a program runs, its output lies in the entry that its event names, so
  that a response made at the end of the pipe takes all of it along. `OrderInv`
  adds that resources in a queue, and those already received, are in the order
  of the requests. The numbers of pipe and socket may have passed to other
  clients meanwhile: output can reach the wrong client (section 6), but it
  reaches one client once.

`OneServer` is a hypothesis because the statement fails without it. TLC shows
this with two servers, two clients and CGI: the first client resets, its process
goes on, the number of its socket passes to a client of the other server, the
stale event registers the write event of that socket with the first server, the
500 that follows fails after the second client's reset, and the socket is closed
by a server that does not have the entry. The half that holds nevertheless,
that no socket is without entry, is `SocketsHaveEntries`; without resets both
hold, which is `EntriesFollowSocketsUnlessReset`.

**Clients that behave.** Most of what a client may expect depends on what
clients and programs do. `PatientProofs` says on what, in three steps, each a
bound on `Env` that the earlier proofs were without; the numbers of clients,
servers, requests and descriptors and the timeout stay free.

| Theorem | Hypothesis | States |
|---|---|---|
| `EntriesFollowSocketsUnlessReset` | `Lasting` | `ConnIffSocket` |
| `NothingThrownUnlessReset` | `Lasting` | `removeEvent` never throws; the process ends only in `accept` or `pipe`, with fewer than four free descriptors |
| `CgiEventsTargetOwner` | `Staying` | `CgiTargetsOwner` |
| `StayingClientsGetTheirOwn` | `Staying` | `OwnOutputOnly`, the property that `StaleCgi` refutes without it |
| `EventsFollowResponses` | `Patient` | `EventIffResponse` |
| `SleepsWithNothingToDo` | `Patient` | `NothingLeftWaiting` |
| `ResponsesAreThere` | `Patient` | `ResponseEventHasResponse`, the property that `SilentCgi` refutes without it |
| `PatientClientsKeepItUp` | `Patient /\ Spare` | `StaysUp` |
| `ServesAsPromised` | `Patient /\ MaxLog >= MaxReq` | `Service!ServiceSafety` |

* `Lasting`: nobody resets. `LastingInv` joins `ConnIffSocket` and `EndsOnlyFor`
  with the invariants above and `NoReset`. A reset is thus the only way to part
  `connections_` from the sockets: with it the example above needs two servers,
  without it any number will do.
* `Staying`: nobody resets or leaves early, programs end before the timeout, an
  `exec` does not fail and no body is too large; clients may pipeline, split
  their requests and programs may be silent. `StayInv` says that a client whose
  program runs has its socket, its entry and its time (`PipesOwned`), and that
  whatever lies in an entry for a request belongs to the client of its socket
  (`HeldOwn`, `KeptOwn`). It is inductive because a client leaves only with all
  its answers (`LeftAnswered`), and an answer can be missing only where
  `DeliveryInv` says it is.
* `Patient`: requests are also not pipelined and programs write something.
  `PromiseInv` adds that only a client's last request is unanswered
  (`OneAtATime`), that what was refused or given to a program is behind whatever
  is still coming (`SpentInv`, `UsedKind`), that a program with an answer to
  come has it unwritten, in the pipe or in the buffer of the pipe (`Progress`),
  that no complete request stays in a buffer (`NoneComplete`), and that the
  write event of a socket is registered with its server exactly while its queue
  is not empty (`WriteInv`, with `HeldWrite` for the one in the loop's hands).
  `EventIffResponse` alone is not inductive: `SendResponse` removes the event
  after one response, which is right only if there was no second, and
  `CgiEof` adds it whether or not there was output.
* `Spare`: two descriptors for each client and three more. `StaysUpStep` counts:
  sockets and pipes that are open belong to different clients each, and a client
  about to be accepted, or to be given a program, has none yet. `Patient` runs
  with exactly that many.

**The refinement.** `ServesAsPromised` proves that every step of `Webserver` is
`Ask`, `Answer` or `End` of `HttpService` for one client, or changes nothing it
speaks of, under the mapping that the run `Patient` checks: `asked` counts
complete requests, `answers` the responses received except a final 408
(`Replies`), `ended` a closed connection, or one that its client has left. The
steps of the environment are `Ask` (`SendRequest`, `SendRemainder`) and `End`
(`Leave`). For the steps of the server `ReplyCases` shows that each either
leaves all clients without news (`NoReply`) or gives one client the answer to
its last request (`Reply`), which `OneAtATime` and `DeliveryInv` make the only
one outstanding, or closes its connection by a timeout. `Ledger` is what has to
be known of the record: the replies a client has are those to its first
requests, in order, and only a 408 that ends the connection is not among them.
`MaxLog >= MaxReq` says that the record is long enough for them, as it is in the
run. Its liveness, that what is asked is answered, stays with TLC.

**One connection, byte by byte.** `ExchangeProofs` proves, for any requests and
bodies, any capacity of the pipes, any limit and any way in which `recv` and
`read` split what arrives:

| Theorem | States |
|---|---|
| `ExchangeTypes` | `TypeOK` |
| `RequestsTakenAsSent` | `TakenAsSent` |
| `LimitIsKept` | `LimitKept` |
| `BodiesComeBack` | `BodyComesBack` |
| `WaitsBeyondCapacity` | `WaitsOnlyBeyondCapacity` |
| `ExchangeEndsOnlyFor` | `EndsOnlyFor` |

The invariant has two layers. `IInv == TypeOK /\ StreamInv /\ DispatchInv /\
RunInv` holds whatever the clients send. `StreamInv`: the stream (the buffer
followed by what the kernel holds) consists of tokens of requests that were
sent, in their order, and every request line in it is followed by the whole rest
of its request; no `size_t` wraps on it. `DispatchInv`: a request about to be
dispatched that begins with its line has exactly its own body, and no process
was started for it. `RunInv`: what a program has read, what is in its input and
what is left of the write make up the body it was started with, or a front of it
if the write was cut short; what the buffer and the output pipe hold is what it
has written; and a program that reads its input ends only after the pipe was
closed. `WaitsOnlyBeyondCapacity` and the `SIGPIPE` half of `EndsOnlyFor` follow
from `RunInv` by counting.

`TInv` is about which request is which. `AlignedInv`: as long as no field was
taken for another request's (`Delimited`), the stream begins with the request
after the last one taken; so `headerEnd` and `contentLengthPos` find that
request's and `getRequest` cuts exactly its text (`TakenInv`). `AnswersInv`: a
request that was answered, is being answered, or whose answer was waited for had
been taken before, or is too large, or stays behind one that is (`Blocked`): a
client that waits mixes no two requests up in the buffer, unless there was a 413.
From there `LimitKept` follows: what is refused is blocked, and what is too large
is never taken. `BodiesInv` says what queued and sent responses hold,
`StreamKept` that what was taken and what is left are all that was sent.

`BodyComesBack` is stated, checked and proved without `Delimited`: a request
that was cut off wrongly has taken too much, which the parser trims by the field
of its own header. What then begins in the middle of another request is given to
no program in the model (section 5).

**The router.** `RoutingProofs` proves `LongestDecides`: `Spec =>
[]LongestPatternDecides`, for any configurations, requests and trees. The
invariant joins that `order` is sorted (`Sorted`, from `sortLocations`) and that
every location the loop has passed does not match the request at hand
(`Passed`).

`ListingNeedsReason`: `Spec => []ListsOnlyFor`. `routeRequest` decides on a
listing with the location in its hands, `execute` without it, by the extension
alone. `ListInv` follows what is listed back to its cause: nothing is listed but
a result without extension whose code is no redirect (`Listed`), such a result
is found only for one of four reasons (`Chosen`), and the name that was asked for
has no extension only if it is a number or ends in a dot (`NoExtension`).

**The configuration.** `ConfigProofs` proves, for any files and any tokens that
slip into them:

| Theorem | States |
|---|---|
| `ConfigTypes` | `TypeOK`; in particular a server that is kept is valid in each field |
| `WordsReadOnce` | `EachWordOnce`, an action property |
| `ServersListen` | `ListensAsConfigured` |

`IInv == Calls /\ Tree /\ Made /\ Sockets /\ InOrder /\ Places`. `Calls`: each
call of `parseConfigRecursive` is at one of the words of its text, or behind the
last, and works on a context of the tree. `Tree`: the children of a context come
after it, so the tree is one, and what `convertToHTTPConfig` takes for a server
is a context, whatever the text was. `Made` and `Sockets` put each server and
each socket at the place of its context; `InOrder` says that nothing is made
before parsing has ended and nothing bound before all servers are made.
`EachWordOnce` needs more than that blocks are delimited: a directive without
its semicolon, a semicolon set apart and a block without its end are where the
iterator could stand still, or go back, or run past the end. `lastValue` may be the
directive's own name, so that it matters that the iterator moves past it.
From `WordsReadOnce` it follows that parsing ends, since what is unread is
finite and each step ends a call or leaves less of it; `Loads` itself, with its
fairness, stays with TLC.

`ConfigTypes` needs to know what all the directives of a context make of a
server, an induction over a sequence. The library's induction theorems are out
of reach, but not that numbers are well founded: `CountUp` turns it into
induction over a *set* of numbers, `FoldsExists` and `FlattensExists` into the
existence of the functions by which `FoldLeft` and `FlattenSeq` are defined.

**Assumptions.** `DescriptorsAssumption`, `NoneAssumption`,
`WebserverAssumption` and `NoneIsNoObject`, `ConfigurationsAssumption` of
`Routing`, `SizeAssumption`, `PipeAssumption`, `ExchangeAssumption` and
`ConfigAssumption` say that constants have their types, `None` is nothing else
and words in quotes are strings. `StreamAssumption` says
that bytes are what requests consist of, and that all that a client sends is
less than 2^64 bytes, so that the sums of `Connection.cpp:46` do not wrap. TLC
evaluates them in every run. `TreeAssumption` says that a file tree is one, that
`.` and `..` are the names of no file in it, and how names, dots and digits
go together. Nothing bounds the number of clients, requests,
descriptors or tokens. Theorems whose statement is not true of every environment
carry what it takes as a hypothesis: `OneServer`, `Lasting`, `Staying`,
`Patient`, `Spare` and `MaxLog >= MaxReq`; the run `Patient` satisfies all of
them.

**Only model-checked**, and why:

* `EveryRequestAnswered`, `Loads`, `DescriptorsReturn` and the liveness of
  `ServicePromise` rest on fairness, which this prover does not treat. That the
  implementation's fairness implies the service's also needs `ENABLED`.
* `AsWritten` and `SlipStaysInServer`: that the parser finds in a text what it
  was written from, bracket by bracket, is induction over the structure of the
  file.
* `AnsweredAsPromised`: the walk over the locations is within reach, but that
  joined tokens read back as the segments they were joined from is induction
  over data again.

## 5. Not modelled, and why

Texts (`StaticResourceResponse`, the header of `CgiResponse`, reason phrases,
`MimeTypes`, error pages) and the environment variables of a CGI program carry
no state and are read by nobody in the repository. Reading files and
directories, the configuration file included, is I/O; so is a client that does
not read its responses (`Server.cpp:72`), which would block the only thread in
`send`. The array that `pollEvents` allocates is leaked when an exception leaves
the loop; memory that is only leaked is not modelled.

`Exchange` has no timeouts, disconnections or descriptors: they are
`Webserver`'s subject, as bodies and bytes are not. There a request of two
segments stands for one that arrives in pieces, and its cut is what
`TakenAsSent` establishes. A number is one token, and clients send the size of
their body, so that `atoi` and `stoiSafe` agree; a negative number is handled by
the operators of `Framing` and sent by nobody. A request line is one token with
the fields that matter to nobody here, so no cut falls inside it; and a request
that begins in the middle of another is answered 400. The code would read what
is left of a line, or bytes of a body and a line behind them, as a request where
there are three words in it, with the first for its method: `ST /x HTTP/1.1` is a
`DELETE` (`request_parser/requestParser.cpp:50-70`). This takes a request that
was not `Delimited`; `TakenAsSent`, `LimitKept` and `EndsOnlyFor` say nothing of
what such a remainder is answered, `EveryRequestAnswered` is about clients that
wait, and `BodyComesBack` is about the requests that begin with their line. CGI programs do
not fail in `Exchange`; a failed `exec` is an action of `Webserver`.

In `Config` a `Socket` whose address is taken or not the host's own makes the
process exit; failures of `socket`, `setsockopt` and `listen` exit likewise and
are not told apart. `include` and the directives that nothing reads are passed
over, as in the adapter.

## 6. Disagreements met

* `StaleCgi`: the output of a timed-out client's CGI process goes to the next
  client on the same descriptor number (`Server.cpp:132-141`).
* `SilentCgi`: a CGI program without output leaves a write event with nothing to
  write, answered with 500 again and again (`Server.cpp:133`, `:109-111`).
* `ResetClient`: a failed send closes the descriptor, `removeEvent` throws and
  the server ends (`Webserver.cpp:62`, `Kqueue.cpp:96`).
* `PipelinedStuck`: the second of two requests that arrive together waits for a
  third (`Server.cpp:56`).
* `LostQuery`: a target with a query is looked for under a name that includes
  the query, and is not found (`Router.cpp:83`).
* `RejectedConfig`: a file that cannot be parsed ends in a null pointer and not
  in "Failed to parse configuration." (`src/src/main.cpp:27`, `:29`).

Seen and not made into runs: the `Content-Length` of a pipelined request is
taken for that of an earlier one without the field
(`connection/Connection.cpp:33`, `:46`); a CGI response puts an empty line
before the output and does not count it
(`connection/response/CgiResponse.cpp:16`, `:21`); the end of another child can
cut short the body a program gets, and a program that ends before its body is
written makes the write raise `SIGPIPE` (`CGI/CgiExecuter.cpp:41`); two servers
of `default.conf` have one address (`:3-4`, `:30-31`), so the shipped file
cannot be served; `default2.conf:57` has a value that ends in `;=` and takes the
rest of its block with it; a semicolon set apart from the last value is a syntax
error although the parser looks for it (`ConfigParser.cpp:120`);
`ServerConfig.cpp:8` gives the body limit in megabytes and `Server.cpp:52`
compares it in bytes; the first context of a file is taken for `http` whatever
its name (`src/src/main.cpp:27`), of several `return`s the first counts and of
other directives the last; a CGI response says `Connection: close` and the
connection is kept (`connection/response/CgiResponse.cpp:17`); after a 413 the buffer is
never emptied, so that every later request of the connection is answered 413 too,
whatever its size (`Server.cpp:52-54`, of which `LimitKept` says how far it goes);
`removeEvent` searches the map
under a filter although its keys are types, so every `EventInfo` lives until its
number is used again (`Kqueue.cpp:99`); the location `.py` of `default.conf:50`
matches no target that begins with `/`; a file without read permission is
answered 404, the 403 of `StaticResourceHandler.cpp:63` being asked only of a
file that was opened (`request_handler/StaticResourceHandler.cpp:58-64`); a file
whose name is a number cannot be had, and a directory
is listed without autoindex if the target ends in a number or a dot, `/..` for one
(`request_parser/requestParser.cpp:142`, `Router.cpp:74-80`,
`request_handler/StaticResourceHandler.cpp:26-43`; `ListsOnlyFor` names the causes); a
`return` with a code other than 3xx lists its path or is answered 404
(`Router.cpp:98-101`, `request_handler/StaticResourceHandler.cpp:14`); a directory
with an extension in its name is opened as a file and sent empty, with 200 (`:58`);
`std::stoul` takes `10M` for 10, and of all numbers in a file only
`client_max_body_size` may have such a suffix
(`src/src/config_adapter/ConfigAdapter.cpp:54`); a method that is not known is taken
for DELETE (`request_parser/requestParser.cpp:70`); `memset` clears an object that
holds strings (`:83`), which is undefined and left out; 408 has no reason phrase
(`src/src/request_handler/ResponseReason.cpp`).

## 7. Plan

1. (done) `Kqueue`, `Webserver`, `HttpService`, their runs; types, `UdataLive`
   and `OpenIsWatched` proved.
2. (done) Sockets, entries and the held event: `NeverBlocks` and
   `SilentAfterTimeout` for any number of servers, `ConnIffSocket` and
   `EndsOnlyFor` for one; answers handed out once and in order.
3. (done) `Config`: tokens, the tree of contexts and its deletion, and the
   adapter, with what a file means as reference.
4. (done) `Framing`: `getBodySize`, `hasRequest` and `getRequest` over buffers
   of header and body tokens.
5. (done) `Routing`: matching, index files and the file handler over a small
   tree, with the deepest covering location as reference;
   `LongestPatternDecides` proved.
6. (done) `CgiPipe` and `Exchange`: the body and the output pipe with their
   capacities, composed with `Framing`.
7. (done) Proofs about `Exchange`: its types and all its safety properties.
8. (done) The patient environment: `CgiTargetsOwner`, `EventIffResponse`,
   `NothingLeftWaiting` and `StaysUp` as theorems, and the safety of
   `HttpService` as a refinement, proved step by step.
9. (done) Proofs about `Config`: the types of the tree and the stack, that the
   tree is one, which `deleteTree` relies on, that no word is read twice, and
   that who listens is who is configured.
