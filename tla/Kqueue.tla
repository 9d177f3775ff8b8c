---------------------------------- MODULE Kqueue ----------------------------------
(***************************************************************************)
(* The event registry of src/src/webserver/Kqueue.cpp: the kernel's        *)
(* registrations (knotes), the heap objects they point at (EventInfo) and  *)
(* the map that owns those objects.                                        *)
(*                                                                         *)
(* The state is one record q, kept in a variable by the module that uses   *)
(* the registry:                                                           *)
(*   q.infos   the keys <<fd, type>> of eventInfoMap_, one object each;    *)
(*   q.knote   what is registered with the kernel for a descriptor and a   *)
(*             filter: the object its udata points at, or None;            *)
(*   q.polled  the descriptor and the udata of the event that pollEvents   *)
(*             returned and the event loop still holds, or None;           *)
(*   q.stale   the descriptors for which the loop took up, or still held   *)
(*             at the end, a udata whose object had been deleted.          *)
(* An object is recognised by its descriptor and type; "live" tells        *)
(* whether it is still allocated, so that a udata whose object was deleted *)
(* is a dangling pointer and not merely a missing map entry.               *)
(***************************************************************************)
EXTENDS Integers

CONSTANTS
    Servers,   \* descriptors of the listening sockets
    Fds,       \* descriptor numbers the process can still allocate
    None       \* no registration, no client, no pipe

SERVER       == 0
REQUEST      == 1
RESPONSE     == 2
CGI_RESPONSE == 3
Types        == SERVER..CGI_RESPONSE

EVFILT_READ  == -1
EVFILT_WRITE == -2
Filters      == {EVFILT_READ, EVFILT_WRITE}

Descriptors == Servers \cup Fds
EventInfo   == [type: Types, srv: Servers, client: Fds \cup {None}, live: BOOLEAN]
Polled      == [fd: Descriptors, info: EventInfo]

ASSUME DescriptorsAssumption ==
    /\ Servers \subseteq Nat
    /\ Fds \subseteq Nat
    /\ Servers \cap Fds = {}

ASSUME NoneAssumption ==
    /\ None \notin Fds
    /\ None \notin EventInfo
    /\ None \notin Polled

Registry == [infos:  SUBSET (Descriptors \X Int),
             knote:  [Descriptors \X Filters -> EventInfo \cup {None}],
             polled: Polled \cup {None},
             stale:  SUBSET Descriptors]

EmptyRegistry == [infos  |-> {},
                  knote  |-> [n \in Descriptors \X Filters |-> None],
                  polled |-> None,
                  stale  |-> {}]

getFilter(type) == IF type = RESPONSE THEN EVFILT_WRITE ELSE EVFILT_READ

Registered(q, fd, filter) == q.knote[<<fd, filter>>] # None

-----------------------------------------------------------------------------
\* "delete eventInfoMap_[key]; erase": whatever still points at the object dangles.
Dangling(info, key) == IF info.type = key THEN [info EXCEPT !.live = FALSE] ELSE info

DeleteInfo(q, fd, key) ==
    IF <<fd, key>> \notin q.infos THEN q
    ELSE [q EXCEPT
           !.infos  = @ \ {<<fd, key>>},
           !.knote  = [n \in Descriptors \X Filters |->
                        IF n[1] = fd /\ q.knote[n] # None
                        THEN Dangling(q.knote[n], key) ELSE q.knote[n]],
           !.polled = IF q.polled # None /\ q.polled.fd = fd
                      THEN [fd |-> fd, info |-> Dangling(q.polled.info, key)]
                      ELSE q.polled]

\* Both overloads of addEvent. "attaches" is the kernel's answer to EV_ADD: the
\* first overload ignores a failure, so the map can own an object no knote has.
addEvent(q, attaches, fd, type, srv, client) ==
    LET info == [type |-> type, srv |-> srv, client |-> client, live |-> TRUE]
        d    == DeleteInfo(q, fd, type)
    IN  [d EXCEPT
          !.infos = @ \cup {<<fd, type>>},
          !.knote = IF attaches THEN [@ EXCEPT ![<<fd, getFilter(type)>>] = info] ELSE @]

\* Mutated forms: the object is found and deleted (its knote gone, its type may have
\* the other filter); every knote of the descriptor goes; EV_DELETE is forgotten.
removeEventByType(q, fd, filter) ==
    LET d == DeleteInfo(q, fd, IF filter = EVFILT_WRITE THEN RESPONSE ELSE REQUEST)
    IN  [d EXCEPT !.knote = [@ EXCEPT ![<<fd, filter>>] = None]]

removeEventAnyFilter(q, fd, filter) ==
    [q EXCEPT !.knote = [n \in Descriptors \X Filters |->
                           IF n[1] = fd THEN None ELSE q.knote[n]]]

removeEventNot(q, fd, filter) == q

\* EV_DELETE, then the map is searched under <<fd, filter>> although its keys are
\* <<fd, type>>. The caller checks Registered: EV_DELETE fails without a knote.
removeEvent(q, fd, filter) ==
    LET d == DeleteInfo(q, fd, filter)
    IN  [d EXCEPT !.knote = [@ EXCEPT ![<<fd, filter>>] = None]]

\* The kernel drops every knote of a descriptor that is closed.
closeFd(q, fd) ==
    [q EXCEPT !.knote = [n \in Descriptors \X Filters |->
                           IF n[1] = fd THEN None ELSE q.knote[n]]]

\* Following a udata: of interest when its object is gone.
Follow(q, fd, info) == IF info.live THEN q.stale ELSE q.stale \cup {fd}

\* pollEvents returns an array of which start() uses the first entry.
pollEvents(q, n) ==
    [infos  |-> q.infos,
     knote  |-> q.knote,
     polled |-> [fd |-> n[1], info |-> q.knote[n]],
     stale  |-> Follow(q, n[1], q.knote[n])]

\* A mutated form: the event is not let go of.
DoneNot(q) == q

\* The end of processEvents, which reads eventInfo->type after every handler.
Done(q) ==
    [infos  |-> q.infos,
     knote  |-> q.knote,
     polled |-> None,
     stale  |-> IF q.polled = None THEN q.stale
                ELSE Follow(q, q.polled.fd, q.polled.info)]

-----------------------------------------------------------------------------
(* What makes following a udata right. *)

\* A pointer to an allocated object, owned by the map, that says of the descriptor
\* what it is, and whose clientFd was set if it is going to be read.
InfoLive(q, fd, info) ==
    /\ info.live
    /\ <<fd, info.type>> \in q.infos
    /\ info.type = SERVER <=> fd \in Servers
    /\ info.type = SERVER => info.srv = fd
    /\ info.type = CGI_RESPONSE => info.client # None

NoDangling(q) ==
    /\ q.stale = {}
    /\ \A n \in Descriptors \X Filters :
          q.knote[n] # None => /\ InfoLive(q, n[1], q.knote[n])
                               /\ getFilter(q.knote[n].type) = n[2]
    /\ q.polled # None => InfoLive(q, q.polled.fd, q.polled.info)
=============================================================================
