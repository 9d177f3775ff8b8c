------------------------------- MODULE WebserverProofs -------------------------------
(***************************************************************************)
(* Type correctness, the absence of dangling udata and the watching of     *)
(* every open descriptor, for any number of servers, clients, descriptors  *)
(* and requests, and for every behaviour of the environment.               *)
(*                                                                         *)
(* The invariants are inductive only together: a handler's descriptor is a *)
(* member of Fds because the object it was found through is allocated and  *)
(* says so, and the object is safe from addEvent because whatever is open  *)
(* has its knote. Three small facts about the clients and the backlog      *)
(* complete IInv. The operators of Kqueue come first.                      *)
(***************************************************************************)
EXTENDS Webserver, TLAPS, SequenceTheorems, WellFoundedInduction

-----------------------------------------------------------------------------
(* What the operations of the registry preserve, for every set of          *)
(* descriptors: its type, and that no udata dangles.                       *)

Knotes == Descriptors \X Filters

\* The part of a knote that deleting an object leaves alone.
SameKnote(a, b) ==
    /\ a = None <=> b = None
    /\ a # None => a.type = b.type /\ a.srv = b.srv /\ a.client = b.client

-----------------------------------------------------------------------------
(* The registry's type. *)

\* Deleting an object turns a pointer to it into another EventInfo, never into None.
LEMMA DanglingType ==
    ASSUME NEW info \in EventInfo, NEW key \in Int
    PROVE  /\ Dangling(info, key) \in EventInfo
           /\ Dangling(info, key) # None
           /\ SameKnote(info, Dangling(info, key))
           /\ info.type # key => Dangling(info, key) = info
BY NoneAssumption DEF Dangling, EventInfo, SameKnote

LEMMA DeleteInfoType ==
    ASSUME NEW q \in Registry, NEW fd \in Descriptors, NEW key \in Int
    PROVE  /\ DeleteInfo(q, fd, key) \in Registry
           /\ \A n \in Knotes : SameKnote(q.knote[n], DeleteInfo(q, fd, key).knote[n])
<1>1. CASE <<fd, key>> \notin q.infos
  BY <1>1 DEF DeleteInfo, SameKnote
<1>2. CASE <<fd, key>> \in q.infos
  <2> DEFINE k(n) == IF n[1] = fd /\ q.knote[n] # None
                     THEN Dangling(q.knote[n], key) ELSE q.knote[n]
             p    == IF q.polled # None /\ q.polled.fd = fd
                     THEN [fd |-> fd, info |-> Dangling(q.polled.info, key)] ELSE q.polled
  <2>1. DeleteInfo(q, fd, key) = [infos  |-> q.infos \ {<<fd, key>>},
                                  knote  |-> [n \in Knotes |-> k(n)],
                                  polled |-> p,
                                  stale  |-> q.stale]
    BY <1>2 DEF DeleteInfo, Registry, Knotes
  <2>2. \A n \in Knotes : k(n) \in EventInfo \cup {None} /\ SameKnote(q.knote[n], k(n))
    BY DanglingType DEF Registry, Knotes, SameKnote
  <2>3. p \in Polled \cup {None}
    BY DanglingType DEF Registry, Polled
  <2>4. QED
    BY <2>1, <2>2, <2>3 DEF Registry, Knotes
<1>3. QED
  BY <1>1, <1>2

\* addEvent replaces at most the knote of its own descriptor and filter.
LEMMA AddEventType ==
    ASSUME NEW q \in Registry, NEW attaches \in BOOLEAN, NEW fd \in Descriptors,
           NEW type \in Types, NEW srv \in Servers, NEW client \in Fds \cup {None}
    PROVE  LET r == addEvent(q, attaches, fd, type, srv, client)
               k == <<fd, getFilter(type)>>
           IN  /\ r \in Registry
               /\ k \in Knotes
               /\ \A n \in Knotes : n # k => SameKnote(q.knote[n], r.knote[n])
               /\ attaches  => r.knote[k] = [type |-> type, srv |-> srv, client |-> client,
                                            live |-> TRUE]
               /\ ~attaches => SameKnote(q.knote[k], r.knote[k])
<1> DEFINE info == [type |-> type, srv |-> srv, client |-> client, live |-> TRUE]
           k == <<fd, getFilter(type)>>
           d == DeleteInfo(q, fd, type)
           r == addEvent(q, attaches, fd, type, srv, client)
<1>1. info \in EventInfo
  BY DEF EventInfo
<1>2. k \in Knotes /\ <<fd, type>> \in Descriptors \X Int
  BY DEF Knotes, getFilter, Filters, Types, SERVER, CGI_RESPONSE
<1>3. d \in Registry /\ \A n \in Knotes : SameKnote(q.knote[n], d.knote[n])
  BY DeleteInfoType DEF Types, SERVER, CGI_RESPONSE
<1>4. r = [infos  |-> d.infos \cup {<<fd, type>>},
           knote  |-> IF attaches THEN [d.knote EXCEPT ![k] = info] ELSE d.knote,
           polled |-> d.polled,
           stale  |-> d.stale]
  <2>1. r = [d EXCEPT !.infos = @ \cup {<<fd, type>>},
                      !.knote = IF attaches THEN [@ EXCEPT ![k] = info] ELSE @]
    BY DEF addEvent
  <2> HIDE DEF d, k, info, r
  <2>2. QED
    BY <2>1, <1>3 DEF Registry
<1> HIDE DEF d, k, info, r
<1>5. r \in Registry
  BY <1>1, <1>2, <1>3, <1>4 DEF Registry, Knotes
<1>6. \A n \in Knotes : n # k => r.knote[n] = d.knote[n]
  BY <1>3, <1>4 DEF Registry, Knotes
<1>7. attaches => r.knote[k] = info
  BY <1>2, <1>3, <1>4 DEF Registry, Knotes
<1>8. ~attaches => r.knote = d.knote
  BY <1>4
<1>9. QED
  BY <1>2, <1>3, <1>5, <1>6, <1>7, <1>8 DEF k, info, r

\* removeEvent drops one knote and leaves the others alone.
LEMMA RemoveEventType ==
    ASSUME NEW q \in Registry, NEW fd \in Descriptors, NEW filter \in Filters
    PROVE  LET r == removeEvent(q, fd, filter)
           IN  /\ r \in Registry
               /\ r.knote[<<fd, filter>>] = None
               /\ \A n \in Knotes : n # <<fd, filter>> => SameKnote(q.knote[n], r.knote[n])
<1> DEFINE d == DeleteInfo(q, fd, filter)
           k == <<fd, filter>>
           r == removeEvent(q, fd, filter)
<1>1. d \in Registry /\ \A n \in Knotes : SameKnote(q.knote[n], d.knote[n])
  BY DeleteInfoType DEF Filters, EVFILT_READ, EVFILT_WRITE
<1>2. r = [infos |-> d.infos, knote |-> [d.knote EXCEPT ![k] = None],
           polled |-> d.polled, stale |-> d.stale]
  <2>1. r = [d EXCEPT !.knote = [@ EXCEPT ![k] = None]]
    BY DEF removeEvent
  <2> HIDE DEF d, k, r
  <2>2. QED
    BY <2>1, <1>1 DEF Registry
<1>3. k \in Knotes
  BY DEF Knotes
<1> HIDE DEF d, k, r
<1>4. r \in Registry
  BY <1>1, <1>2, <1>3 DEF Registry, Knotes
<1>5. r.knote[k] = None
  BY <1>1, <1>2, <1>3 DEF Registry, Knotes
<1>6. \A n \in Knotes : n # k => r.knote[n] = d.knote[n]
  BY <1>1, <1>2 DEF Registry, Knotes
<1>7. QED
  BY <1>1, <1>4, <1>5, <1>6 DEF k, r

\* Closing a descriptor drops its knotes and leaves the others alone.
LEMMA CloseFdType ==
    ASSUME NEW q \in Registry, NEW fd \in Descriptors
    PROVE  /\ closeFd(q, fd) \in Registry
           /\ \A n \in Knotes : closeFd(q, fd).knote[n] = IF n[1] = fd THEN None ELSE q.knote[n]
           /\ closeFd(q, fd) = [infos |-> q.infos,
                                knote |-> [n \in Knotes |-> IF n[1] = fd THEN None ELSE q.knote[n]],
                                polled |-> q.polled, stale |-> q.stale]
<1>1. closeFd(q, fd) = [infos |-> q.infos,
                        knote |-> [n \in Knotes |-> IF n[1] = fd THEN None ELSE q.knote[n]],
                        polled |-> q.polled, stale |-> q.stale]
  BY DEF closeFd, Registry, Knotes
<1>2. QED
  BY <1>1 DEF Registry, Knotes

\* The loop takes up an event, and lets go of it.
LEMMA PollEventsType ==
    ASSUME NEW q \in Registry, NEW n \in Knotes, q.knote[n] # None
    PROVE  pollEvents(q, n) \in Registry
<1>1. [fd |-> n[1], info |-> q.knote[n]] \in Polled /\ n[1] \in Descriptors
  BY DEF Registry, Knotes, Polled
<1>2. Follow(q, n[1], q.knote[n]) \in SUBSET Descriptors
  BY <1>1 DEF Follow, Registry
<1>3. QED
  BY <1>1, <1>2 DEF pollEvents, Registry

LEMMA DoneType ==
    ASSUME NEW q \in Registry
    PROVE  Done(q) \in Registry /\ Done(q).knote = q.knote
<1>1. q.polled # None => Follow(q, q.polled.fd, q.polled.info) \in SUBSET Descriptors
  BY DEF Follow, Registry, Polled
<1>2. QED
  BY <1>1 DEF Done, Registry

-----------------------------------------------------------------------------
(* No udata dangles. *)

\* Deleting an object changes only what points at it.
LEMMA DeleteInfoOthers ==
    ASSUME NEW q \in Registry, NEW fd \in Descriptors, NEW key \in Int
    PROVE  LET d == DeleteInfo(q, fd, key)
           IN  /\ d.infos = q.infos \ {<<fd, key>>}
               /\ \A n \in Knotes : ~(n[1] = fd /\ q.knote[n] # None /\ q.knote[n].type = key)
                                     => d.knote[n] = q.knote[n]
               /\ ~(q.polled # None /\ q.polled.fd = fd /\ q.polled.info.type = key)
                     => d.polled = q.polled
               /\ d.stale = q.stale
<1>1. CASE <<fd, key>> \notin q.infos
  BY <1>1 DEF DeleteInfo
<1>2. CASE <<fd, key>> \in q.infos
  <2> DEFINE k(n) == IF n[1] = fd /\ q.knote[n] # None
                     THEN Dangling(q.knote[n], key) ELSE q.knote[n]
             p    == IF q.polled # None /\ q.polled.fd = fd
                     THEN [fd |-> fd, info |-> Dangling(q.polled.info, key)] ELSE q.polled
  <2>1. DeleteInfo(q, fd, key) = [infos  |-> q.infos \ {<<fd, key>>},
                                  knote  |-> [n \in Knotes |-> k(n)],
                                  polled |-> p,
                                  stale  |-> q.stale]
    BY <1>2 DEF DeleteInfo, Registry, Knotes
  <2>2. \A n \in Knotes : ~(n[1] = fd /\ q.knote[n] # None /\ q.knote[n].type = key)
                            => k(n) = q.knote[n]
    BY DanglingType DEF Registry, Knotes
  <2>3. ~(q.polled # None /\ q.polled.fd = fd /\ q.polled.info.type = key) => p = q.polled
    <3>1. q.polled # None => q.polled \in [fd: Descriptors, info: EventInfo]
      BY DEF Registry, Polled
    <3>2. q.polled # None /\ q.polled.fd = fd /\ q.polled.info.type # key
            => Dangling(q.polled.info, key) = q.polled.info
      BY <3>1, DanglingType
    <3>3. QED
      BY <3>1, <3>2
  <2> HIDE DEF k, p
  <2>4. QED
    BY <2>1, <2>2, <2>3
<1>3. QED
  BY <1>1, <1>2

\* addEvent deletes the object registered before for the descriptor and the type. That
\* is safe when the kernel takes the new one in its place, or had none, and when the
\* loop does not hold the old one.
LEMMA AddEventSafe ==
    ASSUME NEW q \in Registry, NoDangling(q),
           NEW attaches \in BOOLEAN, NEW fd \in Fds, NEW type \in Types, NEW srv \in Servers,
           NEW client \in Fds \cup {None},
           type # SERVER, type = CGI_RESPONSE => client # None,
           ~attaches => q.knote[<<fd, getFilter(type)>>] = None,
           ~(q.polled # None /\ q.polled.fd = fd /\ q.polled.info.type = type)
    PROVE  LET r == addEvent(q, attaches, fd, type, srv, client)
           IN  NoDangling(r) /\ r.polled = q.polled
<1> DEFINE info == [type |-> type, srv |-> srv, client |-> client, live |-> TRUE]
           k == <<fd, getFilter(type)>>
           d == DeleteInfo(q, fd, type)
           r == addEvent(q, attaches, fd, type, srv, client)
<1>0. type \in Int /\ fd \in Descriptors /\ fd \notin Servers /\ k \in Knotes
  BY DescriptorsAssumption
     DEF Types, SERVER, CGI_RESPONSE, Descriptors, Knotes, getFilter, Filters
<1>1. d \in Registry
  BY <1>0, DeleteInfoType
<1>2. /\ d.infos = q.infos \ {<<fd, type>>}
      /\ \A n \in Knotes : ~(n[1] = fd /\ q.knote[n] # None /\ q.knote[n].type = type)
                            => d.knote[n] = q.knote[n]
      /\ d.polled = q.polled
      /\ d.stale = q.stale
  BY <1>0, DeleteInfoOthers
<1>3. r = [infos  |-> d.infos \cup {<<fd, type>>},
           knote  |-> IF attaches THEN [d.knote EXCEPT ![k] = info] ELSE d.knote,
           polled |-> d.polled,
           stale  |-> d.stale]
  <2>1. r = [d EXCEPT !.infos = @ \cup {<<fd, type>>},
                      !.knote = IF attaches THEN [@ EXCEPT ![k] = info] ELSE @]
    BY DEF addEvent
  <2> HIDE DEF d, k, info, r
  <2>2. QED
    BY <2>1, <1>1 DEF Registry
<1>4. info.live /\ info.type = type /\ info.client = client
  OBVIOUS
<1>4a. info # None
  <2>1. info \in EventInfo
    BY DEF EventInfo
  <2>2. QED
    BY <2>1, NoneAssumption
<1>5. InfoLive(r, fd, info)
  BY <1>0, <1>3, <1>4 DEF InfoLive
<1>6. q.infos \subseteq r.infos
  BY <1>2, <1>3
<1> HIDE DEF d, info, r
<1>7. \A n \in Knotes : r.knote[n] # None =>
          InfoLive(r, n[1], r.knote[n]) /\ getFilter(r.knote[n].type) = n[2]
  <2> SUFFICES ASSUME NEW n \in Knotes, r.knote[n] # None
               PROVE  InfoLive(r, n[1], r.knote[n]) /\ getFilter(r.knote[n].type) = n[2]
    OBVIOUS
  <2>1. q.knote[n] # None => InfoLive(q, n[1], q.knote[n]) /\ getFilter(q.knote[n].type) = n[2]
    BY DEF NoDangling, Knotes
  <2>2. n[1] = fd /\ q.knote[n] # None /\ q.knote[n].type = type => n = k
    BY <2>1 DEF Knotes
  <2>3. CASE n # k
    <3>1. r.knote[n] = d.knote[n] /\ d.knote[n] = q.knote[n]
      BY <2>2, <2>3, <1>1, <1>2, <1>3 DEF Registry, Knotes
    <3>2. QED
      BY <3>1, <2>1, <1>6 DEF InfoLive
  <2>4. CASE n = k /\ attaches
    <3>1. r.knote[n] = info /\ n[1] = fd /\ n[2] = getFilter(type)
      BY <2>4, <1>0, <1>1, <1>3 DEF Registry, Knotes
    <3>2. QED
      BY <3>1, <1>4, <1>4a, <1>5
  <2>5. CASE n = k /\ ~attaches
    BY <2>5, <1>2, <1>3
  <2>6. QED
    BY <2>3, <2>4, <2>5
<1>8. r.polled = q.polled /\ r.stale = {}
  BY <1>2, <1>3 DEF NoDangling
<1>9. r.polled # None => InfoLive(r, r.polled.fd, r.polled.info)
  BY <1>6, <1>8 DEF NoDangling, InfoLive
<1>10. QED
  BY <1>7, <1>8, <1>9 DEF NoDangling, Knotes, r

\* removeEvent searches the map under a filter, which is never a key: the object is
\* leaked and nothing dangles.
LEMMA RemoveEventSafe ==
    ASSUME NEW q \in Registry, NoDangling(q), NEW fd \in Descriptors, NEW filter \in Filters
    PROVE  LET r == removeEvent(q, fd, filter)
           IN  NoDangling(r) /\ r.polled = q.polled
<1> DEFINE d == DeleteInfo(q, fd, filter)
           k == <<fd, filter>>
           r == removeEvent(q, fd, filter)
<1>0. filter \in Int /\ filter \notin Types /\ k \in Knotes
  BY DEF Filters, EVFILT_READ, EVFILT_WRITE, Types, SERVER, CGI_RESPONSE, Knotes
<1>1. d \in Registry
  BY <1>0, DeleteInfoType
<1>2. \A n \in Knotes : q.knote[n] # None => q.knote[n].type \in Types
  BY DEF Registry, Knotes, EventInfo
<1>3. q.polled # None => q.polled.info.type \in Types
  BY DEF Registry, Polled, EventInfo
<1>4. /\ d.infos = q.infos \ {k}
      /\ \A n \in Knotes : d.knote[n] = q.knote[n]
      /\ d.polled = q.polled
      /\ d.stale = q.stale
  BY <1>0, <1>2, <1>3, DeleteInfoOthers
<1>5. r = [infos |-> d.infos, knote |-> [d.knote EXCEPT ![k] = None],
           polled |-> d.polled, stale |-> d.stale]
  <2>1. r = [d EXCEPT !.knote = [@ EXCEPT ![k] = None]]
    BY DEF removeEvent
  <2> HIDE DEF d, k, r
  <2>2. QED
    BY <2>1, <1>1 DEF Registry
<1>6. \A f, info : info \in EventInfo /\ InfoLive(q, f, info) => InfoLive(r, f, info)
  BY <1>0, <1>4, <1>5 DEF InfoLive, EventInfo
<1>7. \A n \in Knotes : r.knote[n] # None => r.knote[n] = q.knote[n]
  BY <1>0, <1>1, <1>4, <1>5 DEF Registry, Knotes
<1> HIDE DEF d, r
<1>8. r.polled = q.polled /\ r.stale = {}
  BY <1>4, <1>5 DEF NoDangling
<1>9. \A n \in Knotes : r.knote[n] # None =>
          InfoLive(r, n[1], r.knote[n]) /\ getFilter(r.knote[n].type) = n[2]
  <2>1. \A n \in Knotes : q.knote[n] # None =>
           /\ q.knote[n] \in EventInfo
           /\ InfoLive(q, n[1], q.knote[n])
           /\ getFilter(q.knote[n].type) = n[2]
    BY DEF NoDangling, Registry, Knotes
  <2>2. QED
    BY <2>1, <1>6, <1>7
<1>10. r.polled # None => InfoLive(r, r.polled.fd, r.polled.info)
  <2>1. q.polled # None => q.polled.info \in EventInfo
    BY DEF Registry, Polled
  <2>2. QED
    BY <2>1, <1>6, <1>8 DEF NoDangling
<1>11. QED
  BY <1>8, <1>9, <1>10 DEF NoDangling, Knotes, r

\* Closing a descriptor leaves its objects in the map.
LEMMA CloseFdSafe ==
    ASSUME NEW q \in Registry, NoDangling(q), NEW fd \in Descriptors
    PROVE  NoDangling(closeFd(q, fd)) /\ closeFd(q, fd).polled = q.polled
<1> DEFINE r == closeFd(q, fd)
<1>1. r.infos = q.infos /\ r.polled = q.polled /\ r.stale = q.stale
  BY CloseFdType
<1>2. \A n \in Knotes : r.knote[n] # None => r.knote[n] = q.knote[n]
  BY CloseFdType
<1> HIDE DEF r
<1>3. \A f, info : InfoLive(q, f, info) => InfoLive(r, f, info)
  BY <1>1 DEF InfoLive
<1>4. QED
  BY <1>1, <1>2, <1>3 DEF NoDangling, Knotes, r

\* What is registered can be followed.
LEMMA PollEventsSafe ==
    ASSUME NEW q \in Registry, NoDangling(q), NEW n \in Knotes, q.knote[n] # None
    PROVE  LET r == pollEvents(q, n)
           IN  /\ NoDangling(r)
               /\ r.knote = q.knote
               /\ r.polled = [fd |-> n[1], info |-> q.knote[n]]
               /\ r.polled # None
<1> DEFINE r == pollEvents(q, n)
<1>1. InfoLive(q, n[1], q.knote[n])
  BY DEF NoDangling, Knotes
<1>2. Follow(q, n[1], q.knote[n]) = {}
  BY <1>1 DEF Follow, InfoLive, NoDangling
<1>3. r = [infos |-> q.infos, knote |-> q.knote,
           polled |-> [fd |-> n[1], info |-> q.knote[n]], stale |-> {}]
  BY <1>2 DEF pollEvents
<1>4. r.polled # None
  <2>1. [fd |-> n[1], info |-> q.knote[n]] \in Polled
    BY DEF Registry, Knotes, Polled
  <2>2. QED
    BY <1>3, <2>1, NoneAssumption
<1>5. \A f, info : InfoLive(q, f, info) => InfoLive(r, f, info)
  BY <1>3 DEF InfoLive
<1>6. r.polled.fd = n[1] /\ r.polled.info = q.knote[n] /\ r.stale = {} /\ r.knote = q.knote
  BY <1>3
<1> HIDE DEF r
<1>7. NoDangling(r)
  BY <1>1, <1>5, <1>6 DEF NoDangling, Knotes
<1>8. QED
  BY <1>3, <1>4, <1>7 DEF r

\* What is held can be read until the end of processEvents.
LEMMA DoneSafe ==
    ASSUME NEW q \in Registry, NoDangling(q)
    PROVE  NoDangling(Done(q)) /\ Done(q).polled = None
<1> DEFINE r == Done(q)
<1>1. q.polled # None => Follow(q, q.polled.fd, q.polled.info) = {}
  BY DEF Follow, InfoLive, NoDangling
<1>2. r.infos = q.infos /\ r.knote = q.knote /\ r.polled = None /\ r.stale = {}
  BY <1>1 DEF Done, NoDangling
<1>3. \A f, info : InfoLive(q, f, info) => InfoLive(r, f, info)
  BY <1>2 DEF InfoLive
<1> HIDE DEF r
<1>4. QED
  BY <1>2, <1>3 DEF NoDangling, Knotes, r

-----------------------------------------------------------------------------
(* The invariant. *)

\* A waiting client waits at its own server.
BacklogHome == \A s \in Servers : \A i \in DOMAIN backlog[s] : Home[backlog[s][i]] = s

\* A polled SERVER event has a client to accept.
AcceptWaits ==
    kq.polled # None /\ kq.polled.info.type = SERVER => backlog[kq.polled.fd] # <<>>

\* A request is numbered within its bound, and one that is incomplete was begun.
SentBounded == \A c \in Clients : Len(sent[c]) <= MaxReq /\ (half[c] => sent[c] # <<>>)

Tables == [Servers -> [Fds -> Connection \cup {None}]]

\* The registry and the kernel; what else the server writes; the rest.
RegistryInv ==
    /\ kq \in Registry /\ UdataLive /\ OpenIsWatched
    /\ sock \in [Fds -> Clients \cup {None}]
    /\ pipe \in [Fds -> Origins \cup {None}]
    /\ peer \in [Clients -> PeerStates]

TableInv ==
    /\ conn \in Tables
    /\ got \in [Clients -> Seq(Response)]
    /\ pc \in {"poll", "process"}
    /\ up \in {"up"} \cup Exits

EnvInv ==
    /\ backlog \in [Servers -> Seq(Clients)] /\ BacklogHome
    /\ inbuf \in [Clients -> Seq(Segments)]
    /\ sent \in [Clients -> Seq(Kinds)]
    /\ half \in [Clients -> BOOLEAN] /\ SentBounded
    /\ proc \in [Origins -> Process]

IInv == RegistryInv /\ TableInv /\ EnvInv /\ AcceptWaits
-----------------------------------------------------------------------------
(* Connections and the tables that hold them. *)

LEMMA LimitType == Limit \in Nat
BY WebserverAssumption DEF Limit

LEMMA FreshType == NewConnection \in Connection
BY LimitType DEF NewConnection, Connection

\* The assignments handlers make to the members of a Connection keep its type.
LEMMA MemberTypes ==
    ASSUME NEW c \in Connection
    PROVE  /\ c # None
           /\ [c EXCEPT !.age = 0] \in Connection
           /\ c.age <= Limit => [c EXCEPT !.age = @ + 1] \in Connection
           /\ \A b \in Seq(Segments) : [c EXCEPT !.buf = b] \in Connection
           /\ \A q \in Seq(Response) : [c EXCEPT !.queue = q] \in Connection
           /\ \A f \in [Fds -> SUBSET Origins] : [c EXCEPT !.cgi = f] \in Connection
<1>1. c # None
  BY NoneIsNoObject
<1>2. [c EXCEPT !.age = 0] \in Connection
  BY LimitType DEF Connection
<1>2a. c.age <= Limit => [c EXCEPT !.age = @ + 1] \in Connection
  <2>1. c.age \in 0..(Limit + 1) /\ (c.age <= Limit => c.age + 1 \in 0..(Limit + 1))
    BY LimitType DEF Connection
  <2>2. \A a \in 0..(Limit + 1) : [c EXCEPT !.age = a] \in Connection
    BY DEF Connection
  <2>3. QED
    BY <2>1, <2>2
<1>3. \A b \in Seq(Segments) : [c EXCEPT !.buf = b] \in Connection
  BY DEF Connection
<1>4. \A q \in Seq(Response) : [c EXCEPT !.queue = q] \in Connection
  BY DEF Connection
<1>5. \A f \in [Fds -> SUBSET Origins] : [c EXCEPT !.cgi = f] \in Connection
  BY DEF Connection
<1>6. QED
  BY <1>1, <1>2, <1>2a, <1>3, <1>4, <1>5

LEMMA PutType ==
    ASSUME NEW cn \in Tables, NEW s \in Servers, NEW fd \in Fds, NEW c \in Connection \cup {None}
    PROVE  /\ Put(cn, s, fd, c) \in Tables
           /\ removeConnection(cn, s, fd) \in Tables
BY DEF Put, removeConnection, Tables

LEMMA TouchType ==
    ASSUME conn \in Tables, NEW s \in Servers, NEW fd \in Fds
    PROVE  updateLastActiveTime(s, fd) \in Tables
<1>1. CASE conn[s][fd] = None
  BY <1>1 DEF updateLastActiveTime
<1>2. CASE conn[s][fd] # None
  <2>1. [conn[s][fd] EXCEPT !.age = 0] \in Connection
    BY <1>2, MemberTypes, ZenonT(30) DEF Tables
  <2>2. updateLastActiveTime(s, fd) = [conn EXCEPT ![s][fd] = [conn[s][fd] EXCEPT !.age = 0]]
    BY <1>2 DEF updateLastActiveTime, Tables
  <2>3. QED
    BY <2>1, <2>2 DEF Tables
<1>3. QED
  BY <1>1, <1>2

-----------------------------------------------------------------------------
(* The buffer. *)

\* A buffer with a complete request has a segment that completes the first.
LEMMA RequestEndType ==
    ASSUME NEW buf \in Seq(Segments), hasRequest(buf)
    PROVE  /\ RequestEnd(buf) \in 1..Len(buf)
           /\ buf[RequestEnd(buf)].last
<1> DEFINE T == {i \in DOMAIN buf : buf[i].last}
<1>1. T \subseteq Nat /\ T # {}
  BY DEF hasRequest
<1>2. PICK i \in T : \A j \in T : ~(<<j, i>> \in OpToRel(<, Nat))
  BY <1>1, NatLessThanWellFounded, WFMin
<1>3. buf[i].last /\ \A j \in DOMAIN buf : j < i => ~buf[j].last
  BY <1>1, <1>2 DEF OpToRel
<1>4. i \in DOMAIN buf
  OBVIOUS
<1>5. QED
  BY <1>3, <1>4 DEF RequestEnd

LEMMA RestType ==
    ASSUME NEW c \in Connection, hasRequest(c.buf)
    PROVE  Rest(c) \in Connection
<1>1. c.buf \in Seq(Segments)
  BY DEF Connection
<1>2. SubSeq(c.buf, RequestEnd(c.buf) + 1, Len(c.buf)) \in Seq(Segments)
  BY <1>1, RequestEndType, SubSeqProperties
<1>3. QED
  BY <1>2, MemberTypes DEF Rest

-----------------------------------------------------------------------------
(* Steps of the registry. *)

\* What a registry must have kept of a descriptor that stays what it is.
KeptAt(q, fd) ==
    /\ SameKnote(kq.knote[<<fd, EVFILT_READ>>], q.knote[<<fd, EVFILT_READ>>])
    /\ sock[fd] = None /\ pipe[fd] = None => q.knote[<<fd, EVFILT_WRITE>>] = None

LEMMA KnoteNames ==
    ASSUME NEW fd \in Descriptors
    PROVE  /\ <<fd, EVFILT_READ>> \in Knotes /\ <<fd, EVFILT_WRITE>> \in Knotes
           /\ <<fd, EVFILT_READ>> # <<fd, EVFILT_WRITE>>
           /\ \A n \in Knotes : n[1] \in Descriptors /\ n[2] \in Filters
BY DEF Knotes, Filters, EVFILT_READ, EVFILT_WRITE

\* Nothing is lost when every descriptor keeps its knote.
LEMMA KeptIsWatched ==
    ASSUME OpenIsWatched, NEW q, \A fd \in Fds : KeptAt(q, fd),
           kq'.knote = q.knote, UNCHANGED <<sock, pipe>>
    PROVE  OpenIsWatched'
BY DEF OpenIsWatched, KeptAt, SameKnote

\* The end of processEvents on a registry that keeps every knote.
LEMMA DoneStep ==
    ASSUME RegistryInv, NEW q \in Registry, NoDangling(q), \A fd \in Fds : KeptAt(q, fd),
           kq' = Done(q), UNCHANGED kernelVars
    PROVE  RegistryInv' /\ kq'.polled = None
<1>1. kq' \in Registry /\ kq'.knote = q.knote
  BY DoneType
<1>2. UdataLive' /\ kq'.polled = None
  BY DoneSafe DEF UdataLive
<1>3. OpenIsWatched'
  BY <1>1, KeptIsWatched DEF RegistryInv, kernelVars
<1>4. QED
  BY <1>1, <1>2, <1>3 DEF RegistryInv, kernelVars

\* Without a change to the registry every knote is kept.
LEMMA KeptAsItIs ==
    ASSUME OpenIsWatched
    PROVE  \A fd \in Fds : KeptAt(kq, fd)
BY DEF KeptAt, OpenIsWatched, SameKnote

\* close(fd) on a registry that keeps the knotes of the others.
LEMMA CloseStep ==
    ASSUME RegistryInv, NEW q \in Registry, NoDangling(q), NEW fd \in Fds,
           \A g \in Fds : g # fd => KeptAt(q, g),
           close(fd, q)
    PROVE  RegistryInv' /\ kq'.polled = q.polled
<1>0. fd \in Descriptors /\ Fds \subseteq Descriptors
  BY DEF Descriptors
<1>1. /\ kq' \in Registry
      /\ \A n \in Knotes : kq'.knote[n] = IF n[1] = fd THEN None ELSE q.knote[n]
  BY <1>0, CloseFdType DEF close
<1>2. UdataLive' /\ kq'.polled = q.polled
  BY <1>0, CloseFdSafe DEF close, UdataLive
<1>3. /\ sock' \in [Fds -> Clients \cup {None}]
      /\ pipe' \in [Fds -> Origins \cup {None}]
      /\ peer' \in [Clients -> PeerStates]
  BY DEF close, RegistryInv, PeerStates
<1>4. OpenIsWatched'
  <2> SUFFICES ASSUME NEW g \in Fds
               PROVE  LET k == kq'.knote[<<g, EVFILT_READ>>] IN
                      /\ sock'[g] # None => /\ pipe'[g] = None
                                            /\ k # None /\ k.type = REQUEST
                                            /\ k.srv = Home[sock'[g]]
                      /\ pipe'[g] # None => k # None /\ k.type = CGI_RESPONSE
                      /\ sock'[g] = None /\ pipe'[g] = None =>
                            k = None /\ kq'.knote[<<g, EVFILT_WRITE>>] = None
    BY DEF OpenIsWatched
  <2>0. <<g, EVFILT_READ>> \in Knotes /\ <<g, EVFILT_WRITE>> \in Knotes
    BY <1>0, KnoteNames
  <2>1. CASE g = fd
    BY <2>0, <2>1, <1>1 DEF close, RegistryInv
  <2>2. CASE g # fd
    <3>1. KeptAt(q, g)
      BY <2>2
    <3>2. /\ kq'.knote[<<g, EVFILT_READ>>] = q.knote[<<g, EVFILT_READ>>]
          /\ kq'.knote[<<g, EVFILT_WRITE>>] = q.knote[<<g, EVFILT_WRITE>>]
      BY <2>0, <2>2, <1>1
    <3>3. sock'[g] = sock[g] /\ pipe'[g] = pipe[g]
      BY <2>2 DEF close, RegistryInv
    <3>4. QED
      BY <3>1, <3>2, <3>3 DEF KeptAt, SameKnote, OpenIsWatched, RegistryInv
  <2>3. QED
    BY <2>1, <2>2
<1>5. QED
  BY <1>1, <1>2, <1>3, <1>4 DEF RegistryInv

\* The write event is asked for while the loop holds an event of another type. A
\* refusal means that there is no write event whose object could be deleted.
LEMMA ResponseAdded ==
    ASSUME RegistryInv, kq.polled # None, kq.polled.info.type # RESPONSE,
           NEW fd \in Fds, NEW s \in Servers
    PROVE  LET q == addEvent(kq, Attaches(fd, EVFILT_WRITE), fd, RESPONSE, s, None)
           IN  /\ q \in Registry /\ NoDangling(q) /\ q.polled = kq.polled
               /\ \A g \in Fds : KeptAt(q, g)
<1> DEFINE a == Attaches(fd, EVFILT_WRITE)
           q == addEvent(kq, a, fd, RESPONSE, s, None)
<1>0. fd \in Descriptors /\ Fds \subseteq Descriptors /\ kq \in Registry /\ NoDangling(kq)
  BY DEF Descriptors, RegistryInv, UdataLive
<1>1. RESPONSE \in Types /\ RESPONSE # SERVER /\ RESPONSE # CGI_RESPONSE
      /\ getFilter(RESPONSE) = EVFILT_WRITE
  BY DEF RESPONSE, SERVER, CGI_RESPONSE, Types, getFilter
<1>2. a \in BOOLEAN
  BY DEF Attaches
<1>3. ~a => kq.knote[<<fd, EVFILT_WRITE>>] = None
  BY DEF Attaches, Registered, RegistryInv, OpenIsWatched
<1>4. ~a => sock[fd] = None
  BY DEF Attaches
<1>4a. a => ~(sock[fd] = None /\ pipe[fd] = None)
  BY DEF Attaches
<1> HIDE DEF a
<1>5. NoDangling(q) /\ q.polled = kq.polled
  BY <1>0, <1>1, <1>2, <1>3, AddEventSafe
<1>6. /\ q \in Registry
      /\ \A n \in Knotes : n # <<fd, EVFILT_WRITE>> => SameKnote(kq.knote[n], q.knote[n])
      /\ ~a => SameKnote(kq.knote[<<fd, EVFILT_WRITE>>], q.knote[<<fd, EVFILT_WRITE>>])
  BY <1>0, <1>1, <1>2, AddEventType
<1> HIDE DEF q
<1>7. ASSUME NEW g \in Fds
      PROVE  KeptAt(q, g)
  <2>1. <<g, EVFILT_READ>> \in Knotes /\ <<g, EVFILT_WRITE>> \in Knotes
        /\ <<g, EVFILT_READ>> # <<fd, EVFILT_WRITE>>
    BY <1>0, KnoteNames DEF EVFILT_READ, EVFILT_WRITE
  <2>2. SameKnote(kq.knote[<<g, EVFILT_READ>>], q.knote[<<g, EVFILT_READ>>])
    BY <2>1, <1>6
  <2>3. sock[g] = None /\ pipe[g] = None => kq.knote[<<g, EVFILT_WRITE>>] = None
    BY DEF RegistryInv, OpenIsWatched
  <2>4. sock[g] = None /\ pipe[g] = None =>
           SameKnote(kq.knote[<<g, EVFILT_WRITE>>], q.knote[<<g, EVFILT_WRITE>>])
    BY <2>1, <1>4a, <1>6
  <2>5. QED
    BY <2>2, <2>3, <2>4 DEF KeptAt, SameKnote
<1>8. QED
  BY <1>5, <1>6, <1>7 DEF q, a

\* removeEvent drops one knote of one descriptor, and no READ knote of another.
LEMMA EventRemoved ==
    ASSUME NEW q \in Registry, NoDangling(q), NEW fd \in Fds, NEW filter \in Filters,
           \A g \in Fds : KeptAt(q, g)
    PROVE  LET r == removeEvent(q, fd, filter)
           IN  /\ r \in Registry /\ NoDangling(r) /\ r.polled = q.polled
               /\ \A g \in Fds : g # fd \/ filter = EVFILT_WRITE => KeptAt(r, g)
<1> DEFINE r == removeEvent(q, fd, filter)
<1>0. fd \in Descriptors /\ Fds \subseteq Descriptors
  BY DEF Descriptors
<1>1. NoDangling(r) /\ r.polled = q.polled
  BY <1>0, RemoveEventSafe
<1>2. /\ r \in Registry /\ r.knote[<<fd, filter>>] = None
      /\ \A n \in Knotes : n # <<fd, filter>> => SameKnote(q.knote[n], r.knote[n])
  BY <1>0, RemoveEventType
<1> HIDE DEF r
<1>3. ASSUME NEW g \in Fds, g # fd \/ filter = EVFILT_WRITE
      PROVE  KeptAt(r, g)
  <2>1. /\ <<g, EVFILT_READ>> \in Knotes /\ <<g, EVFILT_WRITE>> \in Knotes
        /\ <<g, EVFILT_READ>> # <<fd, filter>>
    BY <1>0, <1>3, KnoteNames DEF EVFILT_READ, EVFILT_WRITE
  <2>2. SameKnote(q.knote[<<g, EVFILT_READ>>], r.knote[<<g, EVFILT_READ>>])
    BY <2>1, <1>2
  <2>3. q.knote[<<g, EVFILT_WRITE>>] = None => r.knote[<<g, EVFILT_WRITE>>] = None
    BY <2>1, <1>2 DEF SameKnote
  <2>4. QED
    BY <2>2, <2>3 DEF KeptAt, SameKnote
<1>4. QED
  BY <1>1, <1>2, <1>3 DEF r

-----------------------------------------------------------------------------
(* What a handler starts from. *)

\* The registered object tells what the descriptor of the event is.
LEMMA EventFacts ==
    ASSUME RegistryInv, kq.polled # None
    PROVE  /\ kq \in Registry /\ NoDangling(kq)
           /\ kq.polled.info \in EventInfo /\ kq.polled.info.type \in Types
           /\ Fd \in Descriptors /\ Srv \in Servers
           /\ kq.polled.info.type = SERVER => Fd \in Servers /\ Srv = Fd
           /\ kq.polled.info.type # SERVER => Fd \in Fds
           /\ kq.polled.info.type = CGI_RESPONSE => CgiTo \in Fds
<1>1. kq.polled \in [fd: Descriptors, info: EventInfo]
  BY DEF RegistryInv, Registry, Polled
<1>2. InfoLive(kq, Fd, kq.polled.info)
  BY DEF RegistryInv, UdataLive, NoDangling, Fd
<1>3. kq.polled.info.type \in Types /\ Srv \in Servers /\ CgiTo \in Fds \cup {None}
  BY <1>1 DEF EventInfo, Srv, CgiTo
<1>4. Fd \in Descriptors
  BY <1>1 DEF Fd
<1>5. QED
  BY <1>1, <1>2, <1>3, <1>4 DEF InfoLive, Fd, Srv, CgiTo, Descriptors, RegistryInv, UdataLive

LEMMA EventTypes ==
    /\ SERVER \in Types /\ REQUEST \in Types /\ RESPONSE \in Types /\ CGI_RESPONSE \in Types
    /\ SERVER # REQUEST /\ SERVER # RESPONSE /\ SERVER # CGI_RESPONSE
    /\ REQUEST # RESPONSE /\ REQUEST # CGI_RESPONSE /\ RESPONSE # CGI_RESPONSE
    /\ EVFILT_READ \in Filters /\ EVFILT_WRITE \in Filters /\ EVFILT_READ # EVFILT_WRITE
    /\ getFilter(REQUEST) = EVFILT_READ /\ getFilter(CGI_RESPONSE) = EVFILT_READ
BY DEF SERVER, REQUEST, RESPONSE, CGI_RESPONSE, Types, Filters, EVFILT_READ, EVFILT_WRITE, getFilter

LEMMA DeliveredType ==
    ASSUME got \in [Clients -> Seq(Response)], sock \in [Fds -> Clients \cup {None}],
           NEW fd \in Fds, "ok" \in send(fd), NEW r \in Response
    PROVE  Delivered(fd, r) \in [Clients -> Seq(Response)]
<1>1. sock[fd] \in Clients
  BY DEF send
<1>2. QED
  BY <1>1 DEF Delivered

\* An exit leaves everything but up as it was.
LEMMA ExitStep ==
    ASSUME RegistryInv, TableInv, NEW r \in Exits, Exit(r)
    PROVE  RegistryInv' /\ TableInv' /\ kq' = kq
<1>1. UNCHANGED <<kq, conn, sock, pipe, peer, got, pc>>
  BY DEF Exit, serverVars
<1>2. up' \in {"up"} \cup Exits
  BY DEF Exit
<1>3. RegistryInv'
  BY <1>1 DEF RegistryInv, UdataLive, OpenIsWatched
<1>4. QED
  BY <1>1, <1>2, <1>3 DEF TableInv

\* handleError sends, or fails to and closes, or is killed.
LEMMA HandleErrorStep ==
    ASSUME RegistryInv, TableInv, NEW cn \in Tables, NEW s \in Servers, NEW fd \in Fds,
           NEW r \in Response, handleError(cn, s, fd, r)
    PROVE  RegistryInv' /\ TableInv' /\ kq'.polled \in {None, kq.polled}
<1>0. /\ kq \in Registry /\ NoDangling(kq)
      /\ \A g \in Fds : KeptAt(kq, g)
  BY KeptAsItIs DEF RegistryInv, UdataLive
<1>1. CASE /\ "ok" \in send(fd)
           /\ got' = Delivered(fd, r) /\ conn' = cn /\ kq' = Done(kq)
           /\ pc' = "poll" /\ UNCHANGED <<kernelVars, up>>
  <2>1. RegistryInv' /\ kq'.polled = None
    BY <1>0, <1>1, DoneStep
  <2>2. got' \in [Clients -> Seq(Response)]
    BY <1>1, DeliveredType DEF RegistryInv, TableInv
  <2>3. QED
    BY <1>1, <2>1, <2>2 DEF TableInv
<1>2. CASE /\ closeConnection(cn, s, fd)
           /\ pc' = "poll" /\ UNCHANGED <<got, up>>
  <2>1. Done(kq) \in Registry /\ NoDangling(Done(kq)) /\ Done(kq).polled = None
        /\ Done(kq).knote = kq.knote
    BY <1>0, DoneType, DoneSafe
  <2>2. \A g \in Fds : KeptAt(Done(kq), g)
    BY <1>0, <2>1 DEF KeptAt
  <2>3. close(fd, Done(kq)) /\ conn' \in Tables
    BY <1>2, PutType DEF closeConnection
  <2>4. RegistryInv' /\ kq'.polled = None
    BY <2>1, <2>2, <2>3, CloseStep
  <2>5. QED
    BY <1>2, <2>3, <2>4 DEF TableInv
<1>3. CASE Exit("SIGPIPE")
  BY <1>3, ExitStep DEF Exits
<1>4. QED
  BY <1>1, <1>2, <1>3 DEF handleError

-----------------------------------------------------------------------------
(* The steps of the server, one lemma each. *)

LEMMA PollStep == IInv /\ Poll => IInv'
<1> SUFFICES ASSUME IInv, Poll PROVE IInv'
  OBVIOUS
<1>0. kq \in Registry /\ NoDangling(kq)
  BY DEF IInv, RegistryInv, UdataLive
<1>1. TableInv' /\ EnvInv'
  BY DEF Poll, IInv, TableInv, EnvInv, BacklogHome, SentBounded, clientVars
<1>2. UNCHANGED <<sock, pipe, peer, backlog>>
  BY DEF Poll, kernelVars
<1>3. CASE UNCHANGED kq
  BY <1>1, <1>2, <1>3 DEF IInv, RegistryInv, UdataLive, OpenIsWatched, AcceptWaits
<1>4. ASSUME NEW n \in Descriptors \X Filters, Ready(n), kq' = pollEvents(kq, n)
      PROVE  IInv'
  <2>1. n \in Knotes /\ kq.knote[n] # None
    BY <1>4, <1>0 DEF Ready, Registered, Knotes, Filters
  <2>2. /\ kq' \in Registry /\ NoDangling(kq')
        /\ kq'.knote = kq.knote
        /\ kq'.polled = [fd |-> n[1], info |-> kq.knote[n]]
    BY <1>0, <1>4, <2>1, PollEventsType, PollEventsSafe
  <2>3. RegistryInv'
    BY <2>2, <1>2 DEF IInv, RegistryInv, UdataLive, OpenIsWatched
  <2>4. kq.knote[n].type = SERVER => n[1] \in Servers
    BY <1>0, <2>1 DEF NoDangling, InfoLive, Knotes
  <2>5. AcceptWaits'
    <3>1. n[1] \in Servers => n[1] \notin Fds
      BY DescriptorsAssumption
    <3>2. QED
      BY <1>2, <1>4, <2>2, <2>4, <3>1 DEF AcceptWaits, Ready
  <2>6. QED
    BY <1>1, <2>3, <2>5 DEF IInv
<1>5. QED
  BY <1>3, <1>4 DEF Poll

LEMMA IdleStep == IInv /\ Idle => IInv'
BY DEF Idle, IInv, RegistryInv, UdataLive, OpenIsWatched, TableInv, EnvInv, BacklogHome,
       SentBounded, AcceptWaits, kernelVars, clientVars

LEMMA TimeoutStep ==
    ASSUME IInv, NEW s \in Servers, NEW fd \in Fds, validateLastActiveTime(s, fd)
    PROVE  IInv'
<1>0. /\ kq \in Registry /\ NoDangling(kq) /\ conn \in Tables
      /\ \A g \in Fds : KeptAt(kq, g)
  BY KeptAsItIs DEF IInv, RegistryInv, UdataLive, TableInv
<1>1. EnvInv' /\ backlog' = backlog
  BY DEF validateLastActiveTime, IInv, EnvInv, BacklogHome, SentBounded, clientVars
<1>2. CASE /\ "ok" \in send(fd)
           /\ got' = Delivered(fd, [code |-> 408, of |-> {}])
           /\ conn' = removeConnection(conn, s, fd)
           /\ close(fd, removeEvent(kq, fd, EVFILT_READ))
           /\ UNCHANGED <<pc, up>>
  <2> DEFINE q == removeEvent(kq, fd, EVFILT_READ)
  <2>1. /\ q \in Registry /\ NoDangling(q) /\ q.polled = kq.polled
        /\ \A g \in Fds : g # fd => KeptAt(q, g)
    BY <1>0, EventTypes, EventRemoved
  <2>2. close(fd, q)
    BY <1>2
  <2> HIDE DEF q
  <2>3. RegistryInv' /\ kq'.polled = kq.polled
    BY <2>1, <2>2, CloseStep DEF IInv
  <2>4. [code |-> 408, of |-> {}] \in Response
    BY DEF Response
  <2>5. TableInv'
    BY <1>0, <1>2, <2>4, DeliveredType, PutType, ZenonT(30) DEF TableInv, IInv, RegistryInv
  <2>6. QED
    BY <1>1, <2>3, <2>5 DEF IInv, AcceptWaits
<1>3. CASE Exit("removeEvent") \/ Exit("SIGPIPE")
  <2>1. RegistryInv' /\ TableInv' /\ kq' = kq
    BY <1>3, ExitStep DEF Exits, IInv
  <2>2. QED
    BY <1>1, <2>1 DEF IInv, AcceptWaits
<1>4. QED
  BY <1>2, <1>3 DEF validateLastActiveTime

\* A descriptor that was free comes into use with its READ knote.
LEMMA OpenedStep ==
    ASSUME RegistryInv, kq.polled # None,
           NEW fd \in Free, NEW type \in {REQUEST, CGI_RESPONSE}, NEW srv \in Servers,
           NEW client \in Fds \cup {None}, type = CGI_RESPONSE => client # None,
           ~(kq.polled.fd = fd /\ kq.polled.info.type = type),
           kq' = Done(addEvent(kq, TRUE, fd, type, srv, client)),
           NEW c \in Clients \cup {None}, NEW o \in Origins \cup {None},
           sock' = [sock EXCEPT ![fd] = c], pipe' = [pipe EXCEPT ![fd] = o], peer' = peer,
           type = REQUEST => c # None /\ o = None /\ srv = Home[c],
           type = CGI_RESPONSE => c = None /\ o # None
    PROVE  RegistryInv' /\ kq'.polled = None
<1> DEFINE q == addEvent(kq, TRUE, fd, type, srv, client)
           info == [type |-> type, srv |-> srv, client |-> client, live |-> TRUE]
<1>0. /\ kq \in Registry /\ NoDangling(kq)
      /\ fd \in Fds /\ fd \in Descriptors /\ Fds \subseteq Descriptors
      /\ sock[fd] = None /\ pipe[fd] = None
      /\ type \in Types /\ type # SERVER /\ getFilter(type) = EVFILT_READ
  BY EventTypes DEF RegistryInv, UdataLive, Free, Descriptors
<1>1. NoDangling(q)
  BY <1>0, AddEventSafe
<1>2. /\ q \in Registry
      /\ \A n \in Knotes : n # <<fd, EVFILT_READ>> => SameKnote(kq.knote[n], q.knote[n])
      /\ q.knote[<<fd, EVFILT_READ>>] = info
  BY <1>0, AddEventType
<1>3. kq' = Done(q)
  OBVIOUS
<1>4. info # None /\ info.type = type /\ info.srv = srv
  <2>1. info \in EventInfo
    BY <1>0 DEF EventInfo
  <2>2. QED
    BY <2>1, NoneAssumption
<1> HIDE DEF q, info
<1>5. kq' \in Registry /\ kq'.knote = q.knote /\ UdataLive' /\ kq'.polled = None
  BY <1>1, <1>2, <1>3, DoneType, DoneSafe DEF UdataLive
<1>6. OpenIsWatched'
  <2> SUFFICES ASSUME NEW g \in Fds
               PROVE  LET k == kq'.knote[<<g, EVFILT_READ>>] IN
                      /\ sock'[g] # None => /\ pipe'[g] = None
                                            /\ k # None /\ k.type = REQUEST
                                            /\ k.srv = Home[sock'[g]]
                      /\ pipe'[g] # None => k # None /\ k.type = CGI_RESPONSE
                      /\ sock'[g] = None /\ pipe'[g] = None =>
                            k = None /\ kq'.knote[<<g, EVFILT_WRITE>>] = None
    BY DEF OpenIsWatched
  <2>0. kq'.knote = q.knote
    BY <1>5
  <2>1. CASE g = fd
    BY <2>0, <2>1, <1>0, <1>2, <1>4, EventTypes DEF RegistryInv
  <2>2. CASE g # fd
    <3>1. /\ <<g, EVFILT_READ>> \in Knotes /\ <<g, EVFILT_WRITE>> \in Knotes
          /\ <<g, EVFILT_READ>> # <<fd, EVFILT_READ>> /\ <<g, EVFILT_WRITE>> # <<fd, EVFILT_READ>>
      BY <1>0, <2>2, KnoteNames DEF EVFILT_READ, EVFILT_WRITE
    <3>2. /\ SameKnote(kq.knote[<<g, EVFILT_READ>>], q.knote[<<g, EVFILT_READ>>])
          /\ SameKnote(kq.knote[<<g, EVFILT_WRITE>>], q.knote[<<g, EVFILT_WRITE>>])
      BY <1>2, <3>1
    <3>3. sock'[g] = sock[g] /\ pipe'[g] = pipe[g]
      BY <2>2 DEF RegistryInv
    <3>4. QED
      BY <2>0, <3>2, <3>3, ZenonT(30) DEF SameKnote, OpenIsWatched, RegistryInv
  <2>3. QED
    BY <2>1, <2>2
<1>7. QED
  BY <1>5, <1>6 DEF RegistryInv

LEMMA ConnectStep == IInv /\ connectClient => IInv'
<1> SUFFICES ASSUME IInv, connectClient PROVE IInv'
  OBVIOUS
<1> DEFINE s == Srv
           c == Head(backlog[s])
<1>0. kq.polled # None /\ kq.polled.info.type = SERVER /\ RegistryInv /\ TableInv /\ EnvInv
  BY DEF connectClient, Event, IInv
<1>1. s \in Servers /\ s = kq.polled.fd /\ s \notin Fds
  BY <1>0, EventFacts, DescriptorsAssumption DEF Fd
<1>2. backlog[s] \in Seq(Clients) /\ backlog[s] # <<>>
  BY <1>0, <1>1 DEF IInv, AcceptWaits, EnvInv
<1>3. c \in Clients /\ Home[c] = s
  BY <1>1, <1>2, <1>0 DEF EnvInv, BacklogHome
<1>4. UNCHANGED <<inbuf, sent, half, proc>>
  BY DEF connectClient, clientVars
<1>5. ASSUME NEW fd \in Fds, Nth(fd, 0),
             sock' = [sock EXCEPT ![fd] = c],
             conn' = Put(conn, s, fd, NewConnection),
             kq' = Done(addEvent(kq, TRUE, fd, REQUEST, s, None)),
             backlog' = [backlog EXCEPT ![s] = Tail(@)],
             pc' = "poll",
             UNCHANGED <<pipe, peer, got, up>>
      PROVE  IInv'
  <2>1. fd \in Free /\ pipe[fd] = None
    BY <1>5 DEF Nth, Free
  <2>2. pipe' = [pipe EXCEPT ![fd] = None]
    BY <1>5, <2>1, <1>0 DEF RegistryInv
  <2>3. c # None
    BY <1>3, NoneIsNoObject
  <2> HIDE DEF c, s
  <2>4. RegistryInv' /\ kq'.polled = None
    <3>1. /\ REQUEST \in {REQUEST, CGI_RESPONSE} /\ REQUEST # CGI_RESPONSE
          /\ None \in Fds \cup {None} /\ None \in Origins \cup {None}
          /\ s \in Servers /\ c \in Clients \cup {None}
          /\ ~(kq.polled.fd = fd /\ kq.polled.info.type = REQUEST)
          /\ c # None /\ s = Home[c]
      BY <1>0, <1>1, <1>3, <2>3, EventTypes
    <3>2. /\ kq' = Done(addEvent(kq, TRUE, fd, REQUEST, s, None))
          /\ sock' = [sock EXCEPT ![fd] = c] /\ peer' = peer
      BY <1>5
    <3>3. RegistryInv /\ kq.polled # None
      BY <1>0
    <3>4. QED
      BY <2>1, <2>2, <3>1, <3>2, <3>3, OpenedStep
  <2>5. TableInv'
    BY <1>0, <1>1, <1>5, PutType, FreshType DEF TableInv
  <2>6. backlog' \in [Servers -> Seq(Clients)] /\ BacklogHome'
    <3>1. /\ Tail(backlog[s]) \in Seq(Clients)
          /\ \A i \in DOMAIN Tail(backlog[s]) : /\ i + 1 \in DOMAIN backlog[s]
                                                /\ Tail(backlog[s])[i] = backlog[s][i + 1]
      BY <1>2
    <3>2. \A t \in Servers : backlog'[t] = IF t = s THEN Tail(backlog[s]) ELSE backlog[t]
      BY <1>5, <1>0 DEF EnvInv
    <3>3. QED
      BY <3>1, <3>2, <1>0, <1>1, <1>5, SMTT(30) DEF EnvInv, BacklogHome
  <2>7. EnvInv'
    BY <2>6, <1>4, <1>0 DEF EnvInv, SentBounded
  <2>8. QED
    BY <2>4, <2>5, <2>7 DEF IInv, AcceptWaits
<1>6. ASSUME NEW r \in Exits, Exit(r), UNCHANGED backlog
      PROVE  IInv'
  <2>1. RegistryInv' /\ TableInv' /\ kq' = kq
    BY <1>6, <1>0, ExitStep
  <2>2. EnvInv'
    BY <1>0, <1>4, <1>6 DEF EnvInv, BacklogHome, SentBounded
  <2>3. QED
    BY <2>1, <2>2, <1>6 DEF IInv, AcceptWaits
<1>7. QED
  BY <1>5, <1>6 DEF connectClient, Exits

\* After recv the Connection of the descriptor holds at least one segment.
LEMMA RecvFacts ==
    ASSUME IInv, NEW k, recv(k)
    PROVE  /\ kq.polled # None /\ kq.polled.info.type = REQUEST
           /\ Fd \in Fds /\ Srv \in Servers
           /\ inbuf' \in [Clients -> Seq(Segments)]
           /\ Appended(k) \in Connection
           /\ Appended(k).buf # <<>>
           /\ Appended(k).buf[1].req \in Origins
<1>1. kq.polled # None /\ kq.polled.info.type = REQUEST
  BY DEF recv, Event
<1>2. Fd \in Fds /\ Srv \in Servers
  BY <1>1, EventFacts, EventTypes DEF IInv
<1>3. sock[Fd] \in Clients
  BY <1>2 DEF recv, HasData, IInv, RegistryInv
<1> DEFINE b == inbuf[sock[Fd]]
<1>4. b \in Seq(Segments) /\ k \in 1..Len(b)
  BY <1>3 DEF recv, IInv, EnvInv
<1>5. /\ SubSeq(b, 1, k) \in Seq(Segments) /\ Len(SubSeq(b, 1, k)) = k
      /\ SubSeq(b, k + 1, Len(b)) \in Seq(Segments)
  <2>1. k \in Int /\ Len(b) \in Int /\ \A i \in 1..k : b[i] \in Segments
    BY <1>4
  <2>2. \A i \in (k + 1)..Len(b) : b[i] \in Segments
    BY <1>4
  <2>3. QED
    BY <1>4, <2>1, <2>2, SubSeqProperties
<1>6. inbuf' \in [Clients -> Seq(Segments)]
  BY <1>3, <1>5 DEF recv, IInv, EnvInv
<1> HIDE DEF b
<1>7. Touched \in Tables
  BY <1>2, TouchType DEF Touched, IInv, TableInv
<1> DEFINE c == IF Touched[Srv][Fd] = None THEN NewConnection ELSE Touched[Srv][Fd]
<1>8. c \in Connection
  BY <1>2, <1>7, FreshType DEF Tables
<1>9. Appended(k) = [c EXCEPT !.buf = @ \o SubSeq(b, 1, k)]
  BY DEF Appended, b
<1> HIDE DEF c
<1>10. c.buf \in Seq(Segments)
  BY <1>8 DEF Connection
<1>11. /\ c.buf \o SubSeq(b, 1, k) \in Seq(Segments)
       /\ Len(c.buf \o SubSeq(b, 1, k)) >= 1
  BY <1>4, <1>5, <1>10, ConcatProperties, LenProperties
<1>12. Appended(k) \in Connection /\ Appended(k).buf = c.buf \o SubSeq(b, 1, k)
  BY <1>8, <1>9, <1>11, MemberTypes DEF Connection
<1>13. Appended(k).buf[1] \in Segments
  BY <1>11, <1>12
<1>14. Appended(k).buf[1].req \in Origins
  BY <1>13 DEF Segments
<1>15. Appended(k).buf # <<>>
  <2>1. Len(Appended(k).buf) >= 1
    BY <1>11, <1>12
  <2>2. QED
    BY <2>1, Len(<<>>) = 0
<1>16. QED
  BY <1>1, <1>2, <1>6, <1>12, <1>14, <1>15

\* What a request handler leaves alone once it has received.
LEMMA EnvKept ==
    ASSUME IInv, inbuf' \in [Clients -> Seq(Segments)], proc' \in [Origins -> Process],
           UNCHANGED <<backlog, clientVars>>
    PROVE  EnvInv'
BY DEF IInv, EnvInv, BacklogHome, SentBounded, clientVars

\* The loop lets go of its event or keeps it: a client still waits behind it.
LEMMA AcceptKept ==
    ASSUME IInv, UNCHANGED backlog, kq'.polled \in {None, kq.polled}
    PROVE  AcceptWaits'
BY DEF IInv, AcceptWaits

LEMMA RequestTooLargeStep ==
    ASSUME IInv, NEW k, RequestTooLarge(k)
    PROVE  IInv'
<1> DEFINE cn == Put(conn, Srv, Fd, Appended(k))
           r  == [code |-> 413, of |-> {Appended(k).buf[1].req}]
<1>1. recv(k) /\ handleError(cn, Srv, Fd, r) /\ UNCHANGED <<backlog, clientVars, proc>>
  BY DEF RequestTooLarge
<1>2. /\ Fd \in Fds /\ Srv \in Servers /\ inbuf' \in [Clients -> Seq(Segments)]
      /\ Appended(k) \in Connection /\ Appended(k).buf[1].req \in Origins
  BY <1>1, RecvFacts
<1>3. cn \in Tables /\ r \in Response
  BY <1>2, PutType DEF IInv, TableInv, Response
<1> HIDE DEF cn, r
<1>4. RegistryInv' /\ TableInv' /\ kq'.polled \in {None, kq.polled}
  BY <1>1, <1>2, <1>3, HandleErrorStep DEF IInv
<1>5. QED
  BY <1>1, <1>2, <1>4, EnvKept, AcceptKept DEF IInv, EnvInv

LEMMA RequestIncompleteStep ==
    ASSUME IInv, NEW k, RequestIncomplete(k)
    PROVE  IInv'
<1>1. /\ recv(k) /\ conn' = Put(conn, Srv, Fd, Appended(k))
      /\ kq' = Done(kq) /\ pc' = "poll"
      /\ UNCHANGED <<kernelVars, backlog, clientVars, got, proc, up>>
  BY DEF RequestIncomplete
<1>2. /\ Fd \in Fds /\ Srv \in Servers /\ inbuf' \in [Clients -> Seq(Segments)]
      /\ Appended(k) \in Connection
  BY <1>1, RecvFacts
<1>3. RegistryInv' /\ kq'.polled = None
  BY <1>1, KeptAsItIs, DoneStep DEF IInv, RegistryInv, UdataLive
<1>4. TableInv'
  BY <1>1, <1>2, PutType DEF IInv, TableInv
<1>5. QED
  BY <1>1, <1>2, <1>3, <1>4, EnvKept, AcceptKept DEF IInv, EnvInv

LEMMA RequestStaticStep ==
    ASSUME IInv, NEW k, RequestStatic(k)
    PROVE  IInv'
<1> DEFINE c == Appended(k)
           r == [code |-> 200, of |-> {c.buf[1].req}]
           d == [Rest(c) EXCEPT !.queue = Append(@, r)]
           q == addEvent(kq, Attaches(Fd, EVFILT_WRITE), Fd, RESPONSE, Srv, None)
<1>1. /\ recv(k) /\ hasRequest(c.buf)
      /\ conn' = Put(conn, Srv, Fd, d) /\ kq' = Done(q) /\ pc' = "poll"
      /\ UNCHANGED <<kernelVars, backlog, clientVars, got, proc, up>>
  BY DEF RequestStatic, Takes
<1>2. /\ Fd \in Fds /\ Srv \in Servers /\ inbuf' \in [Clients -> Seq(Segments)]
      /\ c \in Connection /\ c.buf[1].req \in Origins
      /\ kq.polled # None /\ kq.polled.info.type # RESPONSE
  BY <1>1, RecvFacts, EventTypes
<1>3. q \in Registry /\ NoDangling(q) /\ \A g \in Fds : KeptAt(q, g)
  BY <1>2, ResponseAdded DEF IInv
<1>4. r \in Response
  BY <1>2 DEF Response
<1> HIDE DEF q, r, c
<1>5. d \in Connection
  <2>1. Rest(c) \in Connection
    BY <1>1, <1>2, RestType
  <2>2. Rest(c).queue \in Seq(Response)
    BY <2>1 DEF Connection
  <2>3. Append(Rest(c).queue, r) \in Seq(Response)
    BY <2>2, <1>4
  <2>4. QED
    BY <2>1, <2>3, MemberTypes
<1> HIDE DEF d
<1>6. RegistryInv' /\ kq'.polled = None
  BY <1>1, <1>3, DoneStep DEF IInv
<1>7. TableInv'
  BY <1>1, <1>2, <1>5, PutType DEF IInv, TableInv
<1>8. QED
  BY <1>1, <1>2, <1>6, <1>7, EnvKept, AcceptKept DEF IInv, EnvInv

LEMMA RequestRejectedStep ==
    ASSUME IInv, NEW k, RequestRejected(k)
    PROVE  IInv'
<1> DEFINE cn == Put(conn, Srv, Fd, Rest(Appended(k)))
           r  == [code |-> 404, of |-> {Appended(k).buf[1].req}]
<1>1. /\ recv(k) /\ hasRequest(Appended(k).buf)
      /\ handleError(cn, Srv, Fd, r) /\ UNCHANGED <<backlog, clientVars, proc>>
  BY DEF RequestRejected, Takes
<1>2. /\ Fd \in Fds /\ Srv \in Servers /\ inbuf' \in [Clients -> Seq(Segments)]
      /\ Appended(k) \in Connection /\ Appended(k).buf[1].req \in Origins
  BY <1>1, RecvFacts
<1>3. cn \in Tables /\ r \in Response
  BY <1>1, <1>2, RestType, PutType DEF IInv, TableInv, Response
<1> HIDE DEF cn, r
<1>4. RegistryInv' /\ TableInv' /\ kq'.polled \in {None, kq.polled}
  BY <1>1, <1>2, <1>3, HandleErrorStep DEF IInv
<1>5. QED
  BY <1>1, <1>2, <1>4, EnvKept, AcceptKept DEF IInv, EnvInv

LEMMA RequestCgiStep ==
    ASSUME IInv, NEW k, RequestCgi(k)
    PROVE  IInv'
<1> DEFINE c == Appended(k)
           o == c.buf[1].req
<1>1. recv(k) /\ hasRequest(c.buf) /\ UNCHANGED <<backlog, clientVars>>
  BY DEF RequestCgi, Takes
<1>2. /\ Fd \in Fds /\ Srv \in Servers /\ inbuf' \in [Clients -> Seq(Segments)]
      /\ c \in Connection /\ o \in Origins
      /\ kq.polled # None /\ kq.polled.info.type = REQUEST
  BY <1>1, RecvFacts
<1>3. Rest(c) \in Connection
  BY <1>1, <1>2, RestType
<1>4. ASSUME NEW fd \in Fds, Nth(fd, 2),
             pipe' = [pipe EXCEPT ![fd] = o],
             proc' = [proc EXCEPT ![o].st = "run"],
             conn' = Put(conn, Srv, Fd, Rest(c)),
             kq' = Done(addEvent(kq, TRUE, fd, CGI_RESPONSE, Srv, Fd)),
             pc' = "poll",
             UNCHANGED <<sock, peer, got, up>>
      PROVE  IInv'
  <2>1. fd \in Free /\ sock[fd] = None
    BY <1>4 DEF Nth, Free
  <2>2. sock' = [sock EXCEPT ![fd] = None] /\ peer' = peer
    BY <1>4, <2>1 DEF IInv, RegistryInv
  <2>3. /\ CGI_RESPONSE \in {REQUEST, CGI_RESPONSE} /\ CGI_RESPONSE # REQUEST
        /\ Fd \in Fds \cup {None} /\ Fd # None /\ o # None
        /\ None \in Clients \cup {None} /\ o \in Origins \cup {None}
        /\ ~(kq.polled.fd = fd /\ kq.polled.info.type = CGI_RESPONSE)
    BY <1>2, EventTypes, NoneAssumption, NoneIsNoObject
  <2> HIDE DEF o, c
  <2>4. RegistryInv' /\ kq'.polled = None
    BY <1>2, <1>4, <2>1, <2>2, <2>3, OpenedStep DEF IInv
  <2>5. TableInv'
    BY <1>2, <1>3, <1>4, PutType DEF IInv, TableInv
  <2>6. proc' \in [Origins -> Process]
    <3>1. proc[o] \in Process /\ proc \in [Origins -> Process]
      BY <1>2 DEF IInv, EnvInv
    <3>2. [proc[o] EXCEPT !.st = "run"] \in Process
      BY <3>1 DEF Process
    <3>3. QED
      BY <1>2, <1>4, <3>1, <3>2
  <2>7. QED
    BY <1>1, <1>2, <2>4, <2>5, <2>6, EnvKept, AcceptKept DEF IInv
<1>5. ASSUME Exit("pipe"), UNCHANGED proc
      PROVE  IInv'
  <2>1. RegistryInv' /\ TableInv' /\ kq' = kq
    BY <1>5, ExitStep DEF IInv, Exits
  <2>2. QED
    BY <1>1, <1>2, <1>5, <2>1, EnvKept, AcceptKept DEF IInv, EnvInv
<1>6. QED
  BY <1>4, <1>5 DEF RequestCgi

LEMMA RequestEofStep == IInv /\ RequestEof => IInv'
<1> SUFFICES ASSUME IInv, RequestEof PROVE IInv'
  OBVIOUS
<1>1. /\ kq.polled # None /\ kq.polled.info.type = REQUEST
      /\ close(Fd, Done(kq)) /\ conn' = removeConnection(conn, Srv, Fd)
      /\ pc' = "poll" /\ UNCHANGED <<backlog, inbuf, clientVars, got, proc, up>>
  BY DEF RequestEof, Event, closeConnection
<1>2. Fd \in Fds /\ Srv \in Servers
  BY <1>1, EventFacts, EventTypes DEF IInv
<1>3. /\ Done(kq) \in Registry /\ NoDangling(Done(kq)) /\ Done(kq).polled = None
      /\ Done(kq).knote = kq.knote
  BY DoneType, DoneSafe DEF IInv, RegistryInv, UdataLive
<1>4. \A g \in Fds : KeptAt(Done(kq), g)
  BY <1>3, KeptAsItIs DEF KeptAt, IInv, RegistryInv
<1>5. RegistryInv' /\ kq'.polled = None
  BY <1>1, <1>2, <1>3, <1>4, CloseStep DEF IInv
<1>6. TableInv'
  BY <1>1, <1>2, PutType DEF IInv, TableInv
<1>7. QED
  BY <1>1, <1>5, <1>6, EnvKept, AcceptKept DEF IInv, EnvInv

LEMMA RequestErrorStep == IInv /\ RequestError => IInv'
<1> SUFFICES ASSUME IInv, RequestError PROVE IInv'
  OBVIOUS
<1>1. /\ kq.polled # None /\ kq.polled.info.type = REQUEST
      /\ peer' = [c \in Clients |-> IF sock[Fd] = c THEN "dead" ELSE peer[c]]
      /\ conn' = Touched /\ kq' = Done(kq) /\ pc' = "poll"
      /\ UNCHANGED <<sock, pipe, backlog, inbuf, clientVars, got, proc, up>>
  BY DEF RequestError, Event
<1>2. Fd \in Fds /\ Srv \in Servers
  BY <1>1, EventFacts, EventTypes DEF IInv
<1>3. kq' \in Registry /\ UdataLive' /\ kq'.knote = kq.knote /\ kq'.polled = None
  BY <1>1, DoneType, DoneSafe DEF IInv, RegistryInv, UdataLive
<1>4. OpenIsWatched'
  BY <1>1, <1>3, ZenonT(30) DEF OpenIsWatched, IInv, RegistryInv
<1>5. peer' \in [Clients -> PeerStates]
  BY <1>1 DEF IInv, RegistryInv, PeerStates
<1>6. RegistryInv'
  BY <1>1, <1>3, <1>4, <1>5 DEF IInv, RegistryInv
<1>7. TableInv'
  BY <1>1, <1>2, TouchType DEF IInv, TableInv, Touched
<1>8. QED
  BY <1>1, <1>3, <1>6, <1>7, EnvKept, AcceptKept DEF IInv, EnvInv

LEMMA SendResponseStep == IInv /\ SendResponse => IInv'
<1> SUFFICES ASSUME IInv, SendResponse PROVE IInv'
  OBVIOUS
<1> DEFINE queue == conn[Srv][Fd].queue
           r     == popResponse(queue).response
           q     == removeEvent(kq, Fd, EVFILT_WRITE)
<1>1. /\ kq.polled # None /\ kq.polled.info.type = RESPONSE
      /\ conn[Srv][Fd] # None /\ queue # <<>>
      /\ UNCHANGED <<backlog, inbuf, clientVars, proc>>
  BY DEF SendResponse, Event, HasResponse
<1>2. Fd \in Fds /\ Srv \in Servers
  BY <1>1, EventFacts, EventTypes DEF IInv
<1>3. conn[Srv][Fd] \in Connection /\ queue \in Seq(Response)
  <2>1. conn[Srv][Fd] \in Connection
    BY <1>1, <1>2 DEF IInv, TableInv, Tables
  <2>2. QED
    BY <2>1 DEF Connection
<1>4. r \in Response /\ popResponse(queue).rest \in Seq(Response)
  BY <1>1, <1>3 DEF popResponse
<1>5. CASE /\ "ok" \in send(Fd)
           /\ got' = Delivered(Fd, r)
           /\ conn' = [Touched EXCEPT ![Srv][Fd].queue = popResponse(@).rest]
           /\ kq' = Done(q)
           /\ pc' = "poll" /\ UNCHANGED <<kernelVars, up>>
  <2>1. q \in Registry /\ NoDangling(q) /\ \A g \in Fds : KeptAt(q, g)
    BY <1>2, EventRemoved, EventTypes, KeptAsItIs DEF IInv, RegistryInv, UdataLive
  <2>2. RegistryInv' /\ kq'.polled = None
    BY <1>5, <2>1, DoneStep DEF IInv
  <2>3. got' \in [Clients -> Seq(Response)]
    BY <1>2, <1>4, <1>5, DeliveredType DEF IInv, RegistryInv, TableInv
  <2>4. conn' \in Tables
    <3> DEFINE c == Touched[Srv][Fd]
    <3>1. Touched \in Tables
      BY <1>2, TouchType DEF Touched, IInv, TableInv
    <3>2. c = [conn[Srv][Fd] EXCEPT !.age = 0]
      BY <1>1, <1>2 DEF Touched, updateLastActiveTime, IInv, TableInv, Tables
    <3>3. c \in Connection /\ c.queue = queue
      BY <1>3, <3>2, MemberTypes DEF Connection
    <3>4. [c EXCEPT !.queue = popResponse(queue).rest] \in Connection
      BY <1>4, <3>3, MemberTypes
    <3>5. conn' = [Touched EXCEPT ![Srv][Fd] = [c EXCEPT !.queue = popResponse(queue).rest]]
      BY <1>5, <1>2, <3>1, <3>3 DEF Tables
    <3>6. QED
      BY <1>2, <3>1, <3>4, <3>5 DEF Tables
  <2>5. TableInv'
    BY <1>5, <2>3, <2>4 DEF IInv, TableInv
  <2>6. QED
    BY <1>1, <2>2, <2>5, EnvKept, AcceptKept DEF IInv, EnvInv
<1>6. CASE Exit("removeEvent") \/ Exit("SIGPIPE")
  <2>1. RegistryInv' /\ TableInv' /\ kq' = kq
    BY <1>6, ExitStep DEF IInv, Exits
  <2>2. QED
    BY <1>1, <2>1, EnvKept, AcceptKept DEF IInv, EnvInv
<1>7. QED
  BY <1>5, <1>6 DEF SendResponse

LEMMA NoResponseStep == IInv /\ NoResponse => IInv'
<1> SUFFICES ASSUME IInv, NoResponse PROVE IInv'
  OBVIOUS
<1> DEFINE r == [code |-> 500, of |-> {}]
<1>1. /\ kq.polled # None /\ kq.polled.info.type = RESPONSE
      /\ handleError(Touched, Srv, Fd, r)
      /\ UNCHANGED <<backlog, inbuf, clientVars, proc>>
  BY DEF NoResponse, Event
<1>2. Fd \in Fds /\ Srv \in Servers
  BY <1>1, EventFacts, EventTypes DEF IInv
<1>3. Touched \in Tables /\ r \in Response
  BY <1>2, TouchType DEF Touched, IInv, TableInv, Response
<1> HIDE DEF r
<1>4. RegistryInv' /\ TableInv' /\ kq'.polled \in {None, kq.polled}
  BY <1>1, <1>2, <1>3, HandleErrorStep DEF IInv
<1>5. QED
  BY <1>1, <1>4, EnvKept, AcceptKept DEF IInv, EnvInv

LEMMA CgiDataStep == IInv /\ CgiData => IInv'
<1> SUFFICES ASSUME IInv, CgiData PROVE IInv'
  OBVIOUS
<1> DEFINE o == pipe[Fd]
           c == Touched[Srv][CgiTo]
<1>1. /\ kq.polled # None /\ kq.polled.info.type = CGI_RESPONSE /\ o # None
      /\ proc' = [proc EXCEPT ![o].unread = FALSE]
      /\ conn' = IF c = None THEN Touched
                 ELSE [Touched EXCEPT ![Srv][CgiTo].cgi[Fd] = @ \cup {o}]
      /\ kq' = Done(kq) /\ pc' = "poll"
      /\ UNCHANGED <<kernelVars, backlog, inbuf, clientVars, got, up>>
  BY DEF CgiData, Event
<1>2. Fd \in Fds /\ Srv \in Servers /\ CgiTo \in Fds /\ o \in Origins
  BY <1>1, EventFacts, EventTypes DEF IInv, RegistryInv
<1>3. RegistryInv' /\ kq'.polled = None
  BY <1>1, KeptAsItIs, DoneStep DEF IInv, RegistryInv, UdataLive
<1>4. Touched \in Tables
  BY <1>2, TouchType DEF Touched, IInv, TableInv
<1> HIDE DEF o
<1>5. conn' \in Tables
  <2>1. CASE c = None
    BY <1>1, <1>4, <2>1
  <2>2. CASE c # None
    <3>1. c \in Connection
      BY <1>2, <1>4, <2>2 DEF Tables
    <3>2. c.cgi \in [Fds -> SUBSET Origins]
      BY <3>1 DEF Connection
    <3>3. [c.cgi EXCEPT ![Fd] = @ \cup {o}] \in [Fds -> SUBSET Origins]
      BY <1>2, <3>2
    <3>4. [c EXCEPT !.cgi = [c.cgi EXCEPT ![Fd] = @ \cup {o}]] \in Connection
      BY <3>1, <3>3, MemberTypes
    <3>5. conn' = [Touched EXCEPT ![Srv][CgiTo] = [c EXCEPT !.cgi = [c.cgi EXCEPT ![Fd] = @ \cup {o}]]]
      BY <1>1, <2>2
    <3>6. QED
      BY <1>2, <1>4, <3>4, <3>5 DEF Tables
  <2>3. QED
    BY <2>1, <2>2
<1>6. TableInv'
  BY <1>1, <1>5 DEF IInv, TableInv
<1>7. proc' \in [Origins -> Process]
  <2>1. proc[o] \in Process /\ proc \in [Origins -> Process]
    BY <1>2 DEF IInv, EnvInv
  <2>2. [proc[o] EXCEPT !.unread = FALSE] \in Process
    BY <2>1 DEF Process
  <2>3. QED
    BY <1>1, <1>2, <2>1, <2>2
<1>8. QED
  BY <1>1, <1>3, <1>6, <1>7, EnvKept, AcceptKept DEF IInv, EnvInv

\* A finished CGI buffer becomes a response.
LEMMA FinishedType ==
    ASSUME NEW cn \in Tables, Srv \in Servers, CgiTo \in Fds, Fd \in Fds
    PROVE  Finished(cn) \in Tables
<1> DEFINE c == cn[Srv][CgiTo]
           r == [code |-> 200, of |-> c.cgi[Fd]]
           queue == IF c.cgi[Fd] = {} THEN c.queue ELSE Append(c.queue, r)
           b == [c.cgi EXCEPT ![Fd] = {}]
<1>1. CASE c = None
  BY <1>1 DEF Finished
<1>2. CASE c # None
  <2>1. c \in Connection
    BY <1>2 DEF Tables
  <2>2. c.cgi \in [Fds -> SUBSET Origins] /\ c.queue \in Seq(Response)
    BY <2>1 DEF Connection
  <2>3. r \in Response
    BY <2>2 DEF Response
  <2>4. queue \in Seq(Response) /\ b \in [Fds -> SUBSET Origins]
    BY <2>2, <2>3
  <2>5. Finished(cn) = Put(cn, Srv, CgiTo, [c EXCEPT !.cgi = b, !.queue = queue])
    BY <1>2 DEF Finished
  <2> HIDE DEF b, queue, c
  <2>6. [c EXCEPT !.cgi = b, !.queue = queue] \in Connection
    BY <2>1, <2>4 DEF Connection
  <2>7. QED
    BY <2>5, <2>6, PutType
<1>3. QED
  BY <1>1, <1>2

LEMMA CgiEofStep == IInv /\ CgiEof => IInv'
<1> SUFFICES ASSUME IInv, CgiEof PROVE IInv'
  OBVIOUS
<1> DEFINE q == addEvent(kq, Attaches(CgiTo, EVFILT_WRITE), CgiTo, RESPONSE, Srv, None)
           r == removeEvent(q, Fd, EVFILT_READ)
<1>1. /\ kq.polled # None /\ kq.polled.info.type = CGI_RESPONSE
      /\ conn' = Finished(Touched)
      /\ \/ close(Fd, Done(r)) /\ pc' = "poll" /\ UNCHANGED up
         \/ up' = "removeEvent" /\ UNCHANGED <<kq, kernelVars, pc>>
      /\ UNCHANGED <<backlog, inbuf, clientVars, got, proc>>
  BY DEF CgiEof, Event
<1>2. Fd \in Fds /\ Srv \in Servers /\ CgiTo \in Fds
  BY <1>1, EventFacts, EventTypes DEF IInv
<1>3. conn' \in Tables
  <2>1. Touched \in Tables
    BY <1>2, TouchType DEF Touched, IInv, TableInv
  <2>2. QED
    BY <1>1, <1>2, <2>1, FinishedType
<1>4. CASE close(Fd, Done(r)) /\ pc' = "poll" /\ UNCHANGED up
  <2>1. q \in Registry /\ NoDangling(q) /\ \A g \in Fds : KeptAt(q, g)
    BY <1>1, <1>2, EventTypes, ResponseAdded DEF IInv
  <2> HIDE DEF q
  <2>2. r \in Registry /\ NoDangling(r) /\ \A g \in Fds : g # Fd => KeptAt(r, g)
    BY <1>2, <2>1, EventTypes, EventRemoved
  <2> HIDE DEF r
  <2>3. /\ Done(r) \in Registry /\ NoDangling(Done(r)) /\ Done(r).polled = None
        /\ Done(r).knote = r.knote
    BY <2>2, DoneType, DoneSafe
  <2>4. \A g \in Fds : g # Fd => KeptAt(Done(r), g)
    BY <2>2, <2>3 DEF KeptAt
  <2>5. RegistryInv' /\ kq'.polled = None
    BY <1>2, <1>4, <2>3, <2>4, CloseStep DEF IInv
  <2>6. TableInv'
    BY <1>1, <1>3, <1>4 DEF IInv, TableInv
  <2>7. QED
    BY <1>1, <2>5, <2>6, EnvKept, AcceptKept DEF IInv, EnvInv
<1>5. CASE up' = "removeEvent" /\ UNCHANGED <<kq, kernelVars, pc>>
  <2>1. RegistryInv'
    BY <1>5 DEF IInv, RegistryInv, UdataLive, OpenIsWatched, kernelVars
  <2>2. TableInv'
    BY <1>1, <1>3, <1>5 DEF IInv, TableInv, Exits
  <2>3. QED
    BY <1>1, <1>5, <2>1, <2>2, EnvKept, AcceptKept DEF IInv, EnvInv
<1>6. QED
  BY <1>1, <1>4, <1>5

LEMMA ServerStep == IInv /\ Server => IInv'
BY PollStep, IdleStep, TimeoutStep, ConnectStep, RequestTooLargeStep, RequestIncompleteStep,
   RequestStaticStep, RequestRejectedStep, RequestCgiStep, RequestEofStep, RequestErrorStep,
   SendResponseStep, NoResponseStep, CgiDataStep, CgiEofStep
   DEF Server

-----------------------------------------------------------------------------
(* The initial state and the steps of the environment. *)

LEMMA InitInv == Init => IInv
<1> SUFFICES ASSUME Init PROVE IInv
  OBVIOUS
<1> DEFINE knote == [n \in Descriptors \X Filters |->
                       IF n[1] \in Servers /\ n[2] = EVFILT_READ
                       THEN [type |-> SERVER, srv |-> n[1], client |-> None, live |-> TRUE]
                       ELSE None]
           infos == {<<s, SERVER>> : s \in Servers}
<1>1. kq = [infos |-> infos, knote |-> knote, polled |-> None, stale |-> {}]
  BY DEF Init, EmptyRegistry
<1>2. \A s \in Servers : LET i == [type |-> SERVER, srv |-> s, client |-> None, live |-> TRUE]
                         IN  i \in EventInfo /\ InfoLive(kq, s, i) /\ getFilter(i.type) = EVFILT_READ
  BY <1>1, EventTypes DEF EventInfo, InfoLive, getFilter
<1>3. kq \in Registry
  <2>1. knote \in [Descriptors \X Filters -> EventInfo \cup {None}]
    BY <1>2
  <2>2. infos \in SUBSET (Descriptors \X Int)
    BY DEF SERVER, Descriptors
  <2> HIDE DEF knote, infos
  <2>3. QED
    BY <1>1, <2>1, <2>2 DEF Registry
<1>4. UdataLive
  BY <1>1, <1>2 DEF UdataLive, NoDangling
<1>5. \A fd \in Fds, f \in Filters : kq.knote[<<fd, f>>] = None
  BY <1>1, DescriptorsAssumption DEF Descriptors
<1>6. OpenIsWatched
  BY <1>5, EventTypes DEF Init, OpenIsWatched
<1>7. RegistryInv
  BY <1>3, <1>4, <1>6 DEF Init, RegistryInv, PeerStates
<1>8. TableInv
  BY DEF Init, TableInv, Tables
<1>9. EnvInv
  <2>1. [st |-> "none", unread |-> FALSE, wrote |-> 0] \in Process
    BY WebserverAssumption DEF Process
  <2>2. proc \in [Origins -> Process]
    BY <2>1 DEF Init
  <2>3. BacklogHome /\ SentBounded
    BY WebserverAssumption DEF Init, BacklogHome, SentBounded
  <2>4. QED
    BY <2>2, <2>3 DEF Init, EnvInv
<1>10. AcceptWaits
  BY <1>1 DEF AcceptWaits
<1>11. QED
  BY <1>7, <1>8, <1>9, <1>10 DEF IInv

\* The environment touches neither the registry nor the server's tables.
LEMMA ServerKept ==
    ASSUME IInv, UNCHANGED serverState, peer' \in [Clients -> PeerStates],
           got' \in [Clients -> Seq(Response)]
    PROVE  RegistryInv' /\ TableInv'
BY DEF IInv, RegistryInv, TableInv, UdataLive, OpenIsWatched, serverState

LEMMA ConnectByClient ==
    ASSUME IInv, NEW c \in Clients, Connect(c)
    PROVE  IInv'
<1>1. /\ peer' = [peer EXCEPT ![c] = "open"]
      /\ backlog' = [backlog EXCEPT ![Home[c]] = Append(@, c)]
      /\ UNCHANGED <<serverState, inbuf, clientVars, got, proc>>
  BY DEF Connect
<1>2. Home[c] \in Servers
  BY WebserverAssumption
<1>3. RegistryInv' /\ TableInv'
  <2>1. peer' \in [Clients -> PeerStates]
    BY <1>1 DEF IInv, RegistryInv, PeerStates
  <2>2. QED
    BY <1>1, <2>1, ServerKept DEF IInv, TableInv
<1>4. \A s \in Servers : /\ backlog[s] \in Seq(Clients)
                        /\ backlog'[s] = IF s = Home[c] THEN Append(backlog[s], c) ELSE backlog[s]
  BY <1>1 DEF IInv, EnvInv
<1>5. BacklogHome'
  <2> SUFFICES ASSUME NEW s \in Servers, NEW i \in DOMAIN backlog'[s]
               PROVE  Home[backlog'[s][i]] = s
    BY DEF BacklogHome
  <2>1. \A j \in DOMAIN backlog[s] : Home[backlog[s][j]] = s
    BY DEF IInv, EnvInv, BacklogHome
  <2>2. CASE s # Home[c]
    BY <1>4, <2>1, <2>2
  <2>3. CASE s = Home[c]
    <3>1. backlog'[s] = Append(backlog[s], c) /\ backlog[s] \in Seq(Clients)
      BY <1>4, <2>3
    <3>2. i \in 1..(Len(backlog[s]) + 1)
      BY <3>1
    <3>3. backlog'[s][i] = IF i = Len(backlog[s]) + 1 THEN c ELSE backlog[s][i]
      BY <3>1, <3>2
    <3>4. QED
      BY <2>1, <2>3, <3>1, <3>2, <3>3
  <2>4. QED
    BY <2>2, <2>3
<1>6. backlog' \in [Servers -> Seq(Clients)]
  BY <1>1, <1>2 DEF IInv, EnvInv
<1>7. EnvInv'
  BY <1>1, <1>5, <1>6 DEF EnvInv, SentBounded, IInv, clientVars
<1>8. AcceptWaits'
  <2>1. kq' = kq
    BY <1>1 DEF serverState
  <2>2. kq.polled # None /\ kq.polled.info.type = SERVER => kq.polled.fd \in Servers
    BY EventFacts DEF IInv, Fd
  <2>3. \A s \in Servers : backlog[s] # <<>> => backlog'[s] # <<>>
    <3>1. \A s \in Servers : Append(backlog[s], c) # <<>>
      BY <1>4, AppendProperties
    <3>2. QED
      BY <1>4, <3>1
  <2>4. QED
    BY <2>1, <2>2, <2>3 DEF AcceptWaits, IInv
<1>9. QED
  BY <1>3, <1>7, <1>8 DEF IInv

LEMMA LeaveStep ==
    ASSUME IInv, NEW c \in Clients, Leave(c) \/ Reset(c)
    PROVE  IInv'
<1>1. UNCHANGED <<serverState, backlog, inbuf, clientVars, got, proc>>
  BY DEF Leave, Reset
<1>2. peer' \in [Clients -> PeerStates]
  BY DEF Leave, Reset, IInv, RegistryInv, PeerStates
<1>3. RegistryInv' /\ TableInv'
  BY <1>1, <1>2, ServerKept DEF IInv, TableInv
<1>4. QED
  BY <1>1, <1>3, EnvKept, AcceptKept DEF IInv, EnvInv, serverState

\* A segment that arrives is a segment of a request of its client.
LEMMA SendStep ==
    ASSUME IInv, NEW c \in Clients,
           SendRemainder(c) \/ \E kind \in Kinds, whole \in BOOLEAN : SendRequest(c, kind, whole)
    PROVE  IInv'
<1> DEFINE Typed == /\ sent' \in [Clients -> Seq(Kinds)] /\ half' \in [Clients -> BOOLEAN]
                    /\ inbuf' \in [Clients -> Seq(Segments)] /\ SentBounded'
<1>0. /\ sent \in [Clients -> Seq(Kinds)] /\ half \in [Clients -> BOOLEAN]
      /\ inbuf \in [Clients -> Seq(Segments)] /\ SentBounded
      /\ MaxReq \in Nat /\ Kinds \subseteq RequestKinds
  BY WebserverAssumption DEF IInv, EnvInv
<1>1. UNCHANGED <<serverState, peer, backlog, got, proc>>
  BY DEF SendRemainder, SendRequest
<1>2. Typed
  <2>1. ASSUME NEW kind \in Kinds, NEW whole \in BOOLEAN, SendRequest(c, kind, whole)
        PROVE  Typed
    <3>1. /\ Len(sent[c]) < MaxReq
          /\ sent' = [sent EXCEPT ![c] = Append(@, kind)]
          /\ half' = [half EXCEPT ![c] = ~whole]
          /\ Arrive(c, kind, whole)
      BY <2>1 DEF SendRequest
    <3>2. /\ sent[c] \in Seq(Kinds)
          /\ sent'[c] = Append(sent[c], kind) /\ Len(sent'[c]) = Len(sent[c]) + 1
      BY <1>0, <3>1
    <3>3. Len(sent'[c]) \in 1..MaxReq
      BY <1>0, <3>1, <3>2
    <3>4. sent' \in [Clients -> Seq(Kinds)] /\ half' \in [Clients -> BOOLEAN]
      BY <1>0, <3>1
    <3>5. SentBounded'
      <4>1. \A d \in Clients : d # c => sent'[d] = sent[d] /\ half'[d] = half[d]
        BY <1>0, <3>1
      <4>2. Len(sent'[c]) <= MaxReq /\ sent'[c] # <<>>
        BY <1>0, <3>2, <3>3, Len(<<>>) = 0
      <4>3. QED
        BY <1>0, <4>1, <4>2 DEF SentBounded
    <3>6. [req |-> <<c, Len(sent'[c])>>, kind |-> kind, last |-> whole] \in Segments
      BY <1>0, <3>3 DEF Segments, Origins
    <3>7. inbuf' \in [Clients -> Seq(Segments)]
      BY <1>0, <3>1, <3>6 DEF Arrive
    <3>8. QED
      BY <3>4, <3>5, <3>7
  <2>2. ASSUME SendRemainder(c)
        PROVE  Typed
    <3>1. /\ half[c] /\ half' = [half EXCEPT ![c] = FALSE] /\ sent' = sent
          /\ Arrive(c, sent[c][Len(sent[c])], TRUE)
      BY <2>2 DEF SendRemainder
    <3>2. sent[c] \in Seq(Kinds) /\ sent[c] # <<>> /\ Len(sent[c]) <= MaxReq
      BY <1>0, <3>1 DEF SentBounded
    <3>3. Len(sent[c]) \in 1..MaxReq /\ sent[c][Len(sent[c])] \in Kinds
      BY <1>0, <3>2
    <3>4. SentBounded' /\ half' \in [Clients -> BOOLEAN]
      BY <1>0, <3>1 DEF SentBounded
    <3>5. [req |-> <<c, Len(sent[c])>>, kind |-> sent[c][Len(sent[c])], last |-> TRUE] \in Segments
      BY <1>0, <3>3 DEF Segments, Origins
    <3>6. inbuf' \in [Clients -> Seq(Segments)]
      BY <1>0, <3>1, <3>5 DEF Arrive
    <3>7. QED
      BY <1>0, <3>1, <3>4, <3>6
  <2>3. QED
    BY <2>1, <2>2
<1>3. RegistryInv' /\ TableInv'
  BY <1>1, ServerKept DEF IInv, RegistryInv, TableInv
<1>4. EnvInv'
  BY <1>1, <1>2 DEF IInv, EnvInv, BacklogHome
<1>5. QED
  BY <1>1, <1>3, <1>4 DEF IInv, AcceptWaits, serverState

LEMMA CgiStep ==
    ASSUME IInv, NEW o \in Origins, Cgi(o)
    PROVE  IInv'
<1>0. /\ proc \in [Origins -> Process] /\ proc[o] \in Process /\ MaxOut \in Nat \ {0}
      /\ got \in [Clients -> Seq(Response)]
  BY WebserverAssumption DEF IInv, EnvInv, TableInv
<1>1. UNCHANGED <<serverState, peer, backlog, inbuf, clientVars>>
  BY DEF Cgi, CgiWrite, CgiExit, CgiExecFails
<1>2. proc' \in [Origins -> Process] /\ got' \in [Clients -> Seq(Response)]
  <2>1. CASE CgiWrite(o)
    <3> DEFINE a == [st |-> "run", unread |-> TRUE, wrote |-> proc[o].wrote + 1]
               b == [proc[o] EXCEPT !.st = "exit"]
    <3>1. proc[o].wrote + 1 \in 0..MaxOut
      BY <1>0, <2>1 DEF CgiWrite, Process
    <3>2. a \in Process /\ b \in Process
      BY <1>0, <3>1 DEF Process
    <3>3. proc' = [proc EXCEPT ![o] = IF \E fd \in Fds : pipe[fd] = o THEN a ELSE b]
      BY <2>1 DEF CgiWrite
    <3> HIDE DEF a, b
    <3>4. proc' \in [Origins -> Process]
      BY <1>0, <3>2, <3>3
    <3>5. QED
      BY <1>0, <2>1, <3>4 DEF CgiWrite
  <2>2. CASE CgiExit(o)
    <3>1. [proc[o] EXCEPT !.st = "exit"] \in Process
      BY <1>0 DEF Process
    <3>2. QED
      BY <1>0, <2>2, <3>1 DEF CgiExit
  <2>3. CASE CgiExecFails(o)
    <3>1. [st |-> "exit", unread |-> TRUE, wrote |-> 1] \in Process
      BY <1>0 DEF Process
    <3> DEFINE r == [code |-> 500, of |-> {o}]
    <3>2. r \in Response /\ o[1] \in Clients
      BY DEF Response, Origins
    <3> HIDE DEF r
    <3>3. Append(got[o[1]], r) \in Seq(Response) /\ got[o[1]] \in Seq(Response)
      BY <1>0, <3>2
    <3>4. got' = [got EXCEPT ![o[1]] = IF peer[o[1]] \in {"open", "fin"} /\ Len(@) < MaxLog
                                      THEN Append(@, r) ELSE @]
      BY <2>3 DEF CgiExecFails, r
    <3>5. got' \in [Clients -> Seq(Response)]
      BY <1>0, <3>2, <3>3, <3>4
    <3>6. proc' = [proc EXCEPT ![o] = [st |-> "exit", unread |-> TRUE, wrote |-> 1]]
      BY <2>3 DEF CgiExecFails
    <3>7. QED
      BY <1>0, <3>1, <3>5, <3>6
  <2>4. QED
    BY <2>1, <2>2, <2>3 DEF Cgi
<1>3. RegistryInv' /\ TableInv'
  BY <1>1, <1>2, ServerKept DEF IInv, RegistryInv
<1>4. QED
  BY <1>1, <1>2, <1>3, EnvKept, AcceptKept DEF IInv, EnvInv, serverState

LEMMA TickStep == IInv /\ Tick => IInv'
<1> SUFFICES ASSUME IInv, Tick PROVE IInv'
  OBVIOUS
<1>1. UNCHANGED <<kq, kernelVars, backlog, inbuf, clientVars, got, proc, pc, up>>
  BY DEF Tick
<1>2. conn' \in Tables
  <2>1. ASSUME NEW s \in Servers, NEW fd \in Fds, conn[s][fd] # None, conn[s][fd].age <= Limit
        PROVE  [conn[s][fd] EXCEPT !.age = @ + 1] \in Connection
    <3>1. conn[s][fd] \in Connection
      BY <2>1 DEF IInv, TableInv, Tables
    <3>2. QED
      BY <2>1, <3>1, MemberTypes
  <2>2. QED
    BY <2>1 DEF Tick, Tables, IInv, TableInv
<1>3. RegistryInv' /\ TableInv'
  BY <1>1, <1>2 DEF IInv, RegistryInv, TableInv, UdataLive, OpenIsWatched, kernelVars
<1>4. QED
  BY <1>1, <1>3, EnvKept, AcceptKept DEF IInv, EnvInv

-----------------------------------------------------------------------------
(* The theorems. *)

LEMMA NextInv == IInv /\ [Next]_vars => IInv'
<1> SUFFICES ASSUME IInv, [Next]_vars PROVE IInv'
  OBVIOUS
<1>1. CASE Server
  BY <1>1, ServerStep
<1>2. ASSUME NEW c \in Clients, Client(c)
      PROVE  IInv'
  BY <1>2, ConnectByClient, LeaveStep, SendStep DEF Client
<1>3. ASSUME NEW o \in Origins, Cgi(o)
      PROVE  IInv'
  BY <1>3, CgiStep
<1>4. CASE Tick
  BY <1>4, TickStep
<1>5. CASE UNCHANGED vars
  BY <1>5 DEF vars, IInv, RegistryInv, TableInv, EnvInv, UdataLive, OpenIsWatched, BacklogHome,
              SentBounded, AcceptWaits
<1>6. QED
  BY <1>1, <1>2, <1>3, <1>4, <1>5 DEF Next

LEMMA Invariance == Spec => []IInv
BY InitInv, NextInv, PTL DEF Spec

\* Every variable keeps its type: in particular a handler never reads a Connection or
\* indexes a table through a descriptor that is not one (Webserver.cpp:40-72).
THEOREM TypeCorrect == Spec => []TypeOK
<1>1. IInv => TypeOK
  BY DEF IInv, RegistryInv, TableInv, EnvInv, Tables, TypeOK
<1>2. QED
  BY <1>1, Invariance, PTL

\* No step ever follows a udata whose EventInfo has been deleted, whatever clients and
\* CGI processes do and however many there are (Kqueue.cpp:45-107, Webserver.cpp:40-95).
THEOREM NoUdataDangles == Spec => []UdataLive
<1>1. IInv => UdataLive
  BY DEF IInv, RegistryInv
<1>2. QED
  BY <1>1, Invariance, PTL

\* Every open descriptor has its event, and every closed one has none (Webserver.cpp:16,
\* CgiHandler.cpp:28, Server.cpp:136-137, :146-150, Servers.cpp:12-22).
THEOREM OpenDescriptorsWatched == Spec => []OpenIsWatched
<1>1. IInv => OpenIsWatched
  BY DEF IInv, RegistryInv
<1>2. QED
  BY <1>1, Invariance, PTL
=============================================================================
