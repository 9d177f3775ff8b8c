-------------------------------- MODULE RoutingProofs --------------------------------
(***************************************************************************)
(* The location that decides has the longest pattern that matches, for any *)
(* configurations, requests and file tree, and a directory is listed only  *)
(* for one of four reasons.                                                *)
(***************************************************************************)
EXTENDS Routing, TLAPS

\* The order is that of compareLength.
Sorted ==
    /\ Len(order) \in Nat /\ DOMAIN order = 1..Len(order)
    /\ \A n \in DOMAIN order : Len(order[n].pattern) \in Nat
    /\ \A m, n \in DOMAIN order : m < n => ~compareLength(order[n], order[m])

\* The loop has left behind only locations that do not match the request at hand.
Passed ==
    /\ i \in Nat \ {0}
    /\ request = None => i = 1
    /\ request # None => \A m \in 1..(i - 1) : ~matchPattern(request.target, order[m].pattern)

IInv == Sorted /\ Passed

\* What std::sort leaves is in order, and as long as what it was given.
LEMMA SortedLocations ==
    ASSUME NEW locations \in Configurations, NEW s \in sortLocations(locations)
    PROVE  /\ Len(s) \in Nat /\ DOMAIN s = 1..Len(s)
           /\ \A n \in DOMAIN s : Len(s[n].pattern) \in Nat
           /\ \A m, n \in DOMAIN s : m < n => ~compareLength(s[n], s[m])
<1> DEFINE D == DOMAIN locations
<1>1. locations \in Seq(ToSet(locations))
  BY ConfigurationsAssumption
<1>2. Len(locations) \in Nat /\ D = 1..Len(locations)
  BY <1>1
<1>3. PICK p \in [D -> D] : s = [n \in D |-> locations[p[n]]]
  BY DEF sortLocations
<1>4. DOMAIN s = D
  BY <1>3
<1>5. Len(s) = Len(locations)
  BY <1>2, <1>3, <1>4
<1>6. \A n \in D : Len(s[n].pattern) \in Nat
  BY <1>3, ConfigurationsAssumption
<1>7. \A m, n \in D : m < n => ~compareLength(s[n], s[m])
  BY DEF sortLocations
<1>. QED
  BY <1>2, <1>4, <1>5, <1>6, <1>7

\* The Router starts at the first location of a sorted order.
LEMMA InitIInv == Init => IInv
<1> SUFFICES ASSUME Init PROVE IInv
  OBVIOUS
<1>1. Sorted
  BY SortedLocations DEF Init, Sorted
<1>2. Passed
  BY DEF Init, Passed
<1>. QED
  BY <1>1, <1>2 DEF IInv

\* No step changes the order, and the loop goes on only from a location that does not match.
LEMMA NextIInv == IInv /\ [Next]_vars => IInv'
<1> SUFFICES ASSUME IInv, [Next]_vars PROVE IInv'
  OBVIOUS
<1>1. order' = order
  BY DEF Next, vars, receive, parseRequestHeader, badRequest, nextLocation, notFound,
         methodNotAllowed, redirect, plainFile, namedFile, directory, Found, startCgi, execute
<1>2. Sorted'
  BY <1>1 DEF IInv, Sorted
<1>3. CASE receive
  BY <1>2, <1>3 DEF receive, IInv, Passed
<1>4. CASE parseRequestHeader
  BY <1>1, <1>2, <1>4 DEF parseRequestHeader, IInv, Passed
<1>5. CASE nextLocation
  <2>1. i' = i + 1 /\ request' = request /\ request # None
    BY <1>5 DEF nextLocation, Looking
  <2>2. ~matchPattern(request.target, order[i].pattern)
    BY <1>5 DEF nextLocation, Location
  <2>3. Passed'
    BY <1>1, <2>1, <2>2 DEF IInv, Passed
  <2>. QED
    BY <1>2, <2>3 DEF IInv
<1>6. CASE UNCHANGED <<i, request>>
  BY <1>1, <1>2, <1>6 DEF IInv, Passed
<1>. QED
  BY <1>3, <1>4, <1>5, <1>6
     DEF Next, vars, badRequest, notFound, methodNotAllowed, redirect, plainFile, namedFile,
         directory, Found, startCgi, execute

\* Of two locations that match, the one with the shorter pattern comes later.
LEMMA Decides == IInv => LongestPatternDecides
<1> SUFFICES ASSUME IInv, request # None, i <= Len(order), NEW l \in ToSet(order),
                    matchPattern(request.target, l.pattern)
             PROVE  Len(l.pattern) <= Len(Location.pattern)
  BY DEF LongestPatternDecides
<1>1. PICK k \in DOMAIN order : l = order[k]
  BY DEF ToSet
<1>2. k \in 1..Len(order) /\ i \in 1..Len(order) /\ Len(order) \in Nat
  BY DEF IInv, Sorted, Passed
<1>3. k >= i
  BY <1>1, <1>2 DEF IInv, Passed
<1>4. CASE k = i
  BY <1>1, <1>2, <1>4 DEF Location, IInv, Sorted
<1>5. CASE k > i
  BY <1>1, <1>2, <1>5 DEF Location, IInv, Sorted, compareLength
<1>. QED
  BY <1>2, <1>3, <1>4, <1>5

\* What may be listed.
MayBeListed ==
    \/ Location.autoindex
    \/ Last(Path(wire.target)) \in Digits \cup EndsInDot
    \/ /\ Index(Location, Relative) # <<>> /\ getExtension(Index(Location, Relative)) = ""
       /\ result.path = getFilePath(Location, Relative, Index(Location, Relative))
    \/ /\ Location.redirect # <<>> /\ Location.redirect[1] \div 100 # 3
       /\ result.path = Location.redirect[2]

\* What execute takes for a directory to list.
Listable(r) == r.extension = "" /\ r.code \div 100 # 3

\* The request is the one received, a result that is taken for a directory may be listed,
\* and nothing else is listed.
Parsed == request # None => request.file = parseUri(wire.target)
Chosen == result # None => request # None /\ (Listable(result) => MayBeListed)
Listed == (answer # None /\ answer.kind = "listing") => result # None /\ Listable(result)

ListInv == Parsed /\ Chosen /\ Listed

\* A file name without an extension is one of digits, or ends in a dot, or is an index.
LEMMA NoExtension ==
    ASSUME Parsed, request # None, FileName # <<>>, getExtension(FileName) = ""
    PROVE  \/ Last(Path(wire.target)) \in Digits \cup EndsInDot
           \/ Index(Location, Relative) # <<>> /\ FileName = Index(Location, Relative)
<1>1. FileName[1] \notin Dotted \ EndsInDot
  BY DEF getExtension
<1>2. CASE request.file # <<>>
  <2>1. FileName = request.file /\ request.file = parseUri(wire.target)
    BY <1>2 DEF FileName, Parsed
  <2>2. PICK last : last = Last(Path(wire.target))
    OBVIOUS
  <2>3. request.file = <<last>> /\ last \in Dotted \cup Digits
    BY <1>2, <2>1, <2>2 DEF parseUri
  <2>4. FileName[1] = last
    <3>1. FileName = <<last>>
      BY <2>1, <2>3
    <3>2. <<last>>[1] = last
      OBVIOUS
    <3>3. QED
      BY <3>1, <3>2, Zenon
  <2>5. last \in Digits \cup EndsInDot
    BY <1>1, <2>3, <2>4
  <2>6. QED
    BY <2>2, <2>5
<1>3. CASE request.file = <<>>
  BY <1>3 DEF FileName
<1>. QED
  BY <1>2, <1>3

\* A step that leaves the request and finds a result, finds one that may be listed.
LEMMA ListStep == ListInv /\ [Next]_vars => ListInv'
<1> SUFFICES ASSUME ListInv, [Next]_vars PROVE ListInv'
  OBVIOUS
<1>1. Parsed /\ Chosen /\ Listed
  BY DEF ListInv
<1>2. CASE receive
  BY <1>2 DEF receive, ListInv, Parsed, Chosen, Listed
<1>3. CASE parseRequestHeader
  BY <1>1, <1>3 DEF parseRequestHeader, ListInv, Parsed, Chosen, Listed
<1>4. ASSUME UNCHANGED <<wire, order, i, request>>
      PROVE  /\ Parsed'
             /\ UNCHANGED result => Chosen'
             /\ UNCHANGED <<result, answer>> => Listed'
  <2>1. /\ UNCHANGED <<Location, Relative, Index(Location, Relative)>>
        /\ UNCHANGED getFilePath(Location, Relative, Index(Location, Relative))
        /\ UNCHANGED Path(wire.target)
    BY <1>4 DEF Location, Relative
  <2>2. UNCHANGED result => MayBeListed' = MayBeListed
    BY <1>4, <2>1 DEF MayBeListed
  <2>3. Parsed'
    BY <1>1, <1>4 DEF Parsed
  <2>4. QED
    BY <1>1, <1>4, <2>2, <2>3 DEF Chosen, Listed
<1>5. CASE nextLocation
  <2>1. result = None /\ answer = None /\ UNCHANGED <<wire, request, result, answer>>
    BY <1>5 DEF nextLocation, Looking
  <2>2. QED
    BY <1>1, <2>1 DEF ListInv, Parsed, Chosen, Listed
<1>6. CASE badRequest \/ notFound \/ methodNotAllowed \/ startCgi
  <2>1. UNCHANGED <<wire, order, i, request, result>> /\ answer'.kind # "listing"
    <3>1. \A code, kind, path : Answer(code, kind, path).kind = kind
      BY DEF Answer
    <3>2. badRequest \/ notFound \/ methodNotAllowed => \E code : answer' = Answer(code, "error", <<>>)
      BY DEF badRequest, notFound, methodNotAllowed, Throw
    <3>3. startCgi => answer' = Answer(200, "cgi", Resolve(result.path))
      BY DEF startCgi
    <3>4. answer'.kind \in {"error", "cgi"}
      BY <1>6, <3>1, <3>2, <3>3
    <3>5. QED
      BY <1>6, <3>4 DEF badRequest, notFound, methodNotAllowed, startCgi
  <2>2. QED
    BY <1>4, <2>1 DEF ListInv, Listed
<1>7. CASE execute
  <2>1. /\ UNCHANGED <<wire, order, i, request, result>> /\ result # None
        /\ answer'.kind = "listing" => Listable(result)
    BY <1>7 DEF execute, Answer, Listable
  <2>2. QED
    BY <1>4, <2>1 DEF ListInv, Listed
<1>8. ASSUME Looking, NEW r, Found(r), Listable(r) => MayBeListed'
      PROVE  ListInv'
  <2>1. UNCHANGED <<wire, order, i, request, answer>> /\ result' = r /\ request # None /\ answer = None
    BY <1>8 DEF Found, Looking
  <2>2. QED
    BY <1>4, <1>8, <2>1 DEF ListInv, Chosen, Listed
<1>9. CASE redirect
  <2>1. Looking /\ Location.redirect # <<>> /\ UNCHANGED <<wire, order, i, request>>
    BY <1>9 DEF redirect, Entered, Matched, Found
  <2>2. PICK r : Found(r) /\ r.path = Location.redirect[2] /\ r.code = Location.redirect[1]
    <3> DEFINE found == [kind |-> "redirect", path |-> Location.redirect[2],
                         extension |-> "", code |-> Location.redirect[1]]
    <3>1. Found(found)
      BY <1>9 DEF redirect
    <3>2. found.path = Location.redirect[2] /\ found.code = Location.redirect[1]
      OBVIOUS
    <3>3. QED
      BY <3>1, <3>2
  <2>3. ASSUME Listable(r)
        PROVE  MayBeListed'
    <3>1. Location' = Location /\ result' = r
      BY <2>1, <2>2 DEF Location, Found
    <3>2. Location.redirect[1] \div 100 # 3
      BY <2>2, <2>3 DEF Listable
    <3>3. QED
      BY <2>1, <2>2, <3>1, <3>2 DEF MayBeListed
  <2>4. QED
    BY <1>8, <2>1, <2>2, <2>3
<1>10. CASE plainFile
  <2>1. PICK r : Looking /\ Found(r) /\ r.extension = "nothing"
    BY <1>10 DEF plainFile, Resolved, Entered, Matched, createResult
  <2>2. QED
    BY <1>8, <2>1 DEF Listable
<1>11. CASE directory
  <2>1. Looking /\ Location.autoindex /\ UNCHANGED order /\ UNCHANGED i
    BY <1>11 DEF directory, Resolved, Entered, Matched, Found
  <2>2. MayBeListed'
    BY <2>1 DEF MayBeListed, Location
  <2>3. PICK r : Found(r)
    BY <1>11 DEF directory
  <2>4. QED
    BY <1>8, <2>1, <2>2, <2>3
<1>12. CASE namedFile
  <2>1. Looking /\ FileName # <<>> /\ UNCHANGED <<wire, order, i, request>>
    BY <1>12 DEF namedFile, Resolved, Entered, Matched, Found
  <2>2. PICK r : /\ Found(r) /\ r.path = getFilePath(Location, Relative, FileName)
                 /\ r.extension = getExtension(FileName)
    BY <1>12 DEF namedFile, createResult
  <2>3. ASSUME r.extension = ""
        PROVE  MayBeListed'
    <3>1. \/ Last(Path(wire.target)) \in Digits \cup EndsInDot
          \/ Index(Location, Relative) # <<>> /\ FileName = Index(Location, Relative)
      BY <1>1, <2>1, <2>2, <2>3, NoExtension DEF Looking
    <3>2. /\ UNCHANGED <<Index(Location, Relative), Path(wire.target)>>
          /\ UNCHANGED getFilePath(Location, Relative, Index(Location, Relative))
      BY <2>1 DEF Location, Relative
    <3>3. result' = r
      BY <2>2 DEF Found
    <3>4. QED
      BY <2>2, <2>3, <3>1, <3>2, <3>3 DEF MayBeListed
  <2>4. QED
    BY <1>8, <2>1, <2>2, <2>3 DEF Listable
<1>13. CASE UNCHANGED vars
  BY <1>4, <1>13 DEF vars, ListInv
<1>. QED
  BY <1>2, <1>3, <1>5, <1>6, <1>7, <1>9, <1>10, <1>11, <1>12, <1>13 DEF Next

\* Whatever is configured and asked, the location at which routeRequest stops has the
\* longest pattern of all that match (Router.cpp:18-20, :86-92).
THEOREM LongestDecides == Spec => []LongestPatternDecides
  BY InitIInv, NextIInv, Decides, PTL DEF Spec

\* A directory is listed for no other reason than the four, whatever is configured and
\* asked: autoindex, a last segment of digits or with a final dot, an index without an
\* extension, or a "return" whose code is no redirect (requestParser.cpp:142-147,
\* Router.cpp:74-80, :98-101, :123-150, StaticResourceHandler.cpp:14-30).
THEOREM ListingNeedsReason == Spec => []ListsOnlyFor
<1>1. Init => ListInv
  BY DEF Init, ListInv, Parsed, Chosen, Listed
<1>2. ListInv => ListsOnlyFor
  BY DEF ListInv, Chosen, Listed, MayBeListed, ListsOnlyFor
<1>3. QED
  BY <1>1, <1>2, ListStep, PTL DEF Spec
======================================================================================
