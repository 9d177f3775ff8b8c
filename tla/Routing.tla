---------------------------------- MODULE Routing ----------------------------------
(***************************************************************************)
(* From a complete request to its answer: RequestParser, Router, the       *)
(* dispatch of RequestHandler and StaticResourceHandler, for one server    *)
(* and a file tree that does not change meanwhile. In module Webserver all *)
(* this is the kind of a request.                                          *)
(*                                                                         *)
(* A string that is a target, a pattern or a path is a sequence of tokens: *)
(* "/", "?" and names. A name never follows a name, so a prefix or suffix  *)
(* of tokens is one of characters wherever the code goes on to ask for a   *)
(* "/" or the end. A file name is a sequence of at most one name.          *)
(***************************************************************************)
EXTENDS Naturals, Sequences, SequencesExt

CONSTANTS
    Requests,       \* what clients send: [method, target, sound]
    Configurations, \* servers: the locations of each in the order they are given
    Files,          \* the file tree: each file and directory as a sequence of names
    Directories,
    Unreadable,     \* what the server has no right to read
    Dotted,         \* the names with a dot
    EndsInDot,      \* those with nothing after the last dot
    Digits          \* the names of digits only

Methods == {"GET", "POST", "PUT", "PATCH", "DELETE"}

ASSUME TreeAssumption ==
    /\ Unreadable \subseteq Files \cup Directories
    /\ Files \cap Directories = {} /\ Dotted \cap Digits = {}
    /\ {".", ".."} \subseteq EndsInDot /\ EndsInDot \subseteq Dotted
    /\ \A p \in (Files \cup Directories) \ {<<>>} :
          Front(p) \in Directories /\ Last(p) \notin {".", ".."}

ASSUME RequestsAssumption ==
    \A r \in Requests : r.target # <<>> /\ r.target[1] = "/" /\ r.sound \in BOOLEAN

ASSUME ConfigurationsAssumption ==
    \A locations \in Configurations :
       /\ locations \in Seq(ToSet(locations))
       /\ \A n \in DOMAIN locations : Len(locations[n].pattern) \in Nat

None == [kind |-> "none"]

VARIABLES
    wire,     \* the request as it was received
    order,    \* sortedLocations_
    i,        \* the location that the loop of routeRequest looks at
    request,  \* the parsed Request, or None
    result,   \* the RouteResult, or None
    answer    \* what dispatch returned or threw, or None

vars == <<wire, order, i, request, result, answer>>

-----------------------------------------------------------------------------
(* Strings and the file system. *)

\* The position of the first "?", or one past the end.
QueryAt(target) ==
    CHOOSE p \in 1..(Len(target) + 1) :
       /\ p <= Len(target) => target[p] = "?"
       /\ \A j \in 1..(p - 1) : target[j] # "?"

Path(target) == SubSeq(target, 1, QueryAt(target) - 1)

\* The names of a path; repeated slashes count once, as in the kernel.
Steps(path) == SelectSeq(path, LAMBDA t : t # "/")

\* Where a name leads from a place: nowhere in the tree if that is not a directory.
Below(place, name) ==
    IF place \notin Directories \/ name \notin {".", ".."} THEN Append(place, name)
    ELSE IF name = "." \/ place = <<>> THEN place ELSE Front(place)

Resolve(path) == FoldLeft(Below, <<>>, Steps(path))

isDirectory(path) ==
    path # <<>> /\ ~Contains(path, "?") /\ Resolve(path) \in Directories

isFile(path) ==
    path # <<>> /\ ~Contains(path, "?") /\ Last(path) # "/" /\ Resolve(path) \in Files

exists(path) == isDirectory(path) \/ isFile(path)

\* A directory can be opened like a file.
opens(path) == exists(path) /\ Resolve(path) \notin Unreadable

-----------------------------------------------------------------------------
(* RequestParser and Router. *)

\* The last segment of the path is a file name if it has a dot or is a number.
parseUri(target) ==
    LET last == Last(Path(target))
    IN  IF last \in Dotted \cup Digits THEN <<last>> ELSE <<>>

\* Whatever is not one of the other four is taken for DELETE.
RequestType(method) == IF method \in Methods THEN method ELSE "DELETE"

isValidMethod(method, location) == location.methods = {} \/ method \in location.methods

\* A mutated form: the shortest pattern first.
compareShortest(a, b) == Len(a.pattern) < Len(b.pattern)

compareLength(a, b) == Len(a.pattern) > Len(b.pattern)

\* std::sort, which may leave locations of the same length in any order.
sortLocations(locations) ==
    LET D == DOMAIN locations
        Orders == {p \in [D -> D] : \A m, n \in D : m # n => p[m] # p[n]}
    IN  {s \in {[n \in D |-> locations[p[n]]] : p \in Orders} :
           \A m, n \in D : m < n => ~compareLength(s[n], s[m])}

matchPattern(target, pattern) ==
    \/ pattern = <<"/">>
    \/ /\ IsPrefix(pattern, target)
       /\ Len(target) > Len(pattern) => target[Len(pattern) + 1] = "/"

\* What follows the pattern, without the slash it begins with.
getRelativePath(target, pattern) ==
    LET rest == SubSeq(target, Len(pattern) + 1, Len(target))
    IN  IF rest # <<>> /\ rest[1] = "/" THEN Tail(rest) ELSE rest

\* The file name and the slash before it are taken off the relative path.
Parent(relative, file) ==
    IF file = <<>> \/ ~IsSuffix(file, relative) THEN relative
    ELSE LET front == Front(relative)
         IN  IF front # <<>> /\ Last(front) = "/" THEN Front(front) ELSE front

getFilePath(location, relative, file) ==
    location.root \o (IF relative = <<>> THEN <<>> ELSE <<"/">> \o relative)
                  \o (IF file = <<>> THEN <<>> ELSE <<"/">> \o file)

\* What follows the last dot.
getExtension(file) == IF file[1] \in Dotted \ EndsInDot THEN "extension" ELSE ""

createResult(location, path, extension) ==
    [kind |-> IF location.cgi THEN "cgi" ELSE "static", path |-> path,
     extension |-> extension, code |-> 200]

\* A mutated form: the last index file that exists.
LastIndex(location, relative) ==
    LET there == SelectSeq(location.index, LAMBDA f : exists(getFilePath(location, relative, <<f>>)))
    IN  IF there = <<>> THEN <<>> ELSE <<Last(there)>>

\* The first index file that exists.
Index(location, relative) ==
    LET there == SelectSeq(location.index, LAMBDA f : exists(getFilePath(location, relative, <<f>>)))
    IN  IF there = <<>> THEN <<>> ELSE <<Head(there)>>

Answer(code, kind, path) == [code |-> code, kind |-> kind, path |-> path]
Throw(code) == answer' = Answer(code, "error", <<>>)

-----------------------------------------------------------------------------
(* The steps of parseRequestHeader, routeRequest and execute. *)

parseRequestHeader ==
    /\ request = None /\ answer = None /\ wire.sound
    /\ request' = [kind   |-> "request", method |-> RequestType(wire.method),
                   target |-> wire.target, file |-> parseUri(wire.target)]
    /\ UNCHANGED <<wire, order, i, result, answer>>

\* The request line is short of a part, there is no Host, or it is not HTTP/1.1.
badRequest ==
    /\ request = None /\ answer = None /\ ~wire.sound
    /\ Throw(400)
    /\ UNCHANGED <<wire, order, i, request, result>>

Looking  == request # None /\ result = None /\ answer = None
Location == order[i]
Matched  == Looking /\ i <= Len(order) /\ matchPattern(request.target, Location.pattern)
Entered  == Matched /\ isValidMethod(request.method, Location)
Relative == Parent(getRelativePath(request.target, Location.pattern), request.file)
Place    == getFilePath(Location, Relative, <<>>)
Resolved == Entered /\ Location.redirect = <<>> /\ exists(Place)

\* The file name of the target, or the index file that stands for a directory.
FileName == IF request.file # <<>> THEN request.file ELSE Index(Location, Relative)

nextLocation ==
    /\ Looking /\ i <= Len(order) /\ ~matchPattern(request.target, Location.pattern)
    /\ i' = i + 1
    /\ UNCHANGED <<wire, order, request, result, answer>>

notFound ==
    /\ \/ Looking /\ i > Len(order)
       \/ Entered /\ Location.redirect = <<>> /\ ~exists(Place)
       \/ Resolved /\ FileName = <<>> /\ isDirectory(Place) /\ ~Location.autoindex
    /\ Throw(404)
    /\ UNCHANGED <<wire, order, i, request, result>>

methodNotAllowed ==
    /\ Matched /\ ~isValidMethod(request.method, Location)
    /\ Throw(405)
    /\ UNCHANGED <<wire, order, i, request, result>>

Found(r) == result' = r /\ UNCHANGED <<wire, order, i, request, answer>>

\* "return <code> <path>", whatever the code.
redirect ==
    /\ Entered /\ Location.redirect # <<>>
    /\ Found([kind |-> "redirect", path |-> Location.redirect[2], extension |-> "",
              code |-> Location.redirect[1]])

\* The target names a file without an extension.
plainFile ==
    /\ Resolved /\ request.file = <<>> /\ ~isDirectory(Place)
    /\ Found(createResult(Location, Place, "nothing"))

\* The target ends in a file name, or an index file stands for the directory.
namedFile ==
    /\ Resolved /\ FileName # <<>>
    /\ request.file = <<>> => isDirectory(Place)
    /\ Found(createResult(Location, getFilePath(Location, Relative, FileName), getExtension(FileName)))

\* A mutated form: a directory is listed whether or not the location says so.
listedAnyway ==
    /\ Resolved /\ FileName = <<>> /\ isDirectory(Place)
    /\ Found(createResult(Location, Place, ""))

directory ==
    /\ Resolved /\ FileName = <<>> /\ isDirectory(Place) /\ Location.autoindex
    /\ Found(createResult(Location, Place, ""))

\* dispatch hands a CGI program to CgiHandler, and anything else is executed at once.
startCgi ==
    /\ result # None /\ answer = None /\ result.kind = "cgi"
    /\ answer' = Answer(200, "cgi", Resolve(result.path))
    /\ UNCHANGED <<wire, order, i, request, result>>

\* StaticResourceHandler: a 3xx is a redirect; otherwise without an extension a directory
\* is listed, and with one whatever the path names is read, nothing of a directory. What
\* cannot be opened counts as not found: access(), asked only of an opened file, denies
\* nothing, so that the 403 after it is never thrown.
execute ==
    /\ result # None /\ answer = None /\ result.kind # "cgi"
    /\ answer' = LET path == result.path
                     list == result.extension = "" IN
                 IF result.code \div 100 = 3 THEN Answer(result.code, "redirect", path)
                 ELSE IF opens(path) /\ (list => isDirectory(path))
                      THEN Answer(result.code, IF list THEN "listing" ELSE "file", Resolve(path))
                      ELSE Answer(404, "error", <<>>)
    /\ UNCHANGED <<wire, order, i, request, result>>

\* The Router is built once; requests come one after another.
receive ==
    /\ answer # None
    /\ wire' \in Requests
    /\ i' = 1 /\ request' = None /\ result' = None /\ answer' = None
    /\ UNCHANGED order

Init ==
    /\ wire \in Requests
    /\ \E locations \in Configurations : order \in sortLocations(locations)
    /\ i = 1 /\ request = None /\ result = None /\ answer = None

Next ==
    \/ receive \/ parseRequestHeader \/ badRequest
    \/ nextLocation \/ notFound \/ methodNotAllowed
    \/ redirect \/ plainFile \/ namedFile \/ directory
    \/ startCgi \/ execute

Spec == Init /\ [][Next]_vars

-----------------------------------------------------------------------------
(* What a server promises of a request, in terms of segments and of the tree alone. *)

\* A location covers the targets below its pattern.
Covering(target) ==
    {l \in ToSet(order) : IsPrefix(Steps(l.pattern), Steps(Path(target)))}

Deepest(target) ==
    {l \in Covering(target) :
       \A k \in Covering(target) : Len(Steps(k.pattern)) <= Len(Steps(l.pattern))}

EndsInFile(target) == Last(Path(target)) \in Dotted

\* The target's place below the root of the location. A location that is a file
\* stands for the file of that name in its root.
PlaceOf(l, target) ==
    LET t == Steps(Path(target))
        p == Len(Steps(l.pattern))
    IN  Resolve(l.root) \o SubSeq(t, IF p = Len(t) /\ EndsInFile(target) THEN p ELSE p + 1, Len(t))

Content(l, file) ==
    IF l.cgi THEN Answer(200, "cgi", file)
    ELSE IF file \in Files \ Unreadable THEN Answer(200, "file", file)
    ELSE Answer(404, "error", <<>>)

\* Of a directory: its first index file, or its listing if the location has autoindex.
DirectoryContent(l, dir) ==
    LET there == SelectSeq(l.index, LAMBDA f : dir \o <<f>> \in Files)
    IN  IF there # <<>> THEN Content(l, dir \o <<Head(there)>>)
        ELSE IF l.autoindex
             THEN IF l.cgi THEN Answer(200, "cgi", dir)
                  ELSE IF dir \notin Unreadable THEN Answer(200, "listing", dir)
                  ELSE Answer(404, "error", <<>>)
             ELSE Answer(404, "error", <<>>)

Promised(l, method, target) ==
    LET place == PlaceOf(l, target) IN
    IF ~isValidMethod(method, l) THEN Answer(405, "error", <<>>)
    ELSE IF l.redirect # <<>> THEN Answer(l.redirect[1], "redirect", l.redirect[2])
    ELSE IF EndsInFile(target)
         THEN IF Front(place) \in Directories \cup Files THEN Content(l, place)
                                                         ELSE Answer(404, "error", <<>>)
    ELSE IF place \in Directories THEN DirectoryContent(l, place)
    ELSE IF place \in Files /\ Last(Path(target)) # "/" THEN Content(l, place)
    ELSE Answer(404, "error", <<>>)

AnswerTo(target) ==
    IF Deepest(target) = {} THEN {Answer(404, "error", <<>>)}
    ELSE {Promised(l, wire.method, target) : l \in Deepest(target)}

-----------------------------------------------------------------------------
(* Properties. *)

HasExtension(name) == name \in Dotted \ EndsInDot

\* A redirect has a code for one, and names tell files from directories: those with an
\* extension are no directory's, where they are asked for, and index files have one.
Clear(l, target) ==
    LET place == PlaceOf(l, target) IN
    /\ l.redirect # <<>> => l.redirect[1] \in 300..399
    /\ EndsInFile(target) => place \notin Directories
    /\ \A f \in ToSet(l.index) : HasExtension(f) /\ place \o <<f>> \notin Directories

\* A request with one of the five methods, for a path without an empty segment, ".", "..",
\* or a number or a final dot at its end, in a clear place.
Ordinary(target) ==
    /\ wire.sound /\ wire.method \in Methods
    /\ \A n \in 1..(Len(target) - 1) : target[n] # "/" \/ target[n + 1] # "/"
    /\ ToSet(target) \cap {".", ".."} = {} /\ Last(target) \notin Digits \cup EndsInDot
    /\ \A l \in Deepest(target) : Clear(l, target)

\* For an ordinary request the deepest location that covers its target decides, and the
\* answer is the method's refusal, the redirect, the file at the target's place below the
\* root, the first index file of the directory there, its listing, or 404: whatever the
\* order in which std::sort left the locations (Router.cpp:14-33, :82-154,
\* StaticResourceHandler.cpp:10-87).
AnsweredAsPromised ==
    (answer # None /\ ~Contains(wire.target, "?") /\ Ordinary(wire.target)) =>
       answer \in AnswerTo(wire.target)

\* A location decides only if no other that matches has a longer pattern, for every
\* target: the loop stops at the first match (Router.cpp:18-20, :86-92).
LongestPatternDecides ==
    (answer # None /\ request # None /\ i <= Len(order)) =>
       \A l \in ToSet(order) :
          matchPattern(request.target, l.pattern) => Len(l.pattern) <= Len(Location.pattern)

\* The listing is decided by execute, which does not know the location, and a directory
\* is listed for one of four reasons: autoindex, a target that ends in a name of digits
\* or in a dot, an index without an extension, or a "return" whose code is no redirect
\* (requestParser.cpp:142-147, Router.cpp:74-80, :98-101, :123-150,
\* StaticResourceHandler.cpp:14-30).
ListsOnlyFor ==
    (answer # None /\ answer.kind = "listing") =>
       \/ Location.autoindex
       \/ Last(Path(wire.target)) \in Digits \cup EndsInDot
       \/ /\ Index(Location, Relative) # <<>> /\ getExtension(Index(Location, Relative)) = ""
          /\ result.path = getFilePath(Location, Relative, Index(Location, Relative))
       \/ /\ Location.redirect # <<>> /\ Location.redirect[1] \div 100 # 3
          /\ result.path = Location.redirect[2]

\* The query is for the program and not part of the path (requestParser.cpp:131-135):
\* a target with a query is answered like the one without it.
QueryIsNotPath ==
    (answer # None /\ Ordinary(Path(wire.target))) => answer \in AnswerTo(wire.target)
=============================================================================
