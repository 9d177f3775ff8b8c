----------------------------------- MODULE Config -----------------------------------
(***************************************************************************)
(* From the text of a configuration file to listening servers:             *)
(* ConfigParser over the tokens, ConfigAdapter over the tree of contexts,  *)
(* one socket per server, and the ways in which this ends.                 *)
(*                                                                         *)
(* The recursion of parseConfigRecursive is a stack of frames, a frame     *)
(* being its list of tokens, its iterator and its parentContext. A token   *)
(* is a word and whether it ends with a semicolon; the token ";" is the    *)
(* empty word with one.                                                    *)
(***************************************************************************)
EXTENDS Integers, Sequences, SequencesExt, FiniteSetsExt

CONSTANTS
    Files,      \* the configurations somebody means to write
    Strays,     \* the tokens that may slip into a file
    Numbers,    \* the value of each word that is a number
    Leading,    \* the value of the number a word begins with, where it begins with one
    Addresses   \* the words inet_addr takes for an address of this host

Contexts   == {"main", "http", "server", "events", "location"}
Directives == {"host", "port", "worker_processes", "error_page", "listen", "server_name",
               "root", "index", "allow_methods", "access_log", "autoindex", "fastcgi_pass",
               "fastcgi_index", "fastcgi_param", "client_max_body_size", "return", "include",
               "cgi_interpreter"}

Ports     == 1..65535
Token     == [w: STRING, semi: BOOLEAN]
Directive == [name: Directives, values: Seq(STRING)]

\* What is written: directives, locations in their midst, and a name for each.
Location == [pattern: STRING, body: Seq(Directive)]
Server   == [before: Seq(Directive), locations: Seq(Location), after: Seq(Directive)]
File     == [main: Seq(Directive), servers: Seq(Server)]

ASSUME ConfigAssumption ==
    /\ Files \subseteq File /\ Strays \subseteq Token
    /\ Numbers \in [DOMAIN Numbers -> Nat] /\ Leading \in [DOMAIN Leading -> Nat]
    /\ \A w \in DOMAIN Numbers : w \in DOMAIN Leading /\ Leading[w] = Numbers[w]
    /\ DOMAIN Leading \cup Addresses \subseteq STRING
    \* The provers know nothing of the strings in quotes.
    /\ Contexts \cup Directives \cup {"", "{", "}"} \subseteq STRING

Context        == [type: Contexts, options: Seq(STRING), children: Seq(Nat), directives: Seq(Directive)]
Frame          == [toks: Seq(Token), at: Nat, node: Nat]
LocationConfig == [pattern: STRING, root: STRING, allowMethods: Seq(STRING), autoindex: BOOLEAN,
                   redirect: Seq(Nat \X STRING), index: Seq(STRING), cgiInterpreter: STRING]
ServerConfig   == [host: STRING \ {""}, port: Ports, serverName: STRING \ {""},
                   clientMaxBodySize: Nat \ {0}, errorPages: SUBSET (Nat \X STRING),
                   locations: Seq(LocationConfig) \ {<<>>}]

VARIABLES
    file,     \* what was meant
    slip,     \* the text differs from it by one slip
    stack,    \* the calls of parseConfigRecursive under way, innermost last
    nodes,    \* the contexts in the order they were made, each with its children's places
    configs,  \* the servers of HTTPConfig
    bound,    \* the addresses of the sockets that listen
    pc,       \* where main is
    up        \* "loading", "running", "reported" by main, "exit" with a message, "undefined"

vars == <<file, slip, stack, nodes, configs, bound, pc, up>>

TypeOK ==
    /\ file \in Files /\ slip \in BOOLEAN
    /\ stack \in Seq(Frame) /\ nodes \in Seq(Context)
    /\ configs \in Seq(ServerConfig) /\ bound \in Seq(STRING \X Ports)
    /\ pc \in {"parse", "block", "deleteTree", "nullptr", "convert", "listen"}
    /\ up \in {"loading", "running", "reported", "exit", "undefined"}

-----------------------------------------------------------------------------
(* The text. *)

Word(w)  == [w |-> w, semi |-> FALSE]
Open     == Word("{")
Close    == Word("}")
Block(t) == <<Open>> \o t \o <<Close>>

Line(d) == <<Word(d.name)>>
           \o [i \in DOMAIN d.values |-> [w |-> d.values[i], semi |-> i = Len(d.values)]]
Lines(ds) == FlattenSeq([i \in DOMAIN ds |-> Line(ds[i])])

LocationText(l) == <<Word("location"), Word(l.pattern)>> \o Block(Lines(l.body))
ServerText(s) ==
    <<Word("server")>>
    \o Block(Lines(s.before) \o FlattenSeq([i \in DOMAIN s.locations |-> LocationText(s.locations[i])])
             \o Lines(s.after))

\* Without a server there is no block of http either.
Text(f) ==
    Lines(f.main)
    \o IF f.servers = <<>> THEN <<>>
       ELSE <<Word("http")>> \o Block(FlattenSeq([i \in DOMAIN f.servers |-> ServerText(f.servers[i])]))

\* One token too few or too many, a semicolon lost or set apart.
Slips(t) ==
    {RemoveAt(t, i) : i \in DOMAIN t}
    \cup {InsertAt(t, i, x) : i \in DOMAIN t, x \in Strays}
    \cup {ReplaceAt(t, i, Word(t[i].w)) : i \in {j \in DOMAIN t : t[j].semi}}
    \cup {InsertAt(ReplaceAt(t, i, Word(t[i].w)), i + 1, [w |-> "", semi |-> TRUE]) :
             i \in {j \in DOMAIN t : t[j].semi /\ j < Len(t)}}

-----------------------------------------------------------------------------
(* ConfigParser. *)

none == 0
first(S) == IF S = {} THEN none ELSE Min(S)

isContext(t)   == ~t.semi /\ t.w \in Contexts
isDirective(t) == ~t.semi /\ t.w \in Directives

\* A mutated form: a token that is neither is not noticed.
neverUnknown(t) == FALSE

unknown(t) == ~isContext(t) /\ ~isDirective(t)

top          == Last(stack)
configTokens == top.toks
currentIter  == top.at
token        == configTokens[currentIter]

rest         == (currentIter + 1)..Len(configTokens)   \* empty at lastIter

words(a, b) == [i \in 1..(b - a + 1) |-> configTokens[a + i - 1].w]

\* The brace that ends the options of a context.
opening == first({p \in rest : configTokens[p] = Open})

\* The brackets still open at p, of the block that begins at currentIter.
BracketCount(p) ==
    LET seen(brace) == {q \in currentIter..p : configTokens[q] = brace}
    IN  Cardinality(seen(Open)) - Cardinality(seen(Close))

\* A mutated form: blocks do not nest.
nextClose(p) == configTokens[p] = Close /\ \A q \in rest : q < p => configTokens[q] # Close

\* The brace that closes it, the first at which none is open.
balanced(p) == configTokens[p] = Close /\ BracketCount(p) = 0
closing(p)  == balanced(p) /\ \A q \in rest : q < p => ~balanced(q)

Parsing(here) == up = "loading" /\ pc = here /\ UNCHANGED <<file, slip, configs, bound>>
AtToken       == Parsing("parse") /\ stack # <<>> /\ currentIter <= Len(configTokens)

Advance(to) == [stack EXCEPT ![Len(stack)].at = to]

\* A new IConfigContext is attached to its parent at once.
newContextNode(end) ==
    nodes' = Append([nodes EXCEPT ![top.node].children = Append(@, Len(nodes) + 1)],
                    [type |-> token.w, options |-> words(currentIter + 1, end),
                     children |-> <<>>, directives |-> <<>>])

parseContext ==
    /\ AtToken /\ isContext(token) /\ rest # {} /\ opening # none
    /\ newContextNode(opening - 1)
    /\ stack' = Advance(opening)
    /\ pc' = "block"
    /\ UNCHANGED up

\* A mutated form: the caller goes on inside the block.
parseBlockTwice ==
    /\ Parsing("block")
    /\ \E end \in rest :
          /\ closing(end)
          /\ stack' = Append(Advance(currentIter + 1),
                             [toks |-> SubSeq(configTokens, currentIter + 1, end - 1),
                              at |-> 1, node |-> Len(nodes)])
    /\ pc' = "parse"
    /\ UNCHANGED <<nodes, up>>

\* What is between the braces is parsed by a call of its own.
parseBlock ==
    /\ Parsing("block")
    /\ \E end \in rest :
          /\ closing(end)
          /\ stack' = Append(Advance(end + 1),
                             [toks |-> SubSeq(configTokens, currentIter + 1, end - 1),
                              at |-> 1, node |-> Len(nodes)])
    /\ pc' = "parse"
    /\ UNCHANGED <<nodes, up>>

\* The last token of a directive's values: one that ends with a semicolon, the one before
\* a semicolon of its own, which stays where it is, or the last of the block.
lastValue ==
    LET p == first({q \in rest : configTokens[q].semi})
    IN  IF p = none THEN Len(configTokens)
        ELSE IF configTokens[p].w = "" THEN p - 1 ELSE p

parseDirective ==
    /\ AtToken /\ isDirective(token) /\ rest # {}
    /\ nodes' = [nodes EXCEPT ![top.node].directives =
                    Append(@, [name |-> token.w, values |-> words(currentIter + 1, lastValue)])]
    /\ stack' = Advance(lastValue + 1)
    /\ UNCHANGED <<pc, up>>

returnFromBlock ==
    /\ Parsing("parse") /\ stack # <<>> /\ currentIter > Len(configTokens)
    /\ stack' = Front(stack)
    /\ UNCHANGED <<nodes, pc, up>>

\* A ConfigSyntaxError goes through all the calls to parseConfig.
throwSyntaxError == stack' = <<>> /\ pc' = "deleteTree"

noSuchToken ==
    /\ AtToken /\ (unknown(token) \/ rest = {})
    /\ throwSyntaxError
    /\ UNCHANGED <<nodes, up>>

noOpeningBrace ==
    /\ AtToken /\ isContext(token) /\ rest # {} /\ opening = none
    /\ newContextNode(Len(configTokens))
    /\ throwSyntaxError
    /\ UNCHANGED up

\* A block that is not closed: the iterator is read at the end, and what is found there
\* ends in the same exception at best.
noClosingBrace ==
    /\ Parsing("block") /\ ~\E p \in rest : closing(p)
    /\ throwSyntaxError
    /\ up' \in {"loading", "undefined"}
    /\ UNCHANGED nodes

getChild(n) == nodes[n].children

root == 1

parsed ==
    /\ Parsing("parse") /\ stack = <<>>
    /\ pc' = IF getChild(root) = <<>> THEN "deleteTree" ELSE "convert"
    /\ UNCHANGED <<stack, nodes, up>>

\* deleteTree deletes what the destructor of each context then deletes again, which may
\* go unnoticed. parseConfig returns nullptr.
deleteTree ==
    /\ up = "loading" /\ pc = "deleteTree" /\ pc' = "nullptr"
    /\ up' \in IF getChild(root) = <<>> /\ nodes[root].directives = <<>> THEN {"loading"}
               ELSE {"loading", "undefined"}
    /\ UNCHANGED <<file, slip, stack, nodes, configs, bound>>

\* initializeConfig asks it for its first child before any check.
getChildOfNull ==
    /\ up = "loading" /\ pc = "nullptr"
    /\ up' = "undefined"
    /\ UNCHANGED <<file, slip, stack, nodes, configs, bound, pc>>

-----------------------------------------------------------------------------
(* ConfigAdapter and the constructor of ServerConfig. *)

stoiSafe(w) == IF w \in DOMAIN Numbers THEN Numbers[w] ELSE 0

\* std::stoul passes over what follows the number; where there is none it throws (below).
stoul(w) == IF w \in DOMAIN Leading THEN Leading[w] ELSE 0

noServer == [host |-> "", port |-> 80, serverName |-> "", clientMaxBodySize |-> 1,
             errorPages |-> {}, locations |-> <<>>]

\* A mutated form: the values of the server before are not reset.
sameServer == IF configs = <<>> THEN noServer ELSE [Last(configs) EXCEPT !.locations = <<>>]

newServer == noServer

\* The map from status codes to pages, as a set of pairs.
errorPage(pages, values) ==
    LET codes == {stoiSafe(values[i]) : i \in 1..(Len(values) - 1)}
    IN  {p \in pages : p[1] \notin codes} \cup (codes \X {Last(values)})

applyToServer(c, d) ==
    LET v == d.values IN
    IF v = <<>> THEN c ELSE
    CASE d.name = "host"                 -> [c EXCEPT !.host = v[1]]
      [] d.name = "port"                 -> [c EXCEPT !.port = stoiSafe(v[1])]
      [] d.name = "server_name"          -> [c EXCEPT !.serverName = v[1]]
      [] d.name = "client_max_body_size" -> [c EXCEPT !.clientMaxBodySize = stoul(v[1])]
      [] d.name = "error_page" /\ Len(v) >= 2 -> [c EXCEPT !.errorPages = errorPage(@, v)]
      [] OTHER -> c

noLocation == [pattern |-> "", root |-> "", allowMethods |-> <<>>, autoindex |-> FALSE,
               redirect |-> <<>>, index |-> <<>>, cgiInterpreter |-> ""]

applyToLocation(c, d) ==
    LET v == d.values IN
    IF v = <<>> THEN c ELSE
    CASE d.name = "root"            -> [c EXCEPT !.root = v[1]]
      [] d.name = "allow_methods"   -> [c EXCEPT !.allowMethods = v]
      [] d.name = "autoindex"       -> [c EXCEPT !.autoindex = v[1] = "on"]
      [] d.name = "index"           -> [c EXCEPT !.index = v]
      [] d.name = "cgi_interpreter" -> [c EXCEPT !.cgiInterpreter = v[1]]
      [] d.name = "return" /\ Len(v) >= 2 ->
            [c EXCEPT !.redirect = Append(@, <<stoiSafe(v[1]), v[2]>>)]
      [] OTHER -> c

convertToLocationConfig(n) ==
    FoldLeft(applyToLocation,
             [noLocation EXCEPT !.pattern = IF nodes[n].options = <<>> THEN "" ELSE nodes[n].options[1]],
             nodes[n].directives)

convertToServerConfig(n) ==
    [FoldLeft(applyToServer, newServer, nodes[n].directives) EXCEPT
        !.locations = [i \in DOMAIN getChild(n) |-> convertToLocationConfig(getChild(n)[i])]]

\* stoul throws for a word that does not begin with a number.
stoulThrows(ds) ==
    \E i \in DOMAIN ds : /\ ds[i].name = "client_max_body_size" /\ ds[i].values # <<>>
                         /\ ds[i].values[1] \notin DOMAIN Leading

\* A mutated form: one port too many.
invalidBeyond(c) == c.host = "" \/ c.port \notin 1..65536 \/ c.serverName = ""
                    \/ c.clientMaxBodySize < 1 \/ c.locations = <<>>

invalid(c) == c.host = "" \/ c.port \notin Ports \/ c.serverName = ""
              \/ c.clientMaxBodySize < 1 \/ c.locations = <<>>

\* Whatever the first context is, it is taken for http, and its contexts for servers.
serverContexts == getChild(getChild(root)[1])
serverContext  == serverContexts[Len(configs) + 1]

throws(n) == stoulThrows(nodes[n].directives) \/ invalid(convertToServerConfig(n))

Converting ==
    /\ up = "loading" /\ pc = "convert" /\ Len(configs) < Len(serverContexts)
    /\ UNCHANGED <<file, slip, stack, nodes, bound, pc>>

convert ==
    /\ Converting /\ ~throws(serverContext)
    /\ configs' = Append(configs, convertToServerConfig(serverContext))
    /\ UNCHANGED up

\* main prints the exception and returns.
convertThrows ==
    /\ Converting /\ throws(serverContext)
    /\ up' = "reported"
    /\ UNCHANGED configs

converted ==
    /\ up = "loading" /\ pc = "convert" /\ Len(configs) = Len(serverContexts)
    /\ pc' = "listen"
    /\ UNCHANGED <<file, slip, stack, nodes, configs, bound, up>>

-----------------------------------------------------------------------------
(* dependencyInjection: a Socket for each server. *)

address(c) == <<c.host, c.port>>

\* A mutated form: a second socket may have the address of the first.
shared(a) == a[1] \in Addresses

free(a) == a[1] \in Addresses /\ \A i \in DOMAIN bound : bound[i] # a

Listening ==
    /\ up = "loading" /\ pc = "listen" /\ Len(bound) < Len(configs)
    /\ UNCHANGED <<file, slip, stack, nodes, configs, pc>>

listenSocket ==
    /\ Listening /\ free(address(configs[Len(bound) + 1]))
    /\ bound' = Append(bound, address(configs[Len(bound) + 1]))
    /\ UNCHANGED up

bindFails ==
    /\ Listening /\ ~free(address(configs[Len(bound) + 1]))
    /\ up' = "exit"
    /\ UNCHANGED bound

start ==
    /\ up = "loading" /\ pc = "listen" /\ Len(bound) = Len(configs)
    /\ up' = "running"
    /\ UNCHANGED <<file, slip, stack, nodes, configs, bound, pc>>

Init ==
    /\ file \in Files
    /\ \E t \in {Text(file)} \cup Slips(Text(file)) :
          /\ slip = (t # Text(file))
          /\ stack = <<[toks |-> t, at |-> 1, node |-> root]>>
    /\ nodes = <<[type |-> "main", options |-> <<>>, children |-> <<>>, directives |-> <<>>]>>
    /\ configs = <<>> /\ bound = <<>> /\ pc = "parse" /\ up = "loading"

Next ==
    \/ parseContext \/ parseBlock \/ parseDirective \/ returnFromBlock
    \/ noSuchToken \/ noOpeningBrace \/ noClosingBrace
    \/ parsed \/ deleteTree \/ getChildOfNull
    \/ convert \/ convertThrows \/ converted
    \/ listenSocket \/ bindFails \/ start

Spec == Init /\ [][Next]_vars

\* main is a sequence of steps.
FairSpec == Spec /\ WF_vars(Next)
-----------------------------------------------------------------------------
(* What was meant, read off the file. *)

Given(ds, name, k) == {i \in DOMAIN ds : ds[i].name = name /\ Len(ds[i].values) >= k}

\* The values of the last directive of that name.
Value(ds, name, default) ==
    IF Given(ds, name, 1) = {} THEN default ELSE ds[Max(Given(ds, name, 1))].values

MeantLocation(l) ==
    LET returns == SelectSeq(l.body, LAMBDA d : d.name = "return" /\ Len(d.values) >= 2) IN
    [pattern        |-> l.pattern,
     root           |-> Head(Value(l.body, "root", <<"">>)),
     allowMethods   |-> Value(l.body, "allow_methods", <<>>),
     autoindex      |-> Head(Value(l.body, "autoindex", <<"off">>)) = "on",
     redirect       |-> [i \in DOMAIN returns |->
                            <<stoiSafe(returns[i].values[1]), returns[i].values[2]>>],
     index          |-> Value(l.body, "index", <<>>),
     cgiInterpreter |-> Head(Value(l.body, "cgi_interpreter", <<"">>))]

\* The page of a status is that of the last error_page which names it.
MeantPages(ds) ==
    LET E        == Given(ds, "error_page", 2)
        Codes(i) == {stoiSafe(w) : w \in ToSet(Front(ds[i].values))}
        lastFor(c) == Max({i \in E : c \in Codes(i)})
    IN  {<<c, Last(ds[lastFor(c)].values)>> : c \in UNION {Codes(i) : i \in E}}

Meant(s) ==
    LET ds == s.before \o s.after IN
    [host              |-> Head(Value(ds, "host", <<"">>)),
     port              |-> stoiSafe(Head(Value(ds, "port", <<"80">>))),
     serverName        |-> Head(Value(ds, "server_name", <<"">>)),
     clientMaxBodySize |-> stoul(Head(Value(ds, "client_max_body_size", <<"1">>))),
     errorPages        |-> MeantPages(ds),
     locations         |-> [i \in DOMAIN s.locations |-> MeantLocation(s.locations[i])]]

Unusable(s) == invalid(Meant(s)) \/ stoulThrows(s.before \o s.after)

(* Properties. *)

\* A file without slips becomes exactly the servers it describes, each value in its own
\* context and none inherited; it is refused, with a report, only for a server that is
\* not usable, and the process exits only for an address that is taken or not its own
\* (ConfigParser.cpp:37-142, ConfigAdapter.cpp:4-135, ServerConfig.cpp:21-39,
\* Socket.cpp:12-18).
AsWritten ==
    ~slip =>
       LET n == Len(file.servers)
           addresses == [i \in 1..n |-> address(Meant(file.servers[i]))]
       IN  /\ configs = [i \in 1..Len(configs) |-> Meant(file.servers[i])]
           /\ up = "running" => Len(configs) = n /\ bound = addresses
           /\ up = "reported" => Unusable(file.servers[Len(configs) + 1])
           /\ up = "exit" =>
                 LET a == addresses[Len(bound) + 1]
                 IN  a[1] \notin Addresses \/ a \in Range(SubSeq(addresses, 1, Len(bound)))
           /\ up = "undefined" => n = 0

\* What a slip does stays in one server: if the file is accepted all the same, there are
\* as many servers as were meant, and all but one are as they were meant. Braces are
\* counted before what is between them is parsed, so that a directive that has lost its
\* semicolon swallows no more than its own block (ConfigParser.cpp:75-85, :120).
SlipStaysInServer ==
    up = "running" =>
       /\ Len(configs) = Len(file.servers)
       /\ Cardinality({i \in DOMAIN configs : configs[i] # Meant(file.servers[i])}) <= 1

\* Parsing comes to an end for every text, and one way or other so does loading it
\* (ConfigParser.cpp:48-141).
Loads == <>(up # "loading")

\* The words of a block's text that have not been read.
Unread(frame) == Len(frame.toks) + 1 - frame.at

\* No word is read twice, for every text and however its brackets nest: a step of the
\* parser ends calls, reads on in the innermost block, or gives a part of what is unread
\* there to a call of its own, so that less is left for both together. Therefore
\* parsing ends (ConfigParser.cpp:48, :54-107, :114-135).
EachWordOnce ==
    [][stack # <<>> =>
          \/ stack' = <<>> \/ stack' = Front(stack)
          \/ /\ Len(stack') = Len(stack) /\ Front(stack') = Front(stack)
             /\ Unread(Last(stack')) \in 0..(Unread(top) - 1)
          \/ /\ Len(stack') = Len(stack) + 1 /\ Front(Front(stack')) = Front(stack)
             /\ Unread(Last(stack')) + Unread(Last(Front(stack'))) \in 0..(Unread(top) - 1)]_vars

\* The process listens for the servers of the file in their order, each valid and on
\* the address its own directives give, and never for two on one address; if it runs at
\* all, then for every one of them: a server that is refused or cannot be bound is not
\* passed over (main.cpp:36-71, ConfigAdapter.cpp:4-16, Socket.cpp:12-18).
ListensAsConfigured ==
    /\ up = "running" => Len(bound) = Len(serverContexts)
    /\ \A i \in DOMAIN bound :
          /\ ~throws(serverContexts[i]) /\ bound[i] = address(convertToServerConfig(serverContexts[i]))
          /\ bound[i][1] \in Addresses /\ \A j \in DOMAIN bound : bound[i] = bound[j] => i = j

\* "Failed to parse configuration." (main.cpp:29): that a file cannot be parsed is said by
\* an exception, which main catches and prints.
RejectedIsReported == up # "undefined"
=============================================================================
