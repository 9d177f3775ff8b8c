--------------------------------- MODULE MCWebserver ---------------------------------
(***************************************************************************)
(* Values for the constants of Webserver: descriptor 4 is the listening    *)
(* socket, the next ones are free, and a client is a model value.          *)
(***************************************************************************)
EXTENDS Webserver, TLC

CONSTANTS c1, c2

OneHome == [c \in Clients |-> 4]

\* Enough for two clients and the one CGI process that four free numbers allow.
ScarceFds == 5..10
\* Enough for two clients with a CGI process each.
AmpleFds == 5..11

\* The clients of one server are interchangeable.
Symmetry == Permutations(Clients)
=============================================================================
