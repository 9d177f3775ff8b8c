---------------------------------- MODULE MCConfig ----------------------------------
(***************************************************************************)
(* Values for the constants of Config: files of the shape of default.conf, *)
(* among them ones that cannot be used, and the tokens that slip in.       *)
(***************************************************************************)
EXTENDS Config

MCNumbers == [w \in {"0", "1", "80", "404", "500", "8080", "65535", "65536"} |->
    CASE w = "0" -> 0 [] w = "1" -> 1 [] w = "80" -> 80 [] w = "404" -> 404 [] w = "500" -> 500
      [] w = "8080" -> 8080 [] w = "65535" -> 65535 [] w = "65536" -> 65536]

\* Of "80M" and "0x" std::stoul reads the beginning.
MCLeading == [w \in DOMAIN MCNumbers \cup {"80M", "0x"} |->
    CASE w = "80M" -> 80 [] w = "0x" -> 0 [] OTHER -> MCNumbers[w]]

MCStrays == {Open, Close, Word("server"), Word("location"), Word("root"), Word("/b"),
             [w |-> "/b", semi |-> TRUE], [w |-> "", semi |-> TRUE]}

D(name, values) == [name |-> name, values |-> values]

Listen(port) == <<D("host", <<"local">>), D("port", <<port>>), D("server_name", <<"n">>)>>

Root  == [pattern |-> "/", body |-> <<D("root", <<"/w">>), D("allow_methods", <<"GET", "POST">>)>>]
Moved == [pattern |-> "/old", body |-> <<D("return", <<"404", "/x">>), D("return", <<"500", "/y">>)>>]
Files1 == [pattern |-> "/f", body |-> <<D("index", <<"a">>), D("autoindex", <<"on">>), D("index", <<"b", "c">>)>>]
Cgi   == [pattern |-> "/c", body |-> <<D("cgi_interpreter", <<"py">>)>>]
Empty == [pattern |-> "/e", body |-> <<>>]

Srv(before, locations, after) == [before |-> before, locations |-> locations, after |-> after]

First  == Srv(Listen("8080") \o <<D("client_max_body_size", <<"1">>)>>, <<Root, Moved>>,
              <<D("error_page", <<"404", "/p">>), D("error_page", <<"404", "500", "/q">>)>>)
\* The port is left to its default, and what is not used is passed over.
Second == Srv(<<D("host", <<"local">>), D("server_name", <<"m">>), D("listen", <<"1">>),
                D("error_page", <<"404">>)>>, <<Files1, Empty, Cgi>>, <<>>)

Bad(ds) == Srv(ds, <<Root>>, <<>>)

File1(servers) == [main |-> <<>>, servers |-> servers]

MCFiles ==
    {File1(<<First, Second>>), File1(<<Second, First>>), File1(<<First, First>>),
     [main |-> <<D("worker_processes", <<"1">>)>>, servers |-> <<>>],
     [main |-> <<D("worker_processes", <<"1">>)>>, servers |-> <<Second>>],
     File1(<<Second, Bad(Listen("0"))>>), File1(<<Bad(Listen("65536"))>>),
     File1(<<Bad(Listen("65535")), Bad(Listen("x"))>>),
     File1(<<Bad(Listen("1") \o <<D("client_max_body_size", <<"big">>)>>)>>),
     File1(<<Bad(Listen("1") \o <<D("client_max_body_size", <<"0x">>)>>)>>),
     File1(<<Bad(Listen("1") \o <<D("client_max_body_size", <<"80M">>), D("error_page", <<"80M", "/p">>)>>)>>),
     File1(<<Bad(<<D("server_name", <<"n">>)>>)>>), File1(<<Bad(<<D("host", <<"local">>)>>)>>),
     File1(<<Srv(Listen("1"), <<>>, <<>>)>>),
     File1(<<Bad(<<D("host", <<"far">>), D("server_name", <<"n">>)>>)>>)}
=============================================================================
