---------------------------------- MODULE MCRouting ----------------------------------
(***************************************************************************)
(* A small tree, the locations of a server like those of default3.conf and *)
(* every target of up to five tokens with two rare tokens at most.         *)
(***************************************************************************)
EXTENDS Routing, FiniteSets

Names == {"docs", "notes", "a.html", "b.html", "42", "v1.0", ".", ".."}

MCDotted == {"a.html", "b.html", "v1.0", ".", ".."}
MCEndsInDot == {".", ".."}
MCDigits == {"42"}

\* /srv holds docs/, 42/, v1.0/, notes and a.html; docs holds a.html, b.html and a file 42.
MCDirectories == {<<>>, <<"srv">>, <<"srv", "docs">>, <<"srv", "42">>, <<"srv", "v1.0">>, <<"cgi">>}
MCFiles == {<<"srv", "notes">>, <<"srv", "a.html">>, <<"srv", "docs", "a.html">>,
            <<"srv", "docs", "b.html">>, <<"srv", "docs", "42">>, <<"cgi", "b.html">>}
MCUnreadable == {<<"srv", "docs", "b.html">>, <<"cgi">>}

\* The targets of T and those with one token more: no name follows a name, and of the
\* rare tokens there are two at most.
Rare == {"?", "v1.0", ".", ".."}
Longer(T) ==
    T \cup {t \in {Append(u, x) : u \in T, x \in Names \cup {"/", "?"}} :
            /\ t[Len(t) - 1] \in Names => Last(t) \notin Names
            /\ Cardinality({n \in DOMAIN t : t[n] \in Rare}) <= 2}

UpTo3 == Longer(Longer({<<"/">>}))
UpTo5 == Longer(Longer(UpTo3))

MCRequests ==
    {[method |-> "GET", target |-> t, sound |-> TRUE] : t \in UpTo5}
        \cup {[method |-> m, target |-> t, sound |-> TRUE] : m \in {"DELETE", "HEAD"}, t \in UpTo3}
        \cup {[method |-> "GET", target |-> <<"/">>, sound |-> FALSE]}

At(pattern, root) ==
    [pattern |-> pattern, root |-> root, methods |-> {}, redirect |-> <<>>,
     autoindex |-> FALSE, index |-> <<>>, cgi |-> FALSE]

Srv  == <<"/", "srv">>
Site == At(<<"/">>, Srv)
Docs == At(<<"/", "docs">>, Srv \o <<"/", "docs">>)

MCConfigurations ==
    { << >>,
      << [Site EXCEPT !.index = <<"b.html", "a.html">>, !.methods = {"GET"}] >>,
      << [Site EXCEPT !.autoindex = TRUE],
         [Docs EXCEPT !.index = <<"a.html", "b.html">>],
         At(<<"/", "docs", "/", "a.html">>, Srv) >>,
      << [At(<<"/", "b.html">>, Srv \o <<"/", "..", "/", "cgi">>) EXCEPT !.cgi = TRUE],
         [Docs EXCEPT !.redirect = <<301, <<"/", "a.html">>>>, !.methods = {"GET", "DELETE"}],
         Site >>,
      \* a location given twice, as in default3.conf
      << Docs, [Docs EXCEPT !.autoindex = TRUE], [Site EXCEPT !.cgi = TRUE] >>,
      \* returns that are no redirects, and an index that is a directory
      << [Docs EXCEPT !.redirect = <<404, Srv>>],
         [At(<<"/", "notes">>, Srv) EXCEPT !.redirect = <<403, <<"/", "cgi">>>>],
         [Site EXCEPT !.index = <<"42">>] >> }
=============================================================================
