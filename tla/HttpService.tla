--------------------------------- MODULE HttpService ---------------------------------
(***************************************************************************)
(* What the server promises a client that waits for each answer before it *)
(* asks again, whatever the other clients do: a request is answered at     *)
(* most once, with its own answer, in the order of asking and never after  *)
(* the connection ended; and it is answered unless the connection ends.    *)
(***************************************************************************)
EXTENDS Naturals, Sequences

CONSTANT Clients

VARIABLES
    asked,    \* asked[c]: the requests c has sent
    answers,  \* answers[c]: for each response c received, the requests it answers
    ended     \* ended[c]: c has nothing more to expect from its connection

serviceVars == <<asked, answers, ended>>

ServiceInit ==
    /\ asked = [c \in Clients |-> 0]
    /\ answers = [c \in Clients |-> <<>>]
    /\ ended = [c \in Clients |-> FALSE]

Ask(c) ==
    /\ ~ended[c] /\ asked[c] = Len(answers[c])
    /\ asked' = [asked EXCEPT ![c] = @ + 1]
    /\ UNCHANGED <<answers, ended>>

Answer(c) ==
    /\ ~ended[c] /\ Len(answers[c]) < asked[c]
    /\ answers' = [answers EXCEPT ![c] = Append(@, {<<c, Len(@) + 1>>})]
    /\ UNCHANGED <<asked, ended>>

End(c) ==
    /\ ~ended[c]
    /\ ended' = [ended EXCEPT ![c] = TRUE]
    /\ UNCHANGED <<asked, answers>>

ServiceNext == \E c \in Clients : Ask(c) \/ Answer(c) \/ End(c)

\* A client need not ask, but what it has asked is answered or the connection ends.
Settle(c) == Len(answers[c]) < asked[c] /\ (Answer(c) \/ End(c))

ServiceSafety == ServiceInit /\ [][ServiceNext]_serviceVars

Service ==
    /\ ServiceSafety
    /\ \A c \in Clients : WF_serviceVars(Settle(c))
=============================================================================
