----------------------------------- MODULE ExchangeProofs -----------------------------------
(***************************************************************************)
(* What Exchange promises, for any requests, any capacity of the pipes and *)
(* any way in which the stream is split: the requests are taken as they    *)
(* were sent, the limit is kept, bodies come back, and the process and     *)
(* its programs wait or end only for the causes that are named.            *)
(*                                                                         *)
(* What is still to be taken from the stream of bytes is a tail of the     *)
(* requests sent, one after the other (StreamInv), and it begins with a    *)
(* request as long as none was cut wrongly (AlignedInv). What a run was    *)
(* given is in its two pipes, in what it read and in what is left of the   *)
(* write (RunInv); what was answered had been taken before, or is kept     *)
(* back by a request that is too large (AnswersInv).                       *)
(***************************************************************************)
EXTENDS Exchange, SequenceTheorems, WellFoundedInduction, TLAPS

\* What the client has sent and getRequest has not returned.
Stream == buf \o arrived

Size(n)     == sent[n].req.size
SentText(n) == Text(n, sent[n].req)
SentUpTo    == 1..Len(sent)

\* Tokens are those of requests that were sent, in their order.
Genuine(s) ==
    \A i \in DOMAIN s :
       /\ s[i].of \in SentUpTo
       /\ s[i].t = "CL" => sent[s[i].of].req.field
       /\ s[i].t = "num" => s[i].v = Size(s[i].of)

Ordered(s) == \A i, j \in DOMAIN s : i < j => s[i].of <= s[j].of

\* A request line is followed by the rest of its request, and that by the next one.
Whole(s) ==
    \A i \in DOMAIN s : s[i].t = "line" =>
       LET n == s[i].of
           e == i + Len(SentText(n))
       IN  /\ \A j \in DOMAIN SentText(n) :
                 i + j - 1 \in DOMAIN s /\ s[i + j - 1] = SentText(n)[j]
           /\ IF n = Len(sent) THEN e = Len(s) + 1
              ELSE e \in DOMAIN s /\ s[e] = Tok("line", n + 1, 0)

\* No size_t wraps.
Bounded(s) == (MaxReq + 1) * Len(s) <= Len(sent) * (SizeModulus - 1)

Orderly(s) == Genuine(s) /\ Ordered(s) /\ Whole(s) /\ Bounded(s)

StreamInv == Len(sent) <= MaxReq /\ Orderly(Stream)

\* The line of request n has been taken.
LineTaken(n) == \A i \in DOMAIN Stream : Stream[i].of = n => Stream[i].t # "line"

DispatchInv ==
    pc = "dispatch" =>
       /\ taken # <<>> /\ request # <<>>
       /\ request[1].of \in SentUpTo
       /\ request[1].t = "line" =>
             LET n == request[1].of IN
             requestBody(request) = Body(n, Size(n)) /\ child[n].st = "none" /\ LineTaken(n)

-----------------------------------------------------------------------------
Started(n) == child[n].st # "none"
Exited(n)  == child[n].st = "exit"

\* What of the body of run n is still to be written.
Left(n) == IF writing.run = n THEN writing.left ELSE <<>>

\* The write for run n may have been cut short.
Cut(n) == Size(n) > Capacity /\ \E m \in Runs \ {n} : Exited(m)

Given(n) == Len(child[n].read) + Len(stdin[n].data) + Len(Left(n))

NotStarted(n) ==
    /\ child[n].read = <<>> /\ child[n].wrote = 0 /\ cgiBuf[n] = <<>>
    /\ stdin[n].data = <<>> /\ stdout[n].data = <<>> /\ writing.run # n

Input(n) ==
    LET r == Len(child[n].read)
        d == Len(stdin[n].data)
    IN  /\ \A i \in 1..r : child[n].read[i] = Tok("byte", n, i)
        /\ \A i \in 1..d : stdin[n].data[i] = Tok("byte", n, r + i)
        /\ \A i \in 1..Len(Left(n)) : Left(n)[i] = Tok("byte", n, r + d + i)
        /\ Given(n) <= Size(n) /\ (Given(n) = Size(n) \/ Cut(n))
        /\ writing.run = n => stdin[n].open
        /\ d <= Capacity

Out(n) == cgiBuf[n] \o stdout[n].data

Output(n) ==
    stdout[n].open =>
        /\ Len(Out(n)) = child[n].wrote /\ Len(stdout[n].data) <= Capacity
        /\ child[n].prog # "blind" =>
              /\ child[n].wrote <= Len(child[n].read) + 1
              /\ \A i \in 1..Len(Out(n)) :
                    Out(n)[i] = IF i = 1 THEN Banner ELSE Tok("byte", n, i - 1)

Ended(n) ==
    /\ child[n].st = "run" => stdout[n].open
    /\ Exited(n) /\ child[n].prog # "blind" =>
          /\ child[n].wrote = Len(child[n].read) + 1
          /\ stdin[n].data = <<>> /\ ~stdin[n].open

\* Run n, if there is one, has been taken from the stream and given what it reads.
RunOf(n) ==
    IF Started(n)
    THEN /\ n <= Len(sent) /\ sent[n].req.kind = child[n].prog /\ LineTaken(n)
         /\ Input(n) /\ Output(n) /\ Ended(n)
    ELSE NotStarted(n)

RunInv ==
    /\ writing.run = 0 => writing.left = <<>>
    /\ pc # "loop" => writing.run = 0
    /\ \A n \in Runs : RunOf(n)
    /\ up = "SIGPIPE" => Broken

\* Output of run n as it is queued.
Gives(n, output) ==
    /\ Len(output) \in 1..(Size(n) + 1)
    /\ \A i \in 1..Len(output) : output[i] = IF i = 1 THEN Banner ELSE Tok("byte", n, i - 1)
    /\ Len(output) = Size(n) + 1 \/ Cut(n)

Repeats(n) == sent[n].req.kind \in {"echo", "gather"}

Queueable(x) ==
    /\ x.of \in SentUpTo /\ x.code = 200
    /\ Repeats(x.of) => Gives(x.of, x.body)

Sendable(x) ==
    /\ x.of \in SentUpTo
    /\ x.code = 200 /\ Repeats(x.of) => Repeated(x.of, x.body)

BodiesInv ==
    /\ \A i \in DOMAIN queue : Queueable(queue[i])
    /\ \A i \in DOMAIN got : Sendable(got[i])

-----------------------------------------------------------------------------
\* As long as no field was taken for another request's, the stream begins with a request.
AlignedInv ==
    Delimited(Len(taken)) =>
       /\ Len(taken) <= Len(sent)
       /\ IF Len(taken) = Len(sent) THEN Stream = <<>>
          ELSE Stream # <<>> /\ Stream[1].t = "line" /\ Stream[1].of = Len(taken) + 1

TakenInv ==
    \A n \in DOMAIN taken : Delimited(n) =>
       n \in SentUpTo /\ taken[n] = SentText(n) /\ Size(n) <= client_max_body_size

\* Request n, or one before it that was not taken either, is too large.
Blocked(n) == \E m \in 1..n : m > Len(taken) /\ Size(m) > client_max_body_size

\* Request n was taken, or is too large or behind one that is.
Done(n) == Delimited(n) => n <= Len(taken) \/ Blocked(n)

\* Request n is being answered or has been.
Handled(n) ==
    \/ pc = "dispatch" /\ request[1].of = n
    \/ Started(n)
    \/ \E i \in DOMAIN queue : queue[i].of = n
    \/ Answered(n)

Refused(n) == \E i \in DOMAIN got : got[i].of = n /\ got[i].code = 413

InStream(n) == \E i \in DOMAIN Stream : Stream[i].of = n

WaitedFor(n) == \E m \in SentUpTo : n < m /\ sent[m].waited

AnswersInv ==
    /\ \A n \in SentUpTo :
          /\ Handled(n) \/ WaitedFor(n) => Done(n)
          /\ Refused(n) /\ Delimited(n) => Blocked(n)
          /\ InStream(n) /\ Delimited(n) => n > Len(taken)
    /\ up = "getRequest" => ~Delimited(Len(taken) + 1)

StreamKept ==
    /\ FlattenSeq(taken) \in Seq(Token)
    /\ FlattenSeq(taken) \o Stream = FlattenSeq([n \in DOMAIN sent |-> SentText(n)])

IInv  == TypeOK /\ StreamInv /\ DispatchInv /\ RunInv
TInv  == BodiesInv /\ AlignedInv /\ TakenInv /\ AnswersInv /\ StreamKept

-----------------------------------------------------------------------------
\* f is the function by which FlattenSeq is defined, for the first n elements of s.
Flattens(f, s, n) ==
    f = [i \in 1..n |-> IF i = 1 THEN s[i] ELSE f[i - 1] \o s[i]]

\* A set of numbers that is not empty has a least element.
LEMMA Least ==
    ASSUME NEW S, S \subseteq Nat, S # {}
    PROVE  \E n \in S : \A m \in S : n <= m
<1>1. PICK n \in S : \A m \in S : ~(<<m, n>> \in OpToRel(<, Nat))
  BY NatLessThanWellFounded, WFMin
<1>2. \A m \in S : ~(m < n)
  BY <1>1 DEF OpToRel
<1> QED  BY <1>2

LEMMA FlattensAt ==
    ASSUME NEW s, NEW n \in Nat, NEW f, Flattens(f, s, n)
    PROVE  /\ DOMAIN f = 1..n
           /\ \A i \in 1..n : f[i] = IF i = 1 THEN s[i] ELSE f[i - 1] \o s[i]
BY DEF Flattens

LEMMA FlattensOnce ==
    ASSUME NEW s, NEW n \in Nat, NEW f, NEW g, Flattens(f, s, n), Flattens(g, s, n)
    PROVE  f = g
<1> DEFINE Differ == {i \in 1..n : f[i] # g[i]}
<1>1. DOMAIN f = 1..n /\ \A i \in 1..n : f[i] = IF i = 1 THEN s[i] ELSE f[i - 1] \o s[i]
  BY DEF Flattens
<1>2. DOMAIN g = 1..n /\ \A i \in 1..n : g[i] = IF i = 1 THEN s[i] ELSE g[i - 1] \o s[i]
  BY DEF Flattens
<1>3. ASSUME Differ # {} PROVE FALSE
  <2>1. PICK i \in Differ : \A j \in Differ : i <= j
    <3>1. Differ \subseteq Nat  OBVIOUS
    <3> QED  BY <3>1, <1>3, Least
  <2>2. i # 1  BY <1>1, <1>2
  <2>3. i - 1 \in 1..n /\ f[i - 1] = g[i - 1]
    BY <2>1, <2>2
  <2> QED  BY <1>1, <1>2, <2>2, <2>3
<1>4. \A i \in 1..n : f[i] = g[i]  BY <1>3
<1> HIDE DEF Differ
<1>5. f = [i \in 1..n |-> f[i]] /\ g = [i \in 1..n |-> g[i]]
  BY <1>1, <1>2 DEF Flattens
<1> QED  BY <1>4, <1>5

LEMMA FlattensExists ==
    ASSUME NEW s, NEW n \in Nat
    PROVE  \E f : Flattens(f, s, n)
<1> DEFINE None == {m \in Nat : ~ \E f : Flattens(f, s, m)}
<1>1. ASSUME None # {} PROVE FALSE
  <2>1. PICK m \in None : \A k \in None : m <= k
    <3>1. None \subseteq Nat  OBVIOUS
    <3> QED  BY <3>1, <1>1, Least
  <2>2. m # 0
    <3>1. Flattens(<<>>, s, 0)
      <4>1. 1..0 = {}  OBVIOUS
      <4> QED  BY <4>1 DEF Flattens
    <3> QED  BY <3>1
  <2>3. PICK f : Flattens(f, s, m - 1)
    <3>1. m - 1 \in Nat /\ ~(m <= m - 1)  BY <2>2
    <3> QED  BY <2>1, <3>1
  <2> DEFINE g == [i \in 1..m |-> IF i = 1 THEN s[i] ELSE f[i - 1] \o s[i]]
  <2>4. \A i \in 1..(m - 1) : f[i] = g[i]
    <3>1. m - 1 \in Nat  BY <2>2
    <3>2. \A i \in 1..(m - 1) : f[i] = IF i = 1 THEN s[i] ELSE f[i - 1] \o s[i]
      BY <2>3, <3>1, FlattensAt
    <3>3. \A i \in 1..(m - 1) : i \in 1..m  OBVIOUS
    <3> QED  BY <3>2, <3>3
  <2>5. g = [i \in 1..m |-> IF i = 1 THEN s[i] ELSE g[i - 1] \o s[i]]
    <3>1. \A i \in 1..m : i # 1 => i - 1 \in 1..(m - 1)  OBVIOUS
    <3>2. \A i \in 1..m : i # 1 => f[i - 1] = g[i - 1]  BY <2>4, <3>1
    <3> QED  BY <3>2
  <2> QED  BY <2>5 DEF Flattens
<1> QED  BY <1>1

LEMMA FlattenIs ==
    ASSUME NEW s, Len(s) \in Nat, Len(s) # 0, NEW f, Flattens(f, s, Len(s))
    PROVE  FlattenSeq(s) = f[Len(s)]
<1>1. (CHOOSE h : Flattens(h, s, Len(s))) = f
  BY FlattensOnce
<1> QED  BY <1>1 DEF FlattenSeq, Flattens

LEMMA FlattenAppend ==
    ASSUME NEW T, NEW s \in Seq(Seq(T)), NEW x \in Seq(T)
    PROVE  FlattenSeq(Append(s, x)) = FlattenSeq(s) \o x
<1> DEFINE n == Len(s)
           t == Append(s, x)
<1>1. n \in Nat /\ Len(t) = n + 1 /\ t[n + 1] = x /\ \A i \in 1..n : t[i] = s[i]
  OBVIOUS
<1> HIDE DEF n, t
<1>2. PICK f : Flattens(f, t, n + 1)
  <2>1. n + 1 \in Nat  BY <1>1
  <2> QED  BY <2>1, FlattensExists
<1>3. FlattenSeq(t) = f[n + 1]
  BY <1>1, <1>2, FlattenIs
<1>4. \A i \in 1..(n + 1) : f[i] = IF i = 1 THEN t[i] ELSE f[i - 1] \o t[i]
  <2>1. n + 1 \in Nat  BY <1>1
  <2> QED  BY <1>2, <2>1, FlattensAt
<1>7. f[n + 1] = IF n = 0 THEN x ELSE f[n] \o x
  <2>1. n + 1 \in 1..(n + 1) /\ (n + 1 = 1 <=> n = 0) /\ n + 1 - 1 = n  BY <1>1
  <2> QED  BY <1>1, <1>4, <2>1
<1>5. CASE n = 0
  <2>1. s = <<>>  BY <1>5 DEF n
  <2>2. FlattenSeq(s) = <<>>  BY <2>1 DEF FlattenSeq
  <2> QED  BY <1>3, <1>7, <1>5, <2>2 DEF t
<1>6. CASE n # 0
  <2> DEFINE g == [i \in 1..n |-> f[i]]
  <2>1. Flattens(g, s, n)
    <3>1. \A i \in 1..n : f[i] = IF i = 1 THEN s[i] ELSE f[i - 1] \o s[i]
      BY <1>1, <1>4
    <3>2. \A i \in 1..n : i # 1 => f[i - 1] = g[i - 1]
      BY <1>1
    <3>3. g = [i \in 1..n |-> IF i = 1 THEN s[i] ELSE g[i - 1] \o s[i]]
      BY <3>1, <3>2
    <3> QED  BY <3>3 DEF Flattens
  <2>2. FlattenSeq(s) = g[n]
    BY <1>1, <1>6, <2>1, FlattenIs DEF n
  <2>3. g[n] = f[n]  BY <1>1, <1>6
  <2> QED  BY <1>1, <1>3, <1>7, <1>6, <2>2, <2>3 DEF t
<1> QED  BY <1>5, <1>6

-----------------------------------------------------------------------------
(* Sequences that are joined and split. *)

LEMMA Rejoined ==
    ASSUME NEW T, NEW b \in Seq(T), NEW k \in 1..Len(b)
    PROVE  SubSeq(b, 1, k) \o SubSeq(b, k + 1, Len(b)) = b
<1>1. SubSeq(b, 1, k) \o SubSeq(b, k + 1, Len(b)) = SubSeq(b, 1, Len(b))
  BY ConcatAdjacentSubSeq
<1> QED  BY <1>1, SubSeqFull

\* Elements that move from the front of one sequence to the end of another.
LEMMA MoveOver ==
    ASSUME NEW T, NEW a \in Seq(T), NEW b \in Seq(T), NEW k \in 1..Len(b)
    PROVE  (a \o SubSeq(b, 1, k)) \o SubSeq(b, k + 1, Len(b)) = a \o b
<1> DEFINE x == SubSeq(b, 1, k)
           y == SubSeq(b, k + 1, Len(b))
<1>1. x \in Seq(T) /\ y \in Seq(T)
  OBVIOUS
<1>2. SubSeq(b, 1, k) \o SubSeq(b, k + 1, Len(b)) = b
  BY Rejoined
<1>3. x \o y = b
  BY <1>2
<1> HIDE DEF x, y
<1>4. (a \o x) \o y = a \o (x \o y)
  BY <1>1, ConcatAssociative, SMTT(30)
<1> QED  BY <1>3, <1>4 DEF x, y

LEMMA AppendOver ==
    ASSUME NEW T, NEW a \in Seq(T), NEW b \in Seq(T), NEW x \in T
    PROVE  a \o Append(b, x) = Append(a \o b, x)
OBVIOUS

\* What is dropped from the first of two sequences is dropped from both together.
LEMMA DropOver ==
    ASSUME NEW T, NEW a \in Seq(T), NEW b \in Seq(T), NEW k \in 0..Len(a)
    PROVE  SubSeq(a, k + 1, Len(a)) \o b = SubSeq(a \o b, k + 1, Len(a \o b))
<1> DEFINE x == SubSeq(a, k + 1, Len(a))
           y == SubSeq(a \o b, k + 1, Len(a \o b))
<1>1. x \in Seq(T) /\ Len(x) = Len(a) - k /\ \A i \in 1..Len(x) : x[i] = a[k + i]
  OBVIOUS
<1>2. a \o b \in Seq(T) /\ Len(a \o b) = Len(a) + Len(b)
  OBVIOUS
<1>3. y \in Seq(T) /\ Len(y) = Len(a) + Len(b) - k
  BY <1>2
<1>4. \A i \in 1..Len(y) : y[i] = (a \o b)[k + i]
  BY <1>2
<1>5. x \o b \in Seq(T) /\ Len(x \o b) = Len(y)
  BY <1>1, <1>3
<1>6. ASSUME NEW i \in 1..Len(y) PROVE (x \o b)[i] = y[i]
  <2> HIDE DEF x, y
  <2>1. CASE i <= Len(x)
    BY <1>1, <1>3, <1>4, <2>1, SMTT(30)
  <2>2. CASE i > Len(x)
    <3>1. (x \o b)[i] = b[i - Len(x)]
      BY <1>1, <1>3, <1>5, <2>2
    <3>2. (a \o b)[k + i] = b[k + i - Len(a)]
      BY <1>1, <1>3, <2>2
    <3>3. i - Len(x) = k + i - Len(a)
      BY <1>1, <1>3
    <3> QED  BY <1>4, <3>1, <3>2, <3>3
  <2> QED  BY <1>1, <1>3, <2>1, <2>2
<1> HIDE DEF x, y
<1>7. x \o b = y
  BY <1>3, <1>5, <1>6, SeqEqual
<1> QED  BY <1>7 DEF x, y

LEMMA Joined ==
    ASSUME NEW T, NEW a \in Seq(T), NEW b \in Seq(T)
    PROVE  /\ a \o b \in Seq(T) /\ Len(a \o b) = Len(a) + Len(b)
           /\ \A i \in 1..Len(a) : (a \o b)[i] = a[i]
           /\ \A i \in 1..Len(b) : (a \o b)[Len(a) + i] = b[i]
           /\ \A i \in 1..Len(a \o b) : i > Len(a) => (a \o b)[i] = b[i - Len(a)]
<1>1. a \o b \in Seq(T)
  OBVIOUS
<1>2. Len(a \o b) = Len(a) + Len(b)
  OBVIOUS
<1>3. \A i \in 1..Len(a) : (a \o b)[i] = a[i]
  OBVIOUS
<1>4. \A i \in 1..Len(b) : (a \o b)[Len(a) + i] = b[i]
  OBVIOUS
<1>5. \A i \in 1..Len(a \o b) : i > Len(a) => (a \o b)[i] = b[i - Len(a)]
  OBVIOUS
<1> QED  BY <1>1, <1>2, <1>3, <1>4, <1>5

\* A size_t that counts less than is sent does not wrap.
LEMMA NoWrap ==
    ASSUME NEW M \in Nat, NEW m \in 0..M, NEW L \in Nat, NEW z \in Nat, NEW S \in Nat \ {0},
           (M + 1) * L <= m * (S - 1), (M + 1) * z < S
    PROVE  L + z < S
<1>1. m * (S - 1) <= M * (S - 1)
  OBVIOUS
<1>2. (M + 1) * (L + z) <= M * (S - 1) + (S - 1)
  BY <1>1
<1>3. (M + 1) * (L + z) <= (M + 1) * (S - 1)
  BY <1>2
<1>4. ASSUME L + z >= S PROVE FALSE
  <2>1. (M + 1) * (L + z) >= (M + 1) * S
    BY <1>4
  <2> QED  BY <1>3, <2>1
<1> QED  BY <1>4

LEMMA ModSmall ==
    ASSUME NEW S \in Nat \ {0}, NEW x \in Nat, x < S
    PROVE  x % S = x
OBVIOUS

-----------------------------------------------------------------------------
(* Framing: where the header of a request ends and its body begins. *)

LEMMA FindLeast ==
    ASSUME NEW S, S \subseteq Nat \ {0}
    PROVE  /\ S = {} => find(S) = npos
           /\ S # {} => find(S) \in S /\ \A q \in S : find(S) <= q
<1>1. ASSUME S # {} PROVE \E p \in S : \A q \in S : p <= q
  BY <1>1, Least
<1> QED  BY <1>1 DEF find, npos

LEMMA BodyIs ==
    ASSUME NEW n, NEW size \in Nat
    PROVE  /\ Len(Body(n, size)) = size /\ DOMAIN Body(n, size) = 1..size
           /\ \A i \in 1..size : Body(n, size)[i] = Tok("byte", n, i)
           /\ \A T : (\A i \in 1..size : Tok("byte", n, i) \in T) => Body(n, size) \in Seq(T)
BY DEF Body

\* The header of request n.
Header(n, r) ==
    IF r.field
    THEN <<Tok("line", n, 0), Tok("CRLF", n, 0), Tok("CL", n, 0), Tok("num", n, r.size),
           Tok("CRLF", n, 0), Tok("CRLF", n, 0)>>
    ELSE <<Tok("line", n, 0), Tok("CRLF", n, 0), Tok("CRLF", n, 0)>>

LEMMA TextIs ==
    ASSUME NEW n, NEW r, r.size \in Nat, r.field \in BOOLEAN
    PROVE  /\ Text(n, r) = Header(n, r) \o Body(n, r.size)
           /\ Len(Text(n, r)) = (IF r.field THEN 6 ELSE 3) + r.size
           /\ DOMAIN Text(n, r) = 1..Len(Text(n, r))
           /\ \A i \in 1..Len(Header(n, r)) : Text(n, r)[i] = Header(n, r)[i]
           /\ \A i \in 1..r.size : Text(n, r)[Len(Header(n, r)) + i] = Tok("byte", n, i)
           /\ Len(Header(n, r)) = IF r.field THEN 6 ELSE 3
<1> DEFINE All == {Tok("line", n, 0), Tok("CRLF", n, 0), Tok("CL", n, 0), Tok("num", n, r.size)}
                  \cup {Tok("byte", n, i) : i \in 1..r.size}
<1>1. Text(n, r) = Header(n, r) \o Body(n, r.size)
  BY DEF Text, Header
<1> HIDE DEF All
<1>4. /\ Tok("line", n, 0) \in All /\ Tok("CRLF", n, 0) \in All /\ Tok("CL", n, 0) \in All
      /\ Tok("num", n, r.size) \in All
      /\ \A i \in 1..r.size : Tok("byte", n, i) \in All
  BY DEF All
<1>2. Header(n, r) \in Seq(All) /\ Len(Header(n, r)) = IF r.field THEN 6 ELSE 3
  <2>1. CASE r.field
    BY <2>1, <1>4 DEF Header
  <2>2. CASE ~r.field
    BY <2>2, <1>4 DEF Header
  <2> QED  BY <2>1, <2>2
<1>3. Body(n, r.size) \in Seq(All)
  BY <1>4, BodyIs
<1> DEFINE h == Header(n, r)
           b == Body(n, r.size)
<1>10. h \in Seq(All) /\ b \in Seq(All)
  BY <1>2, <1>3
<1>5. Len(b) = r.size /\ \A i \in 1..r.size : b[i] = Tok("byte", n, i)
  BY BodyIs
<1> HIDE DEF h, b
<1>6. /\ h \o b \in Seq(All) /\ Len(h \o b) = Len(h) + Len(b)
      /\ \A i \in 1..Len(h) : (h \o b)[i] = h[i]
      /\ \A i \in 1..Len(b) : (h \o b)[Len(h) + i] = b[i]
  BY <1>10, Joined
<1>7. Text(n, r) = h \o b
  BY <1>1 DEF h, b
<1>8. /\ Len(Text(n, r)) = (IF r.field THEN 6 ELSE 3) + r.size
      /\ DOMAIN Text(n, r) = 1..Len(Text(n, r))
  <2>1. Len(h) = IF r.field THEN 6 ELSE 3
    BY <1>2 DEF h
  <2>2. DOMAIN (h \o b) = 1..Len(h \o b)
    BY <1>6
  <2> QED  BY <1>5, <1>6, <1>7, <2>1, <2>2
<1>9. \A i \in 1..r.size : Text(n, r)[Len(h) + i] = Tok("byte", n, i)
  BY <1>5, <1>6, <1>7
<1> QED  BY <1>1, <1>2, <1>6, <1>7, <1>8, <1>9 DEF h

\* b begins with request n, as far as it goes.
Begins(b, n, r) == \A j \in 1..Len(b) : j <= Len(Text(n, r)) => b[j] = Text(n, r)[j]

\* The search finds the header of the request with which the buffer begins.
LEMMA HeaderFound ==
    ASSUME NEW n, NEW r \in Request, r.size > 0 => r.field,
           NEW T, NEW b \in Seq(T), Begins(b, n, r), headerEnd(b) # npos
    PROVE  /\ r.field => /\ headerEnd(b) = 5 /\ Len(b) >= 6 /\ contentLengthPos(b) = 3
                         /\ lengthEnd(b) = 5 /\ atoi(b) = r.size
           /\ ~r.field => headerEnd(b) = 2 /\ Len(b) >= 3
<1> DEFINE h == Header(n, r)
<1>1. /\ r.size \in Nat /\ r.field \in BOOLEAN
  BY DEF Request
<1>2. \A j \in 1..Len(b) : j <= Len(h) => b[j] = h[j]
  BY <1>1, TextIs DEF Begins
<1>3. Len(b) \in Nat /\ DOMAIN b = 1..Len(b)
  OBVIOUS
<1> DEFINE E == {p \in CrlfAt(b) : p + 1 \in CrlfAt(b)}
<1>4. E \subseteq Nat \ {0} /\ headerEnd(b) = find(E) /\ CrlfAt(b) \subseteq Nat \ {0}
  BY <1>3 DEF CrlfAt, headerEnd
<1>5. headerEnd(b) \in E /\ \A q \in E : headerEnd(b) <= q
  BY <1>4, FindLeast
<1>6. ASSUME r.field
      PROVE  /\ headerEnd(b) = 5 /\ Len(b) >= 6 /\ contentLengthPos(b) = 3
             /\ lengthEnd(b) = 5 /\ atoi(b) = r.size
  <2>1. h = <<Tok("line", n, 0), Tok("CRLF", n, 0), Tok("CL", n, 0), Tok("num", n, r.size),
              Tok("CRLF", n, 0), Tok("CRLF", n, 0)>>
    BY <1>6 DEF Header
  <2>2. /\ Len(h) = 6 /\ h[1].t = "line" /\ h[2].t = "CRLF" /\ h[3].t = "CL" /\ h[4].t = "num"
        /\ h[4].v = r.size /\ h[5].t = "CRLF" /\ h[6].t = "CRLF"
    BY <2>1 DEF Tok
  <2> HIDE DEF h
  <2> DEFINE p == headerEnd(b)
  <2>3. p \in 1..Len(b) /\ p + 1 \in 1..Len(b) /\ b[p].t = "CRLF" /\ b[p + 1].t = "CRLF"
    BY <1>3, <1>5 DEF CrlfAt
  <2> HIDE DEF p
  <2>4. p \notin {1, 2, 3, 4}
    BY <1>2, <2>2, <2>3
  <2>5. Len(b) >= 6
    BY <1>3, <2>3, <2>4
  <2>6. b[1].t = "line" /\ b[2].t = "CRLF" /\ b[3].t = "CL" /\ b[4].t = "num" /\ b[4].v = r.size
        /\ b[5].t = "CRLF" /\ b[6].t = "CRLF"
    BY <1>2, <1>3, <2>2, <2>5
  <2>7. p = 5
    <3>1. 5 \in E
      BY <1>3, <2>5, <2>6 DEF CrlfAt
    <3>2. p <= 5
      BY <1>5, <3>1 DEF p
    <3>3. p \in Nat /\ p >= 5
      BY <1>3, <2>3, <2>4
    <3> QED  BY <3>2, <3>3
  <2> DEFINE C == {q \in DOMAIN b : b[q].t = "CL"}
  <2>8. contentLengthPos(b) = 3
    <3>1. C \subseteq Nat \ {0} /\ 3 \in C /\ 1 \notin C /\ 2 \notin C
      BY <1>3, <2>5, <2>6
    <3> HIDE DEF C
    <3>2. find(C) \in C /\ find(C) <= 3
      BY <3>1, FindLeast
    <3>3. find(C) = 3
      <4>1. find(C) \in Nat \ {0} /\ find(C) # 1 /\ find(C) # 2
        BY <3>1, <3>2
      <4> QED  BY <3>2, <4>1
    <3> QED  BY <3>3 DEF contentLengthPos, C
  <2> DEFINE D == {q \in CrlfAt(b) : q > 3}
  <2>9. lengthEnd(b) = 5
    <3>1. D \subseteq Nat \ {0} /\ 5 \in D /\ 4 \notin D /\ \A q \in D : q > 3
      BY <1>3, <1>4, <2>5, <2>6 DEF CrlfAt
    <3>2. lengthEnd(b) = find(D)
      BY <2>8 DEF lengthEnd
    <3> HIDE DEF D
    <3>3. find(D) \in D /\ find(D) <= 5
      BY <3>1, FindLeast
    <3>4. find(D) \in Nat \ {0} /\ find(D) > 3 /\ find(D) # 4
      BY <3>1, <3>3
    <3> QED  BY <3>2, <3>3, <3>4
  <2>10. atoi(b) = r.size
    BY <1>3, <2>5, <2>6, <2>8 DEF atoi
  <2> QED  BY <2>5, <2>7, <2>8, <2>9, <2>10 DEF p
<1>7. ASSUME ~r.field PROVE headerEnd(b) = 2 /\ Len(b) >= 3
  <2>1. h = <<Tok("line", n, 0), Tok("CRLF", n, 0), Tok("CRLF", n, 0)>>
    BY <1>7 DEF Header
  <2>2. Len(h) = 3 /\ h[1].t = "line" /\ h[2].t = "CRLF" /\ h[3].t = "CRLF"
    BY <2>1 DEF Tok
  <2> HIDE DEF h
  <2> DEFINE p == headerEnd(b)
  <2>3. p \in 1..Len(b) /\ p + 1 \in 1..Len(b) /\ b[p].t = "CRLF" /\ b[p + 1].t = "CRLF"
    BY <1>3, <1>5 DEF CrlfAt
  <2> HIDE DEF p
  <2>4. p # 1
    BY <1>2, <2>2, <2>3
  <2>5. Len(b) >= 3
    BY <1>3, <2>3, <2>4
  <2>6. b[2].t = "CRLF" /\ b[3].t = "CRLF"
    BY <1>2, <1>3, <2>2, <2>5
  <2>7. 2 \in E
    BY <1>3, <2>5, <2>6 DEF CrlfAt
  <2> QED  BY <1>5, <2>3, <2>4, <2>5, <2>7 DEF p
<1> QED  BY <1>6, <1>7

\* What is cut from a request that begins with its line is the body that was sent, even
\* if more was cut off than the request.
LEMMA BodyFound ==
    ASSUME NEW n, NEW r \in Request, r.size > 0 => r.field,
           NEW T, NEW b \in Seq(T), Begins(b, n, r), headerEnd(b) # npos,
           r.field => Len(b) = 6 + r.size
    PROVE  requestBody(b) = Body(n, r.size)
<1> DEFINE h == Header(n, r)
<1>1. r.size \in Nat /\ r.field \in BOOLEAN
  BY DEF Request
<1>2. \A j \in 1..Len(b) : j <= Len(h) => b[j] = h[j]
  BY <1>1, TextIs DEF Begins
<1>3. Len(b) \in Nat /\ DOMAIN b = 1..Len(b)
  OBVIOUS
<1>4. CASE r.field
  <2>1. headerEnd(b) = 5
    BY <1>4, HeaderFound
  <2> DEFINE H == SubSeq(b, 1, 4)
  <2>2. H \in Seq(T) /\ Len(H) = 4 /\ DOMAIN H = 1..4 /\ \A j \in 1..4 : H[j] = b[j]
    BY <1>1, <1>4
  <2>3. headerPart(b) = H
    BY <2>1 DEF headerPart
  <2>4. h = <<Tok("line", n, 0), Tok("CRLF", n, 0), Tok("CL", n, 0), Tok("num", n, r.size),
              Tok("CRLF", n, 0), Tok("CRLF", n, 0)>>
    BY <1>4 DEF Header
  <2>5. Len(h) = 6 /\ h[1].t = "line" /\ h[2].t = "CRLF" /\ h[3].t = "CL" /\ h[4].t = "num"
        /\ h[4].v = r.size
    BY <2>4 DEF Tok
  <2> HIDE DEF h, H
  <2>6. H[1].t = "line" /\ H[2].t = "CRLF" /\ H[3].t = "CL" /\ H[4].t = "num" /\ H[4].v = r.size
    BY <1>1, <1>2, <1>3, <1>4, <2>2, <2>5
  <2> DEFINE C == {q \in DOMAIN H : H[q].t = "CL"}
  <2>7. contentLengthPos(H) = 3
    <3>1. C \subseteq Nat \ {0} /\ 3 \in C /\ 1 \notin C /\ 2 \notin C
      BY <2>2, <2>6
    <3> HIDE DEF C
    <3>2. find(C) \in C /\ find(C) <= 3
      BY <3>1, FindLeast
    <3>3. find(C) = 3
      <4>1. find(C) \in Nat \ {0} /\ find(C) # 1 /\ find(C) # 2
        BY <3>1, <3>2
      <4> QED  BY <3>2, <4>1
    <3> QED  BY <3>3 DEF contentLengthPos, C
  <2>8. contentLength(b) = r.size
    BY <2>2, <2>3, <2>6, <2>7 DEF contentLength, atoi
  <2>9. requestBody(b) = SubSeq(b, 7, Len(b))
    BY <1>1, <1>4, <2>1, <2>8 DEF requestBody, bodyStart
  <2> DEFINE x == SubSeq(b, 7, Len(b))
  <2>10. x \in Seq(T) /\ Len(x) = r.size /\ \A i \in 1..r.size : x[i] = b[6 + i]
    BY <1>1, <1>4
  <2>11. \A i \in 1..r.size : b[6 + i] = Tok("byte", n, i)
    <3>1. Len(Text(n, r)) = 6 + r.size /\ \A i \in 1..r.size : Text(n, r)[6 + i] = Tok("byte", n, i)
      <4>1. Len(Header(n, r)) = 6
        BY <1>1, <1>4, TextIs
      <4>2. /\ Len(Text(n, r)) = 6 + r.size
            /\ \A i \in 1..r.size : Text(n, r)[Len(Header(n, r)) + i] = Tok("byte", n, i)
        BY <1>1, <1>4, TextIs
      <4> QED  BY <4>1, <4>2
    <3> QED  BY <1>1, <1>3, <1>4, <3>1 DEF Begins
  <2>12. x = Body(n, r.size)
    <3>1. x = [i \in 1..r.size |-> x[i]]
      BY <2>10
    <3> HIDE DEF x
    <3> QED  BY <2>10, <2>11, <3>1 DEF Body
  <2> QED  BY <2>9, <2>12
<1>5. CASE ~r.field
  <2>1. headerEnd(b) = 2 /\ Len(b) >= 3
    BY <1>5, HeaderFound
  <2>2. r.size = 0
    BY <1>1, <1>5
  <2> DEFINE H == SubSeq(b, 1, 1)
  <2>3. H \in Seq(T) /\ Len(H) = 1 /\ DOMAIN H = {1} /\ H[1] = b[1]
    BY <1>3, <2>1
  <2>4. b[1].t = "line"
    <3>1. h[1].t = "line" /\ Len(h) = 3
      BY <1>5 DEF Header, Tok
    <3> HIDE DEF h
    <3> QED  BY <1>2, <1>3, <2>1, <3>1
  <2>5. headerPart(b) = H
    BY <2>1 DEF headerPart
  <2> HIDE DEF H
  <2> DEFINE C == {q \in DOMAIN H : H[q].t = "CL"}
  <2>6. C = {}
    BY <2>3, <2>4
  <2>7. contentLengthPos(H) = 0
    BY <2>6, FindLeast DEF contentLengthPos, npos
  <2>8. contentLength(b) = 0
    BY <2>3, <2>4, <2>5, <2>7 DEF contentLength, atoi
  <2>9. requestBody(b) = SubSeq(b, 4, 3)
    BY <1>3, <2>1, <2>8 DEF requestBody, bodyStart
  <2>10. SubSeq(b, 4, 3) = <<>>
    OBVIOUS
  <2>11. Body(n, 0) = <<>>
    BY DEF Body
  <2> QED  BY <2>2, <2>9, <2>10, <2>11
<1> QED  BY <1>1, <1>4, <1>5

LEMMA HeaderThere ==
    ASSUME NEW n, NEW r \in Request, NEW T, NEW b \in Seq(T), Begins(b, n, r),
           Len(b) >= Len(Header(n, r))
    PROVE  headerEnd(b) # npos
<1> DEFINE h == Header(n, r)
           E == {p \in CrlfAt(b) : p + 1 \in CrlfAt(b)}
<1>1. r.size \in Nat /\ r.field \in BOOLEAN
  BY DEF Request
<1>2. \A j \in 1..Len(b) : j <= Len(h) => b[j] = h[j]
  BY <1>1, TextIs, SMTT(30) DEF Begins
<1>3. Len(b) \in Nat /\ DOMAIN b = 1..Len(b)
  OBVIOUS
<1>4. Len(h) = (IF r.field THEN 6 ELSE 3) /\ h[Len(h) - 1].t = "CRLF" /\ h[Len(h)].t = "CRLF"
  BY <1>1 DEF Header, Tok
<1> HIDE DEF h
<1>5. Len(h) \in Nat /\ Len(h) >= 3 /\ Len(b) >= Len(h)
  BY <1>1, <1>4 DEF h
<1>6. b[Len(h) - 1].t = "CRLF" /\ b[Len(h)].t = "CRLF"
  BY <1>2, <1>3, <1>4, <1>5
<1>7. Len(h) - 1 \in E
  BY <1>3, <1>5, <1>6 DEF CrlfAt
<1>8. E \subseteq Nat \ {0}
  BY <1>3 DEF CrlfAt
<1> HIDE DEF E
<1>9. find(E) \in Nat \ {0}
  BY <1>7, <1>8, FindLeast
<1> QED  BY <1>9 DEF headerEnd, npos, E

\* What a token of a request is.
LEMMA TextTokens ==
    ASSUME NEW n, NEW r \in Request, r.size > 0 => r.field
    PROVE  /\ Len(Text(n, r)) \in Nat /\ Len(Text(n, r)) >= 3 /\ Len(Text(n, r)) >= r.size
           /\ DOMAIN Text(n, r) = 1..Len(Text(n, r))
           /\ Text(n, r)[1] = Tok("line", n, 0)
           /\ \A i \in 1..Len(Text(n, r)) :
                 /\ Text(n, r)[i].of = n
                 /\ Text(n, r)[i].t = "CL" => r.field
                 /\ Text(n, r)[i].t = "num" => Text(n, r)[i].v = r.size
                 /\ Text(n, r)[i].t = "line" => i = 1
<1> DEFINE h == Header(n, r)
           x == Text(n, r)
<1>1. r.size \in Nat /\ r.field \in BOOLEAN
  BY DEF Request
<1>2. /\ Len(x) = (IF r.field THEN 6 ELSE 3) + r.size /\ DOMAIN x = 1..Len(x)
      /\ \A i \in 1..Len(h) : x[i] = h[i]
      /\ \A i \in 1..r.size : x[Len(h) + i] = Tok("byte", n, i)
      /\ Len(h) = IF r.field THEN 6 ELSE 3
  BY <1>1, TextIs
<1>3. h[1] = Tok("line", n, 0)
  BY DEF Header
<1>4. \A i \in 1..Len(h) : /\ h[i].of = n
                           /\ h[i].t = "CL" => r.field
                           /\ h[i].t = "num" => h[i].v = r.size
                           /\ h[i].t = "line" => i = 1
  <2>1. CASE r.field
    <3>1. h = <<Tok("line", n, 0), Tok("CRLF", n, 0), Tok("CL", n, 0), Tok("num", n, r.size),
                Tok("CRLF", n, 0), Tok("CRLF", n, 0)>> /\ Len(h) = 6
      BY <2>1 DEF Header
    <3> HIDE DEF h
    <3>2. \A i \in 1..6 : i = 1 \/ i = 2 \/ i = 3 \/ i = 4 \/ i = 5 \/ i = 6
      OBVIOUS
    <3> QED  BY <2>1, <3>1, <3>2 DEF Tok
  <2>2. CASE ~r.field
    <3>1. h = <<Tok("line", n, 0), Tok("CRLF", n, 0), Tok("CRLF", n, 0)>> /\ Len(h) = 3
      BY <2>2 DEF Header
    <3> HIDE DEF h
    <3>2. \A i \in 1..3 : i = 1 \/ i = 2 \/ i = 3
      OBVIOUS
    <3> QED  BY <3>1, <3>2 DEF Tok
  <2> QED  BY <1>1, <2>1, <2>2
<1> HIDE DEF h, x
<1>5. Len(h) \in Nat /\ Len(h) >= 3 /\ Len(x) = Len(h) + r.size
  BY <1>1, <1>2
<1>6. ASSUME NEW i \in 1..Len(x)
      PROVE  /\ x[i].of = n /\ (x[i].t = "CL" => r.field)
             /\ (x[i].t = "num" => x[i].v = r.size) /\ (x[i].t = "line" => i = 1)
  <2>1. CASE i <= Len(h)
    BY <1>2, <1>4, <1>5, <2>1
  <2>2. CASE i > Len(h)
    <3>1. i - Len(h) \in 1..r.size /\ Len(h) + (i - Len(h)) = i
      BY <1>1, <1>5, <2>2
    <3>2. x[i] = Tok("byte", n, i - Len(h))
      BY <1>2, <3>1
    <3> QED  BY <3>2 DEF Tok
  <2> QED  BY <1>5, <2>1, <2>2
<1>7. x[1] = Tok("line", n, 0)
  BY <1>2, <1>3, <1>5
<1> QED  BY <1>1, <1>2, <1>5, <1>6, <1>7 DEF x

-----------------------------------------------------------------------------
(* The stream. *)

LEMMA TypesOf ==
    ASSUME TypeOK
    PROVE  /\ buf \in Seq(Token) /\ arrived \in Seq(Token) /\ Stream \in Seq(Token)
           /\ Len(sent) \in Nat /\ Len(taken) \in Nat
           /\ \A n \in SentUpTo : /\ sent[n].req \in Requests /\ sent[n].req \in Request
                                  /\ Size(n) \in Nat /\ sent[n].req.field \in BOOLEAN
                                  /\ Size(n) > 0 => sent[n].req.field
<1> DEFINE S == [req: Requests, waited: BOOLEAN]
<1>1. \A n \in SentUpTo : sent[n] \in S
  <2>1. sent \in Seq(S)
    BY DEF TypeOK
  <2> HIDE DEF S
  <2> QED  BY <2>1 DEF SentUpTo
<1>2. \A n \in SentUpTo : sent[n].req \in Requests
  BY <1>1
<1>3. \A r \in Requests : r \in Request /\ r.size \in Nat /\ r.field \in BOOLEAN
                          /\ (r.size > 0 => r.field)
  BY ExchangeAssumption DEF Request
<1> QED  BY <1>2, <1>3 DEF TypeOK, Stream, Size

LEMMA RunsAre ==
    ASSUME TypeOK, StreamInv
    PROVE  SentUpTo \subseteq Runs /\ Len(sent) \in Nat /\ MaxReq \in Nat /\ Runs = 1..MaxReq
BY ExchangeAssumption DEF TypeOK, StreamInv, SentUpTo

\* The line of a request is in the stream at most once.
LEMMA OneLine ==
    ASSUME TypeOK, NEW s \in Seq(Token), Orderly(s),
           NEW i \in DOMAIN s, NEW j \in DOMAIN s, i < j, s[i].t = "line", s[j].t = "line"
    PROVE  s[i].of # s[j].of
<1> DEFINE n == s[i].of
           x == SentText(n)
           e == i + Len(x)
<1>1. n \in SentUpTo /\ sent[n].req \in Request /\ (Size(n) > 0 => sent[n].req.field)
  BY TypesOf DEF Orderly, Genuine
<1>2. /\ Len(x) \in Nat /\ DOMAIN x = 1..Len(x)
      /\ \A k \in 1..Len(x) : x[k].t = "line" => k = 1
  BY <1>1, TextTokens DEF SentText, Size
<1>3. /\ \A k \in DOMAIN x : i + k - 1 \in DOMAIN s /\ s[i + k - 1] = x[k]
      /\ IF n = Len(sent) THEN e = Len(s) + 1
         ELSE e \in DOMAIN s /\ s[e] = Tok("line", n + 1, 0)
  BY DEF Orderly, Whole
<1>4. \A k, l \in DOMAIN s : k < l => s[k].of <= s[l].of
  BY DEF Orderly, Ordered
<1>5. i \in Nat /\ j \in Nat /\ j <= Len(s) /\ n \in Nat
  BY <1>1 DEF SentUpTo
<1> HIDE DEF n, x
<1>6. CASE j < e
  <2>1. j - i + 1 \in 1..Len(x) /\ j - i + 1 # 1 /\ i + (j - i + 1) - 1 = j
    BY <1>2, <1>5, <1>6
  <2>2. s[j] = x[j - i + 1]
    BY <1>2, <1>3, <2>1
  <2> QED  BY <1>2, <2>1, <2>2
<1>7. CASE j >= e
  <2>1. n # Len(sent)
    BY <1>2, <1>3, <1>5, <1>7
  <2>2. e \in DOMAIN s /\ s[e].of = n + 1
    BY <1>3, <2>1 DEF Tok
  <2>3. CASE j = e
    BY <1>5, <2>2, <2>3 DEF n
  <2>4. CASE j # e
    <3>1. s[e].of <= s[j].of
      BY <1>2, <1>4, <1>5, <1>7, <2>2, <2>4
    <3>2. s[j].of \in Nat
      <4>1. s[j] \in Token
        OBVIOUS
      <4> QED  BY <4>1 DEF Token
    <3> QED  BY <1>5, <2>2, <3>1, <3>2 DEF n
  <2> QED  BY <2>3, <2>4
<1> QED  BY <1>2, <1>5, <1>6, <1>7

\* A tail of a stream is one.
LEMMA TailOrderly ==
    ASSUME TypeOK, NEW s \in Seq(Token), Orderly(s), NEW k \in Nat, NEW t \in Seq(Token),
           k + Len(t) = Len(s), \A i \in 1..Len(t) : t[i] = s[k + i]
    PROVE  Orderly(t)
<1>1. /\ DOMAIN t = 1..Len(t) /\ \A i \in 1..Len(t) : t[i] = s[k + i]
  OBVIOUS
<1>2. Len(s) \in Nat /\ Len(t) \in Nat /\ DOMAIN s = 1..Len(s) /\ k + Len(t) = Len(s)
  OBVIOUS
<1>3. \A i \in 1..Len(t) : k + i \in DOMAIN s
  BY <1>2
<1>4. Genuine(t)
  BY <1>1, <1>3 DEF Orderly, Genuine
<1>5. Ordered(t)
  <2> SUFFICES ASSUME NEW i \in DOMAIN t, NEW j \in DOMAIN t, i < j
               PROVE  t[i].of <= t[j].of
    BY DEF Ordered
  <2>1. k + i < k + j
    BY <1>1, <1>2
  <2> QED  BY <1>1, <1>3, <2>1 DEF Orderly, Ordered
<1>6. Whole(t)
  <2> SUFFICES ASSUME NEW i \in DOMAIN t, t[i].t = "line"
               PROVE  LET n == t[i].of
                          e == i + Len(SentText(n))
                      IN  /\ \A j \in DOMAIN SentText(n) :
                                i + j - 1 \in DOMAIN t /\ t[i + j - 1] = SentText(n)[j]
                          /\ IF n = Len(sent) THEN e = Len(t) + 1
                             ELSE e \in DOMAIN t /\ t[e] = Tok("line", n + 1, 0)
    BY DEF Whole
  <2> DEFINE n == t[i].of
             x == SentText(n)
  <2>1. s[k + i] = t[i] /\ k + i \in DOMAIN s /\ i \in Nat \ {0}
    BY <1>1, <1>3
  <2>2. Len(x) \in Nat /\ DOMAIN x = 1..Len(x)
    <3>1. n \in SentUpTo
      BY <1>4 DEF Genuine
    <3> QED  BY <3>1, TypesOf, TextTokens DEF SentText, Size
  <2>3. /\ \A j \in DOMAIN x : (k + i) + j - 1 \in DOMAIN s /\ s[(k + i) + j - 1] = x[j]
        /\ IF n = Len(sent) THEN (k + i) + Len(x) = Len(s) + 1
           ELSE (k + i) + Len(x) \in DOMAIN s /\ s[(k + i) + Len(x)] = Tok("line", n + 1, 0)
    BY <2>1, SMTT(30) DEF Orderly, Whole
  <2> HIDE DEF n, x
  <2>4. \A j \in Nat : i + j \in Nat \ {0} /\ k + i + j \in DOMAIN s
                       => i + j \in DOMAIN t /\ t[i + j] = s[k + i + j]
    BY <1>1, <1>2, <2>1
  <2>5. ASSUME NEW j \in DOMAIN x
        PROVE  i + j - 1 \in DOMAIN t /\ t[i + j - 1] = x[j]
    <3>1. j - 1 \in Nat /\ i + (j - 1) \in Nat \ {0} /\ i + (j - 1) = i + j - 1
          /\ k + i + (j - 1) = (k + i) + j - 1
      BY <1>2, <2>1, <2>2
    <3> QED  BY <2>3, <2>4, <3>1
  <2>6. n = Len(sent) => i + Len(x) = Len(t) + 1
    <3>1. n = Len(sent) => (k + i) + Len(x) = Len(s) + 1
      BY <2>3
    <3> QED  BY <1>2, <2>1, <2>2, <3>1, SMTT(30)
  <2>7. n # Len(sent) => i + Len(x) \in DOMAIN t /\ t[i + Len(x)] = Tok("line", n + 1, 0)
    <3>1. n # Len(sent) =>
             (k + i) + Len(x) \in DOMAIN s /\ s[(k + i) + Len(x)] = Tok("line", n + 1, 0)
      BY <2>3
    <3>2. i + Len(x) \in Nat \ {0} /\ Len(x) \in Nat
      BY <2>1, <2>2
    <3> QED  BY <2>4, <3>1, <3>2
  <2> QED  BY <2>5, <2>6, <2>7 DEF n, x
<1>7. Bounded(t)
  <2>1. MaxReq \in Nat /\ SizeModulus \in Nat \ {0}
    BY ExchangeAssumption, SizeAssumption
  <2>2. (MaxReq + 1) * Len(t) <= (MaxReq + 1) * Len(s)
    BY <1>1, <1>2, <2>1
  <2>3. (MaxReq + 1) * Len(s) <= Len(sent) * (SizeModulus - 1)
    BY DEF Orderly, Bounded
  <2> QED  BY <1>1, <1>2, <2>1, <2>2, <2>3, TypesOf DEF Bounded
<1> QED  BY <1>1, <1>3, <1>4, <1>5, <1>6, <1>7 DEF Orderly

\* t is s and then x.
Extends(s, x, t) ==
    /\ Len(t) = Len(s) + Len(x)
    /\ \A i \in 1..Len(s) : t[i] = s[i]
    /\ \A i \in 1..Len(x) : t[Len(s) + i] = x[i]

\* With the next request at its end it is one, too.
LEMMA GrownOrderly ==
    ASSUME TypeOK, Len(sent) < MaxReq, NEW r \in Requests, NEW w \in BOOLEAN,
           sent' = Append(sent, [req |-> r, waited |-> w]),
           NEW s \in Seq(Token), Orderly(s), NEW t \in Seq(Token),
           NEW x, x = Text(Len(sent) + 1, r), Extends(s, x, t)
    PROVE  Orderly(t)'
<1> USE DEF Extends
<1> DEFINE N == Len(sent) + 1
<1>1. r \in Request /\ r.size \in Nat /\ (r.size > 0 => r.field)
  BY ExchangeAssumption DEF Request
<1>2. /\ Len(x) \in Nat /\ Len(x) >= 3 /\ DOMAIN x = 1..Len(x) /\ x[1] = Tok("line", N, 0)
      /\ \A i \in 1..Len(x) : /\ x[i].of = N
                              /\ x[i].t = "CL" => r.field
                              /\ x[i].t = "num" => x[i].v = r.size
                              /\ x[i].t = "line" => i = 1
  BY <1>1, TextTokens
<1>3. /\ Len(sent) \in Nat /\ Len(sent') = N /\ SentUpTo' = 1..N /\ SentUpTo = 1..Len(sent)
      /\ sent'[N].req = r /\ \A n \in SentUpTo : n \in SentUpTo' /\ sent'[n] = sent[n]
  BY TypesOf DEF TypeOK, SentUpTo
<1>4. Len(s) \in Nat /\ Len(t) = Len(s) + Len(x) /\ DOMAIN s = 1..Len(s) /\ DOMAIN t = 1..Len(t)
  OBVIOUS
<1> HIDE DEF N
<1>5. N \in Nat /\ N = Len(sent) + 1
  BY <1>3 DEF N
<1>6. \A i \in DOMAIN t : \/ i \in DOMAIN s /\ t[i] = s[i]
                          \/ i > Len(s) /\ i - Len(s) \in 1..Len(x) /\ t[i] = x[i - Len(s)]
  <2> TAKE i \in DOMAIN t
  <2>1. CASE i <= Len(s)
    BY <1>4, <2>1
  <2>2. CASE i > Len(s)
    <3>1. i - Len(s) \in 1..Len(x) /\ Len(s) + (i - Len(s)) = i
      BY <1>2, <1>4, <2>2
    <3>2. t[Len(s) + (i - Len(s))] = x[i - Len(s)]
      BY <3>1
    <3> QED  BY <2>2, <3>1, <3>2
  <2> QED  BY <1>4, <2>1, <2>2
<1>7. Genuine(t)'
  <2>1. \A i \in DOMAIN s : /\ s[i].of \in SentUpTo
                            /\ s[i].t = "CL" => sent[s[i].of].req.field
                            /\ s[i].t = "num" => s[i].v = Size(s[i].of)
    BY DEF Orderly, Genuine
  <2>2. ASSUME NEW i \in DOMAIN t
        PROVE  /\ t[i].of \in SentUpTo'
               /\ t[i].t = "CL" => sent'[t[i].of].req.field
               /\ t[i].t = "num" => t[i].v = sent'[t[i].of].req.size
    <3>1. CASE i \in DOMAIN s /\ t[i] = s[i]
      BY <1>3, <2>1, <3>1 DEF Size
    <3>2. CASE i > Len(s) /\ i - Len(s) \in 1..Len(x) /\ t[i] = x[i - Len(s)]
      <4>1. N \in SentUpTo'
        BY <1>3, <1>5
      <4> QED  BY <1>2, <1>3, <3>2, <4>1, SMTT(30)
    <3> QED  BY <1>6, <3>1, <3>2
  <2> QED  BY <2>2 DEF Genuine, Size
<1>8. Ordered(t)'
  <2>1. \A i, j \in DOMAIN s : i < j => s[i].of <= s[j].of
    BY DEF Orderly, Ordered
  <2>2. \A i \in DOMAIN s : s[i].of \in SentUpTo /\ s[i].of <= N
    BY <1>3, <1>5 DEF Orderly, Genuine
  <2>3. ASSUME NEW i \in DOMAIN t, NEW j \in DOMAIN t, i < j
        PROVE  t[i].of <= t[j].of
    <3>1. CASE j \in DOMAIN s
      <4>1. i \in DOMAIN s
        BY <1>4, <2>3, <3>1
      <4> QED  BY <1>4, <2>1, <2>3, <3>1, <4>1
    <3>2. CASE j \notin DOMAIN s
      <4>1. t[j].of = N
        <5>1. j - Len(s) \in 1..Len(x) /\ t[j] = x[j - Len(s)]
          BY <1>6, <3>2
        <5> QED  BY <1>2, <5>1, SMTT(30)
      <4>2. t[i].of <= N
        <5>1. CASE i \in DOMAIN s /\ t[i] = s[i]
          BY <2>2, <5>1
        <5>2. CASE i - Len(s) \in 1..Len(x) /\ t[i] = x[i - Len(s)]
          BY <1>2, <1>5, <5>2, SMTT(30)
        <5> QED  BY <1>6, <5>1, <5>2
      <4> QED  BY <4>1, <4>2
    <3> QED  BY <3>1, <3>2
  <2> QED  BY <2>3 DEF Ordered
<1>9. Whole(t)'
  <2> DEFINE Followed(i, n, y) ==
               /\ \A j \in DOMAIN y : i + j - 1 \in DOMAIN t /\ t[i + j - 1] = y[j]
               /\ IF n = Len(sent') THEN i + Len(y) = Len(t) + 1
                  ELSE i + Len(y) \in DOMAIN t /\ t[i + Len(y)] = Tok("line", n + 1, 0)
  <2>1. ASSUME NEW i \in DOMAIN t, t[i].t = "line", NEW n, n = t[i].of,
               NEW y, y = Text(n, sent'[n].req)
        PROVE  Followed(i, n, y)
    <3>1. CASE i \in DOMAIN s /\ t[i] = s[i]
      <4>1. n \in SentUpTo /\ sent'[n] = sent[n]
        BY <1>3, <2>1, <3>1 DEF Orderly, Genuine
      <4>2. y = SentText(n)
        BY <2>1, <4>1 DEF SentText
      <4>3. /\ \A j \in DOMAIN y : i + j - 1 \in DOMAIN s /\ s[i + j - 1] = y[j]
            /\ IF n = Len(sent) THEN i + Len(y) = Len(s) + 1
               ELSE i + Len(y) \in DOMAIN s /\ s[i + Len(y)] = Tok("line", n + 1, 0)
        <5>1. s[i].t = "line" /\ s[i].of = n
          BY <2>1, <3>1
        <5>2. Whole(s)
          BY DEF Orderly
        <5> QED  BY <3>1, <4>2, <5>1, <5>2 DEF Whole
      <4>4. \A j \in DOMAIN s : j \in DOMAIN t /\ t[j] = s[j]
        BY <1>2, <1>4
      <4>5. n # Len(sent')
        BY <1>3, <1>5, <4>1
      <4>6. Len(s) + 1 \in DOMAIN t /\ t[Len(s) + 1] = Tok("line", N, 0)
        BY <1>2, <1>4
      <4> QED  BY <1>5, <4>3, <4>4, <4>5, <4>6
    <3>2. CASE i > Len(s) /\ i - Len(s) \in 1..Len(x) /\ t[i] = x[i - Len(s)]
      <4>1. i = Len(s) + 1 /\ n = N
        <5>1. x[i - Len(s)].t = "line" /\ x[i - Len(s)].of = n
          BY <2>1, <3>2
        <5>2. i - Len(s) = 1 /\ n = N
          BY <1>2, <3>2, <5>1
        <5>3. i \in Nat
          BY <1>4
        <5> QED  BY <1>4, <5>2, <5>3
      <4>2. y = x
        BY <1>3, <1>5, <2>1, <4>1
      <4>3. \A j \in 1..Len(x) : i + j - 1 = Len(s) + j /\ Len(s) + j \in DOMAIN t
        BY <1>2, <1>4, <4>1
      <4>4. i + Len(x) = Len(t) + 1
        BY <1>2, <1>4, <4>1
      <4> QED  BY <1>2, <1>3, <4>1, <4>2, <4>3, <4>4
    <3> QED  BY <1>6, <3>1, <3>2
  <2>2. \A i \in DOMAIN t : t[i].t = "line" =>
           Followed(i, t[i].of, Text(t[i].of, sent'[t[i].of].req))
    <3> HIDE DEF Followed
    <3> QED  BY <2>1
  <2> QED  BY <2>2 DEF Whole, SentText
<1>10. Bounded(t)'
  <2>1. MaxReq \in Nat /\ SizeModulus \in Nat \ {0} /\ N \in Runs
    BY ExchangeAssumption, SizeAssumption, <1>3, <1>5
  <2>2. (MaxReq + 1) * Len(x) < SizeModulus
    BY <2>1, StreamAssumption DEF N
  <2>3. (MaxReq + 1) * Len(s) <= Len(sent) * (SizeModulus - 1)
    BY DEF Orderly, Bounded
  <2>4. (MaxReq + 1) * Len(t) = (MaxReq + 1) * Len(s) + (MaxReq + 1) * Len(x)
    BY <1>2, <1>4, <2>1
  <2>5. (Len(sent) + 1) * (SizeModulus - 1) = Len(sent) * (SizeModulus - 1) + (SizeModulus - 1)
    BY <1>3, <2>1
  <2>6. (MaxReq + 1) * Len(t) <= N * (SizeModulus - 1)
    <3> DEFINE A == (MaxReq + 1) * Len(s)
               B == (MaxReq + 1) * Len(x)
               C == Len(sent) * (SizeModulus - 1)
    <3>1. A \in Nat /\ B \in Nat /\ C \in Nat
      BY <1>2, <1>3, <1>4, <2>1
    <3>2. A <= C /\ B < SizeModulus
      BY <2>2, <2>3
    <3>3. (MaxReq + 1) * Len(t) = A + B
      BY <2>4
    <3>4. N * (SizeModulus - 1) = C + (SizeModulus - 1)
      BY <1>5, <2>5
    <3> HIDE DEF A, B, C
    <3>5. A + B <= C + (SizeModulus - 1)
      BY <2>1, <3>1, <3>2
    <3> QED  BY <3>3, <3>4, <3>5
  <2> QED  BY <1>3, <2>6 DEF Bounded
<1> QED  BY <1>7, <1>8, <1>9, <1>10 DEF Orderly

\* Nothing is sent and nothing taken.
LEMMA StreamStays ==
    ASSUME StreamInv, sent' = sent, buf' \o arrived' = buf \o arrived
    PROVE  StreamInv' /\ \A n : LineTaken(n) => LineTaken(n)'
<1>1. Stream' = Stream
  BY DEF Stream
<1>2. Orderly(Stream)'
  BY <1>1 DEF StreamInv, Orderly, Genuine, Ordered, Whole, Bounded, SentUpTo, SentText, Size
<1> QED  BY <1>1, <1>2 DEF StreamInv, LineTaken

\* Some of what is in the stream is taken.
LEMMA StreamAdvances ==
    ASSUME TypeOK, StreamInv, sent' = sent, NEW k \in Nat, NEW t \in Seq(Token), Stream' = t,
           k + Len(t) = Len(Stream), \A i \in 1..Len(t) : t[i] = Stream[k + i]
    PROVE  StreamInv' /\ \A n : LineTaken(n) => LineTaken(n)'
<1>1. Stream \in Seq(Token)
  BY TypesOf
<1>2. Orderly(t)
  BY <1>1, TailOrderly DEF StreamInv
<1>3. Orderly(Stream)'
  BY <1>2 DEF Orderly, Genuine, Ordered, Whole, Bounded, SentUpTo, SentText, Size
<1>4. StreamInv'
  BY <1>3 DEF StreamInv
<1>5. \A i \in DOMAIN t : t[i] = Stream[k + i] /\ k + i \in DOMAIN Stream
  BY <1>1
<1>6. ASSUME NEW n, LineTaken(n) PROVE LineTaken(n)'
  BY <1>5, <1>6 DEF LineTaken
<1> QED  BY <1>4, <1>6

LEMMA SendStream ==
    ASSUME TypeOK, StreamInv, NEW r \in Requests, Send(r)
    PROVE  /\ StreamInv' /\ arrived' \in Seq(Token)
           /\ sent' \in Seq([req: Requests, waited: BOOLEAN]) /\ Len(sent') = Len(sent) + 1
           /\ \A n \in SentUpTo : /\ n \in SentUpTo' /\ sent'[n] = sent[n]
                                  /\ LineTaken(n) => LineTaken(n)'
           /\ Stream' = Stream \o Text(Len(sent) + 1, r)
<1>1. Len(sent) \in Nat /\ Len(sent) < MaxReq /\ Len(sent) + 1 \in Runs
  BY TypesOf, ExchangeAssumption DEF Send
<1>2. PICK x : x = Text(Len(sent) + 1, r)
  OBVIOUS
<1>3. x \in Seq(Token)
  <2>1. x \in Seq(Bytes)
    BY <1>1, <1>2, StreamAssumption
  <2> QED  BY <2>1, StreamAssumption
<1>4. PICK s : s = Stream
  OBVIOUS
<1>5. PICK t : t = s \o x
  OBVIOUS
<1>6. arrived' = arrived \o x /\ buf' = buf
  BY <1>2 DEF Send
<1>7. Stream' = t
  <2>1. Stream' = buf \o (arrived \o x)
    BY <1>6 DEF Stream
  <2>2. buf \o (arrived \o x) = (buf \o arrived) \o x
    BY <1>3, TypesOf, ConcatAssociative, SMTT(30)
  <2> QED  BY <1>4, <1>5, <2>1, <2>2 DEF Stream
<1>8. s \in Seq(Token) /\ t \in Seq(Token) /\ Len(t) = Len(s) + Len(x)
      /\ (\A i \in 1..Len(s) : t[i] = s[i])
      /\ (\A i \in 1..Len(x) : t[Len(s) + i] = x[i])
      /\ (\A i \in 1..Len(t) : i > Len(s) => t[i] = x[i - Len(s)])
  BY <1>3, <1>4, <1>5, TypesOf, Joined
<1>9. PICK w \in BOOLEAN : sent' = Append(sent, [req |-> r, waited |-> w])
  <2>1. Waited \in BOOLEAN
    BY DEF Waited
  <2> QED  BY <2>1 DEF Send
<1>10. Orderly(t)'
  <2>1. Orderly(s)
    BY <1>4 DEF StreamInv
  <2>2. Extends(s, x, t)
    BY <1>8 DEF Extends
  <2> QED  BY <1>1, <1>2, <1>8, <1>9, <2>1, <2>2, GrownOrderly
<1>11. Orderly(Stream)'
  BY <1>7, <1>10 DEF Orderly, Genuine, Ordered, Whole, Bounded, SentUpTo, SentText, Size
<1>12. sent' \in Seq([req: Requests, waited: BOOLEAN]) /\ Len(sent') = Len(sent) + 1
      /\ \A n \in SentUpTo : n \in SentUpTo' /\ sent'[n] = sent[n]
  <2> DEFINE S == [req: Requests, waited: BOOLEAN]
             q == [req |-> r, waited |-> w]
  <2>1. sent \in Seq(S) /\ q \in S
    BY DEF TypeOK
  <2>2. sent' = Append(sent, q)
    BY <1>9
  <2> HIDE DEF S, q
  <2>3. sent' \in Seq(S) /\ Len(sent') = Len(sent) + 1
        /\ \A n \in SentUpTo : n \in SentUpTo' /\ sent'[n] = sent[n]
    BY <2>1, <2>2 DEF SentUpTo
  <2> QED  BY <2>3 DEF S
<1>13. StreamInv'
  BY <1>1, <1>11, <1>12, ExchangeAssumption DEF StreamInv
<1>14. \A i \in DOMAIN t : (i \in DOMAIN s /\ t[i] = s[i]) \/ t[i].of = Len(sent) + 1
  <2>1. r \in Request /\ (r.size > 0 => r.field)
    BY ExchangeAssumption
  <2>2. Len(x) \in Nat /\ \A i \in 1..Len(x) : x[i].of = Len(sent) + 1
    BY <1>2, <2>1, TextTokens
  <2> TAKE i \in DOMAIN t
  <2>3. CASE i <= Len(s)
    BY <1>8, <2>3
  <2>4. CASE i > Len(s)
    <3>1. i - Len(s) \in 1..Len(x)
      BY <1>8, <2>2, <2>4
    <3> QED  BY <1>8, <2>2, <2>4, <3>1
  <2> QED  BY <1>8, <2>3, <2>4
<1>15. ASSUME NEW n \in SentUpTo, LineTaken(n) PROVE LineTaken(n)'
  <2>1. n # Len(sent) + 1
    BY <1>1 DEF SentUpTo
  <2>2. \A i \in DOMAIN s : s[i].of = n => s[i].t # "line"
    BY <1>4, <1>15 DEF LineTaken
  <2>3. \A i \in DOMAIN t : t[i].of = n => t[i].t # "line"
    BY <1>14, <2>1, <2>2
  <2> QED  BY <1>7, <2>3 DEF LineTaken
<1>16. arrived' \in Seq(Token)
  BY <1>3, <1>6, TypesOf
<1> QED  BY <1>2, <1>4, <1>5, <1>7, <1>12, <1>13, <1>15, <1>16

\* The buffer is the front of the stream.
LEMMA BufferIsFront ==
    ASSUME TypeOK
    PROVE  /\ Len(buf) \in Nat /\ Len(buf) <= Len(Stream) /\ DOMAIN buf = 1..Len(buf)
           /\ \A i \in 1..Len(buf) : i \in DOMAIN Stream /\ Stream[i] = buf[i]
BY TypesOf, Joined DEF Stream

\* If the buffer begins with the line of a request, it begins with the request.
LEMMA BufferBegins ==
    ASSUME TypeOK, StreamInv, buf # <<>>, buf[1].t = "line"
    PROVE  Begins(buf, buf[1].of, sent[buf[1].of].req) /\ buf[1].of \in SentUpTo
<1> DEFINE n == buf[1].of
           x == SentText(n)
<1>1. 1 \in DOMAIN Stream /\ Stream[1] = buf[1]
  BY BufferIsFront
<1>2. n \in SentUpTo
  BY <1>1 DEF StreamInv, Orderly, Genuine
<1>3. DOMAIN x = 1..Len(x) /\ Len(x) \in Nat
  BY <1>2, TypesOf, TextTokens DEF SentText, Size
<1>4. \A j \in DOMAIN x : 1 + j - 1 \in DOMAIN Stream /\ Stream[1 + j - 1] = x[j]
  BY <1>1 DEF StreamInv, Orderly, Whole
<1> HIDE DEF n, x
<1>5. \A j \in 1..Len(buf) : j <= Len(x) => buf[j] = x[j]
  <2>1. \A j \in Nat : 1 + j - 1 = j
    OBVIOUS
  <2>2. \A j \in DOMAIN x : Stream[j] = x[j]
    BY <1>3, <1>4, <2>1
  <2> QED  BY <1>3, <2>2, BufferIsFront
<1> QED  BY <1>2, <1>5 DEF Begins, n, x, SentText

\* What getRequest takes is in the buffer: no size_t wraps.
LEMMA TakeBounds ==
    ASSUME TypeOK, StreamInv, hasRequest(buf), ~getRequestThrows(buf)
    PROVE  /\ headerEnd(buf) \in Nat \ {0} /\ bodyStart(buf) <= Len(buf)
           /\ atoi(buf) \in Nat
           /\ totalRequestSize(buf) \in 2..Len(buf)
           /\ contentLengthPos(buf) # npos => totalRequestSize(buf) = bodyStart(buf) + atoi(buf)
<1>1. Len(buf) \in Nat /\ DOMAIN buf = 1..Len(buf)
  BY BufferIsFront
<1> DEFINE E == {p \in CrlfAt(buf) : p + 1 \in CrlfAt(buf)}
<1>2. headerEnd(buf) \in Nat \ {0} /\ bodyStart(buf) \in 2..Len(buf)
  <2>1. E \subseteq Nat \ {0} /\ \A p \in E : p + 1 \in 1..Len(buf)
    BY <1>1 DEF CrlfAt
  <2>2. headerEnd(buf) = find(E) /\ headerEnd(buf) # npos
    BY DEF headerEnd, hasRequest
  <2> HIDE DEF E
  <2>3. find(E) \in E
    BY <2>1, <2>2, FindLeast
  <2>4. headerEnd(buf) \in Nat \ {0} /\ headerEnd(buf) + 1 \in 1..Len(buf)
    BY <2>1, <2>2, <2>3
  <2> QED  BY <1>1, <2>4 DEF bodyStart
<1> DEFINE p == contentLengthPos(buf) + 1
<1>3. atoi(buf) = 0 \/ \E n \in SentUpTo : atoi(buf) = Size(n)
  <2>1. CASE p \in DOMAIN buf /\ buf[p].t = "num"
    <3>1. atoi(buf) = buf[p].v
      BY <2>1 DEF atoi
    <3> HIDE DEF p
    <3>2. p \in DOMAIN Stream /\ Stream[p] = buf[p]
      BY <1>1, <2>1, BufferIsFront
    <3>3. buf[p].of \in SentUpTo /\ buf[p].v = Size(buf[p].of)
      BY <2>1, <3>2 DEF StreamInv, Orderly, Genuine
    <3> QED  BY <3>1, <3>3
  <2>2. CASE ~(p \in DOMAIN buf /\ buf[p].t = "num")
    BY <2>2 DEF atoi
  <2> QED  BY <2>1, <2>2
<1> HIDE DEF p
<1>4. atoi(buf) \in Nat /\ Len(buf) + atoi(buf) < SizeModulus
  <2>1. MaxReq \in Nat /\ Len(sent) \in 0..MaxReq /\ SizeModulus \in Nat \ {0}
    BY TypesOf, ExchangeAssumption, SizeAssumption DEF StreamInv
  <2>2. (MaxReq + 1) * Len(buf) <= Len(sent) * (SizeModulus - 1)
    <3>1. (MaxReq + 1) * Len(Stream) <= Len(sent) * (SizeModulus - 1)
      BY DEF StreamInv, Orderly, Bounded
    <3>2. Len(Stream) \in Nat
      BY TypesOf
    <3>3. (MaxReq + 1) * Len(buf) <= (MaxReq + 1) * Len(Stream)
      BY <1>1, <2>1, <3>2, BufferIsFront
    <3> QED  BY <1>1, <2>1, <3>1, <3>2, <3>3
  <2>3. atoi(buf) \in Nat /\ (MaxReq + 1) * atoi(buf) < SizeModulus
    <3>1. CASE atoi(buf) = 0
      BY <2>1, <3>1
    <3>2. ASSUME NEW n \in SentUpTo, atoi(buf) = Size(n)
          PROVE  atoi(buf) \in Nat /\ (MaxReq + 1) * atoi(buf) < SizeModulus
      <4>1. n \in Runs /\ sent[n].req \in Requests /\ sent[n].req \in Request
            /\ Size(n) \in Nat /\ (sent[n].req.size > 0 => sent[n].req.field)
        BY TypesOf, RunsAre DEF Size
      <4>2. (MaxReq + 1) * Len(SentText(n)) < SizeModulus
        BY <4>1, StreamAssumption DEF SentText
      <4>3. Len(SentText(n)) \in Nat /\ Size(n) <= Len(SentText(n))
        BY <4>1, TextTokens DEF SentText, Size
      <4>4. (MaxReq + 1) * Size(n) <= (MaxReq + 1) * Len(SentText(n))
        BY <2>1, <4>1, <4>3
      <4> QED  BY <2>1, <3>2, <4>1, <4>2, <4>3, <4>4
    <3> QED  BY <1>3, <3>1, <3>2
  <2> QED  BY <1>1, <2>1, <2>2, <2>3, NoWrap
<1>5. contentLengthPos(buf) # npos => bodyStart(buf) + atoi(buf) <= Len(buf)
  <2>1. contentLengthPos(buf) # npos => Len(buf) >= (bodyStart(buf) + atoi(buf)) % SizeModulus
    BY DEF hasRequest
  <2>2. bodyStart(buf) + atoi(buf) \in Nat /\ bodyStart(buf) + atoi(buf) < SizeModulus
    BY <1>1, <1>2, <1>4, SizeAssumption
  <2>3. (bodyStart(buf) + atoi(buf)) % SizeModulus = bodyStart(buf) + atoi(buf)
    BY <2>2, SizeAssumption, ModSmall
  <2> QED  BY <2>1, <2>3
<1>6. totalRequestSize(buf) =
         IF contentLengthPos(buf) = npos THEN bodyStart(buf) ELSE bodyStart(buf) + atoi(buf)
  BY <1>2 DEF totalRequestSize
<1> QED  BY <1>1, <1>2, <1>4, <1>5, <1>6

LEMMA TakeStream ==
    ASSUME TypeOK, StreamInv, TakeRequest
    PROVE  /\ StreamInv' /\ (\A n : LineTaken(n) => LineTaken(n)')
           /\ buf' \in Seq(Token) /\ taken' \in Seq(Seq(Token)) /\ arrived' = arrived /\ sent' = sent
           /\ getRequest(buf) \in Seq(Token) /\ Len(getRequest(buf)) = totalRequestSize(buf)
           /\ taken' = Append(taken, getRequest(buf)) /\ request' = getRequest(buf)
           /\ Len(taken') = Len(taken) + 1
           /\ getRequest(buf) \o (buf' \o arrived') = Stream
           /\ totalRequestSize(buf) + Len(Stream') = Len(Stream)
           /\ \A i \in 1..Len(Stream') : Stream'[i] = Stream[totalRequestSize(buf) + i]
           /\ \A i \in 1..totalRequestSize(buf) : getRequest(buf)[i] = buf[i]
<1>1. PICK k : k = totalRequestSize(buf)
  OBVIOUS
<1>2. k \in 2..Len(buf) /\ Len(buf) \in Nat /\ buf \in Seq(Token) /\ arrived \in Seq(Token)
  BY <1>1, TakeBounds, TypesOf DEF TakeRequest
<1>3. PICK b : b = SubSeq(buf, 1, k)
  OBVIOUS
<1>4. PICK d : d = SubSeq(buf, k + 1, Len(buf))
  OBVIOUS
<1>5. getRequest(buf) = b /\ remainder(buf) = d
  BY <1>1, <1>3, <1>4 DEF getRequest, remainder
<1>6. b \in Seq(Token) /\ Len(b) = k /\ (\A i \in 1..k : b[i] = buf[i]) /\ d \in Seq(Token)
  BY <1>2, <1>3, <1>4
<1>7. /\ buf' = d /\ arrived' = arrived /\ sent' = sent /\ taken' = Append(taken, b)
  BY <1>5 DEF TakeRequest, Processing
<1>8. taken \in Seq(Seq(Token))
  BY DEF TypeOK
<1>9. taken' \in Seq(Seq(Token)) /\ Len(taken') = Len(taken) + 1 /\ taken'[Len(taken')] = b
  BY <1>6, <1>7, <1>8
<1>10. request' = b
  BY <1>9 DEF request, Last
<1>11. PICK t : t = d \o arrived
  OBVIOUS
<1>12. Stream' = t
  BY <1>7, <1>11 DEF Stream
<1>13. t = SubSeq(Stream, k + 1, Len(Stream))
  <2>1. SubSeq(buf, k + 1, Len(buf)) \o arrived
          = SubSeq(buf \o arrived, k + 1, Len(buf \o arrived))
    <3>1. k \in 0..Len(buf)
      BY <1>2
    <3> QED  BY <1>2, <3>1, DropOver
  <2> QED  BY <1>4, <1>11, <2>1 DEF Stream
<1>14. t \in Seq(Token) /\ k + Len(t) = Len(Stream) /\ k \in Nat
       /\ \A i \in 1..Len(t) : t[i] = Stream[k + i]
  <2>1. Stream \in Seq(Token) /\ k \in Nat /\ k <= Len(Stream) /\ Len(Stream) \in Nat
    BY <1>2, TypesOf, BufferIsFront
  <2> QED  BY <1>13, <2>1
<1>15. StreamInv' /\ (\A n : LineTaken(n) => LineTaken(n)')
  BY <1>7, <1>12, <1>14, StreamAdvances
<1>16. b \o t = Stream
  <2>1. b \o d = buf
    <3>1. k \in 1..Len(buf)
      BY <1>2
    <3> QED  BY <1>2, <1>3, <1>4, <3>1, Rejoined
  <2>2. b \o (d \o arrived) = (b \o d) \o arrived
    <3>1. b \in Seq(Token) /\ d \in Seq(Token) /\ arrived \in Seq(Token)
      BY <1>2, <1>6
    <3> QED  BY <3>1, ConcatAssociative
  <2> QED  BY <1>11, <2>1, <2>2 DEF Stream
<1>17. b \o (buf' \o arrived') = Stream
  BY <1>7, <1>11, <1>16
<1> QED
  BY <1>1, <1>5, <1>6, <1>7, <1>9, <1>10, <1>12, <1>14, <1>15, <1>17

\* A request that begins with its line has its body, and is taken once.
LEMMA TakeDispatch ==
    ASSUME TypeOK, StreamInv, RunInv, TakeRequest
    PROVE  DispatchInv'
<1>1. PICK b : b = getRequest(buf)
  OBVIOUS
<1>2. PICK k : k = totalRequestSize(buf)
  OBVIOUS
<1>3. b \in Seq(Token) /\ Len(b) = k /\ request' = b /\ taken' = Append(taken, b)
      /\ (\A i \in 1..k : b[i] = buf[i]) /\ sent' = sent
  BY <1>1, <1>2, TakeStream
<1>4. k \in 2..Len(buf) /\ Len(buf) \in Nat /\ buf \in Seq(Token) /\ headerEnd(buf) # npos
  BY <1>2, TakeBounds, TypesOf DEF TakeRequest, npos
<1>5. PICK n : n = buf[1].of
  OBVIOUS
<1>6. b # <<>> /\ b[1] = buf[1] /\ buf # <<>>
  BY <1>3, <1>4
<1>7. n \in SentUpTo /\ 1 \in DOMAIN Stream /\ Stream[1] = buf[1]
  <2>1. 1 \in DOMAIN Stream /\ Stream[1] = buf[1]
    BY <1>4, BufferIsFront
  <2> QED  BY <1>5, <2>1 DEF StreamInv, Orderly, Genuine
<1>8. taken' # <<>>
  <2>1. taken \in Seq(Seq(Token))
    BY DEF TypeOK
  <2> QED  BY <1>3, <2>1, SMTT(30)
<1>9. ASSUME b[1].t = "line"
      PROVE  requestBody(b) = Body(n, Size(n)) /\ child[n].st = "none" /\ LineTaken(n)'
  <2>1. PICK r : r = sent[n].req
    OBVIOUS
  <2>2. r \in Request /\ (r.size > 0 => r.field) /\ r.size = Size(n) /\ r.size \in Nat
        /\ r.field \in BOOLEAN
    BY <1>7, <2>1, TypesOf DEF Size
  <2>3. Begins(buf, n, r)
    BY <1>5, <1>6, <1>9, <2>1, BufferBegins
  <2>4. Begins(b, n, r)
    BY <1>3, <1>4, <2>3 DEF Begins
  <2>5. IF r.field THEN k = 6 + r.size ELSE k >= 3
    <3>1. r.field => /\ headerEnd(buf) = 5 /\ contentLengthPos(buf) = 3 /\ atoi(buf) = r.size
      BY <1>4, <2>2, <2>3, HeaderFound
    <3>2. ~r.field => headerEnd(buf) = 2
      BY <1>4, <2>2, <2>3, HeaderFound
    <3>3. CASE r.field
      BY <1>2, <2>2, <3>1, <3>3, TakeBounds DEF TakeRequest, bodyStart, npos
    <3>4. CASE ~r.field
      <4>1. bodyStart(buf) = 3
        BY <3>2, <3>4 DEF bodyStart
      <4>2. k = 3 \/ k = 3 + atoi(buf)
        BY <1>2, <4>1 DEF totalRequestSize
      <4>3. atoi(buf) \in Nat
        BY TakeBounds DEF TakeRequest
      <4> QED  BY <3>4, <4>2, <4>3
    <3> QED  BY <2>2, <3>3, <3>4
  <2>6. headerEnd(b) # npos
    <3>1. Len(Header(n, r)) = IF r.field THEN 6 ELSE 3
      BY <2>2, TextIs
    <3>2. Len(b) >= Len(Header(n, r))
      BY <1>3, <2>2, <2>5, <3>1
    <3> QED  BY <1>3, <2>2, <2>4, <3>2, HeaderThere
  <2>7. requestBody(b) = Body(n, r.size)
    BY <1>3, <2>2, <2>4, <2>5, <2>6, BodyFound
  <2>8. child[n].st = "none"
    <3>1. n \in Runs
      BY <1>7, RunsAre
    <3>2. ~LineTaken(n)
      BY <1>5, <1>6, <1>7, <1>9 DEF LineTaken
    <3> QED  BY <3>1, <3>2 DEF RunInv, RunOf, Started
  <2>9. LineTaken(n)'
    <3>1. PICK t : t = Stream'
      OBVIOUS
    <3>2. k + Len(t) = Len(Stream) /\ (\A i \in 1..Len(t) : t[i] = Stream[k + i])
          /\ t \in Seq(Token)
      <4>1. buf' \o arrived' \in Seq(Token)
        BY TakeStream, TypesOf
      <4> QED  BY <1>2, <3>1, <4>1, TakeStream DEF Stream
    <3>3. ASSUME NEW i \in DOMAIN t, t[i].of = n, t[i].t = "line" PROVE FALSE
      <4>1. k + i \in DOMAIN Stream /\ Stream[k + i] = t[i] /\ 1 < k + i
        BY <1>4, <3>2, TypesOf
      <4> QED  BY <1>5, <1>6, <1>7, <1>9, <3>3, <4>1, OneLine, TypesOf DEF StreamInv
    <3> QED  BY <3>1, <3>3 DEF LineTaken
  <2> QED  BY <2>2, <2>7, <2>8, <2>9
<1>10. child' = child
  BY DEF TakeRequest, pipeVars
<1>11. request'[1].of = n
  BY <1>3, <1>5, <1>6
<1> QED
  BY <1>3, <1>5, <1>6, <1>7, <1>8, <1>9, <1>10, <1>11 DEF DispatchInv, SentUpTo, Size

-----------------------------------------------------------------------------
(* Runs. *)

LEMMA PipeTypes ==
    ASSUME TypeOK
    PROVE  /\ writing.run \in Runs \cup {0} /\ writing.left \in Seq(Bytes)
           /\ writing = [run |-> writing.run, left |-> writing.left]
           /\ \A n \in Runs :
                 /\ n \in Nat \ {0}
                 /\ child[n] \in Child /\ child[n].read \in Seq(Bytes) /\ child[n].wrote \in Nat
                 /\ child[n].st \in {"none", "run", "exit"} /\ child[n].prog \in Programs
                 /\ stdin[n] \in Pipe /\ stdin[n].data \in Seq(Bytes \cup {Banner})
                 /\ stdin[n].open \in BOOLEAN
                 /\ stdout[n] \in Pipe /\ stdout[n].data \in Seq(Bytes \cup {Banner})
                 /\ stdout[n].open \in BOOLEAN
                 /\ cgiBuf[n] \in Texts /\ Left(n) \in Seq(Bytes)
                 /\ stdout[n].data \in Texts
<1>1. writing.run \in Runs \cup {0} /\ writing.left \in Seq(Bytes)
      /\ writing = [run |-> writing.run, left |-> writing.left]
  BY DEF TypeOK, PipeTypeOK
<1>2. \A n \in Runs : child[n] \in Child /\ stdin[n] \in Pipe /\ stdout[n] \in Pipe
                      /\ cgiBuf[n] \in Texts
  BY DEF TypeOK, PipeTypeOK
<1>3. \A c \in Child : c.read \in Seq(Bytes) /\ c.wrote \in Nat
                       /\ c.st \in {"none", "run", "exit"} /\ c.prog \in Programs
  BY DEF Child
<1>4. \A p \in Pipe : p.data \in Seq(Bytes \cup {Banner}) /\ p.open \in BOOLEAN
  BY DEF Pipe
<1>5. \A n \in Runs : n \in Nat \ {0}
  BY PipeAssumption
<1>6. \A n \in Runs : Left(n) \in Seq(Bytes)
  BY <1>1 DEF Left
<1>7. Seq(Bytes \cup {Banner}) \subseteq Texts
  BY StreamAssumption DEF Texts
<1> QED  BY <1>1, <1>2, <1>3, <1>4, <1>5, <1>6, <1>7

LEMMA PutInto ==
    ASSUME NEW p \in Pipe, NEW x \in Bytes \cup {Banner}
    PROVE  /\ Put(p, x) \in Pipe /\ Put(p, x).open = p.open
           /\ Put(p, x).data = Append(p.data, x)
BY DEF Put, Pipe

LEMMA DropFrom ==
    ASSUME NEW p \in Pipe, NEW k \in 1..Len(p.data)
    PROVE  /\ Drop(p, k) \in Pipe /\ Drop(p, k).open = p.open
           /\ Drop(p, k).data = SubSeq(p.data, k + 1, Len(p.data))
           /\ Drop(p, k).data \in Seq(Bytes \cup {Banner})
           /\ Len(Drop(p, k).data) = Len(p.data) - k
           /\ \A i \in 1..Len(Drop(p, k).data) : Drop(p, k).data[i] = p.data[k + i]
<1>1. p.data \in Seq(Bytes \cup {Banner}) /\ p.open \in BOOLEAN
      /\ p = [data |-> p.data, open |-> p.open]
  BY DEF Pipe
<1>2. PICK d : d = SubSeq(p.data, k + 1, Len(p.data))
  OBVIOUS
<1>3. d \in Seq(Bytes \cup {Banner}) /\ Len(d) = Len(p.data) - k
      /\ \A i \in 1..Len(d) : d[i] = p.data[k + i]
  BY <1>1, <1>2
<1>4. Drop(p, k) = [data |-> d, open |-> p.open]
  <2>1. Drop(p, k) = [p EXCEPT !.data = d]
    BY <1>2 DEF Drop
  <2> QED  BY <2>1 DEF Pipe
<1> QED  BY <1>1, <1>2, <1>3, <1>4 DEF Pipe

\* The body of a run consists of what Bytes has.
LEMMA BodyBytes ==
    ASSUME TypeOK, StreamInv, NEW n \in SentUpTo
    PROVE  /\ n \in Runs /\ Size(n) \in Nat
           /\ \A i \in 1..Size(n) : Tok("byte", n, i) \in Bytes
           /\ Body(n, Size(n)) \in Seq(Bytes) /\ Len(Body(n, Size(n))) = Size(n)
           /\ \A i \in 1..Size(n) : Body(n, Size(n))[i] = Tok("byte", n, i)
<1>1. PICK r : r = sent[n].req
  OBVIOUS
<1>2. n \in Runs /\ r \in Requests /\ r.size \in Nat /\ r.field \in BOOLEAN /\ r.size = Size(n)
  BY <1>1, RunsAre, TypesOf DEF Size
<1>3. Text(n, r) \in Seq(Bytes)
  BY <1>2, StreamAssumption
<1>4. /\ Len(Text(n, r)) = (IF r.field THEN 6 ELSE 3) + r.size
      /\ Len(Header(n, r)) = (IF r.field THEN 6 ELSE 3)
      /\ \A i \in 1..r.size : Text(n, r)[Len(Header(n, r)) + i] = Tok("byte", n, i)
  BY <1>2, TextIs
<1>5. ASSUME NEW i \in 1..r.size PROVE Tok("byte", n, i) \in Bytes
  <2>1. Len(Header(n, r)) + i \in 1..Len(Text(n, r))
    BY <1>2, <1>4
  <2> QED  BY <1>3, <1>4, <2>1
<1> QED  BY <1>2, <1>5, BodyIs

\* A run that nothing happens to, while others may end.
LEMMA RunKept ==
    ASSUME TypeOK, NEW m \in Runs, RunOf(m),
           child'[m] = child[m], stdin'[m] = stdin[m], stdout'[m] = stdout[m],
           cgiBuf'[m] = cgiBuf[m], Left(m)' = Left(m), writing'.run = m => writing.run = m,
           Started(m) => /\ m <= Len(sent') /\ sent'[m] = sent[m]
                         /\ LineTaken(m) => LineTaken(m)',
           \A i \in Runs : Exited(i) => Exited(i)'
    PROVE  RunOf(m)'
<1>1. Started(m)' = Started(m)
  BY DEF Started
<1>2. CASE ~Started(m)
  BY <1>1, <1>2 DEF RunOf, NotStarted
<1>3. CASE Started(m)
  <2>1. m <= Len(sent) /\ sent[m].req.kind = child[m].prog /\ LineTaken(m)
        /\ Input(m) /\ Output(m) /\ Ended(m)
    BY <1>3 DEF RunOf
  <2>2. m <= Len(sent') /\ sent'[m] = sent[m] /\ LineTaken(m)'
    BY <1>3, <2>1
  <2>3. Cut(m) => Cut(m)'
    BY <2>2 DEF Cut, Size
  <2>4. Given(m)' = Given(m)
    BY DEF Given
  <2>5. Input(m)'
    BY <2>1, <2>2, <2>3, <2>4, ZenonT(30) DEF Input, Size
  <2>6. Output(m)'
    BY <2>1, ZenonT(30) DEF Output, Out
  <2>7. Ended(m)'
    BY <2>1 DEF Ended, Exited
  <2> QED  BY <1>1, <1>3, <2>1, <2>2, <2>5, <2>6, <2>7 DEF RunOf
<1> QED  BY <1>2, <1>3

\* A step of run n keeps the invariant of the runs if it keeps that of n.
LEMMA StepOfRun ==
    ASSUME TypeOK, RunInv, NEW n \in Runs, up' = "up" \/ up' = up, sent' = sent, pc' = pc,
           up = "up", Stream' = Stream,
           \A m \in Runs \ {n} : /\ child'[m] = child[m] /\ stdin'[m] = stdin[m]
                                 /\ stdout'[m] = stdout[m] /\ cgiBuf'[m] = cgiBuf[m],
           Exited(n) => Exited(n)',
           \A m \in Runs \ {n} : Left(m)' = Left(m) /\ (writing'.run = m => writing.run = m),
           writing'.run = 0 => writing'.left = <<>>, pc # "loop" => writing'.run = 0,
           RunOf(n)'
    PROVE  RunInv'
<1>1. ASSUME NEW m \in Runs, m # n PROVE RunOf(m)'
  <2>1. RunOf(m)
    BY DEF RunInv
  <2>2. Started(m) => m <= Len(sent)
    BY <2>1 DEF RunOf
  <2>3. LineTaken(m) => LineTaken(m)'
    BY DEF LineTaken
  <2>4. \A i \in Runs : Exited(i) => Exited(i)'
    BY DEF Exited
  <2> QED  BY <1>1, <2>1, <2>2, <2>3, <2>4, RunKept
<1> QED  BY <1>1 DEF RunInv

LEMMA CgiDataRun ==
    ASSUME TypeOK, RunInv, NEW n \in Runs, NEW k \in Nat, CgiData(n, k)
    PROVE  PipeTypeOK' /\ cgiBuf' \in [Runs -> Texts] /\ RunInv'
<1> USE DEF Looping
<1>1. PICK a : a = cgiBuf[n]
  OBVIOUS
<1>2. PICK b : b = stdout[n].data
  OBVIOUS
<1>3. PICK p : p = Drop(stdout[n], k)
  OBVIOUS
<1>4. k \in 1..Len(b)
  BY <1>2 DEF CgiData
<1>5. /\ a \in Texts /\ b \in Texts /\ stdout[n] \in Pipe /\ child \in [Runs -> Child]
      /\ stdout \in [Runs -> Pipe] /\ cgiBuf \in [Runs -> Texts]
  BY <1>1, <1>2, PipeTypes DEF TypeOK, PipeTypeOK
<1>6. /\ p \in Pipe /\ p.open = stdout[n].open /\ p.data = SubSeq(b, k + 1, Len(b))
      /\ Len(p.data) = Len(b) - k
  BY <1>2, <1>3, <1>4, <1>5, DropFrom
<1>7. PICK c : c = a \o SubSeq(b, 1, k)
  OBVIOUS
<1>8. c \in Texts /\ c \o p.data = a \o b
  <2>1. SubSeq(b, 1, k) \in Texts
    BY <1>4, <1>5 DEF Texts
  <2>2. c \in Texts
    BY <1>5, <1>7, <2>1 DEF Texts
  <2> QED  BY <1>4, <1>5, <1>6, <1>7, <2>2, MoveOver DEF Texts
<1>9. cgiBuf' = [cgiBuf EXCEPT ![n] = c] /\ stdout' = [stdout EXCEPT ![n] = p]
  BY <1>1, <1>2, <1>3, <1>7 DEF CgiData
<1>10. UNCHANGED <<sent, arrived, buf, pc, up, child, stdin, writing>>
  BY DEF CgiData
<1>11. PipeTypeOK' /\ cgiBuf' \in [Runs -> Texts]
  BY <1>5, <1>6, <1>8, <1>9, <1>10 DEF TypeOK, PipeTypeOK
<1>12. cgiBuf'[n] = c /\ stdout'[n] = p
  BY <1>5, <1>9
<1>13. RunOf(n)'
  <2>1. RunOf(n)
    BY DEF RunInv
  <2>2. Started(n)
    BY <1>2, <1>4, <2>1 DEF RunOf, NotStarted
  <2>3. n <= Len(sent) /\ sent[n].req.kind = child[n].prog /\ LineTaken(n)
        /\ Input(n) /\ Output(n) /\ Ended(n)
    BY <2>1, <2>2 DEF RunOf
  <2>4. Out(n)' = Out(n)
    BY <1>1, <1>2, <1>8, <1>12 DEF Out
  <2>5. Output(n)'
    <3>1. Len(p.data) <= Len(b) /\ Len(b) \in Nat
      BY <1>4, <1>5, <1>6 DEF Texts
    <3>2. Len(b) <= Capacity => Len(p.data) <= Capacity
      BY <3>1, <1>6, PipeAssumption
    <3> QED  BY <1>2, <1>6, <1>10, <1>12, <2>3, <2>4, <3>2 DEF Output
  <2>6. Input(n)'
    BY <1>10, <2>3 DEF Input, Given, Left, Size, Cut, Exited
  <2>7. Ended(n)'
    BY <1>6, <1>10, <1>12, <2>3 DEF Ended, Exited
  <2>8. LineTaken(n)'
    BY <1>10, <2>3 DEF LineTaken, Stream
  <2> QED  BY <1>10, <2>2, <2>3, <2>5, <2>6, <2>7, <2>8 DEF RunOf, Started
<1>14. RunInv'
  <2>1. up = "up" /\ Stream' = Stream
    BY <1>10 DEF CgiData, Stream
  <2>2. \A m \in Runs \ {n} : cgiBuf'[m] = cgiBuf[m] /\ stdout'[m] = stdout[m]
    BY <1>5, <1>9
  <2>3. \A m \in Runs : Left(m)' = Left(m)
    BY <1>10 DEF Left
  <2>4. Exited(n) => Exited(n)'
    BY <1>10 DEF Exited
  <2> QED  BY <1>10, <1>13, <2>1, <2>2, <2>3, <2>4, StepOfRun DEF RunInv
<1> QED  BY <1>11, <1>14

LEMMA CgiEofRun ==
    ASSUME TypeOK, RunInv, NEW n \in Runs, CgiEof(n)
    PROVE  PipeTypeOK' /\ cgiBuf' \in [Runs -> Texts] /\ RunInv'
<1> USE DEF Looping
<1>1. PICK p : p = [stdout[n] EXCEPT !.open = FALSE]
  OBVIOUS
<1>2. /\ stdout[n] \in Pipe /\ child \in [Runs -> Child]
      /\ stdout \in [Runs -> Pipe] /\ cgiBuf \in [Runs -> Texts]
  BY PipeTypes DEF TypeOK, PipeTypeOK
<1>3. p \in Pipe /\ p.open = FALSE /\ <<>> \in Texts
  <2>1. p \in Pipe /\ p.open = FALSE
    BY <1>1, <1>2 DEF Pipe
  <2>2. <<>> \in Texts
    BY DEF Texts
  <2> QED  BY <2>1, <2>2
<1>4. cgiBuf' = [cgiBuf EXCEPT ![n] = <<>>] /\ stdout' = [stdout EXCEPT ![n] = p]
  BY <1>1 DEF CgiEof
<1>5. UNCHANGED <<sent, arrived, buf, pc, up, child, stdin, writing>>
  BY DEF CgiEof
<1>6. PipeTypeOK' /\ cgiBuf' \in [Runs -> Texts]
  BY <1>2, <1>3, <1>4, <1>5 DEF TypeOK, PipeTypeOK
<1>7. cgiBuf'[n] = <<>> /\ stdout'[n] = p
  BY <1>2, <1>4
<1>8. Started(n) /\ Exited(n)
  BY DEF CgiEof, Started, Exited
<1>9. RunOf(n)'
  <2>1. n <= Len(sent) /\ sent[n].req.kind = child[n].prog /\ LineTaken(n)
        /\ Input(n) /\ Output(n) /\ Ended(n)
    BY <1>8 DEF RunInv, RunOf
  <2>2. Output(n)'
    BY <1>3, <1>7 DEF Output
  <2>3. Input(n)'
    BY <1>5, <2>1 DEF Input, Given, Left, Size, Cut, Exited
  <2>4. Ended(n)'
    BY <1>5, <1>8, <2>1 DEF Ended, Exited
  <2>5. LineTaken(n)'
    BY <1>5, <2>1 DEF LineTaken, Stream
  <2> QED  BY <1>5, <1>8, <2>1, <2>2, <2>3, <2>4, <2>5 DEF RunOf, Started
<1>10. RunInv'
  <2>1. up = "up" /\ Stream' = Stream
    BY <1>5 DEF CgiEof, Stream
  <2>2. \A m \in Runs \ {n} : cgiBuf'[m] = cgiBuf[m] /\ stdout'[m] = stdout[m]
    BY <1>2, <1>4
  <2>3. \A m \in Runs : Left(m)' = Left(m)
    BY <1>5 DEF Left
  <2>4. Exited(n) => Exited(n)'
    BY <1>5 DEF Exited
  <2> QED  BY <1>5, <1>9, <2>1, <2>2, <2>3, <2>4, StepOfRun DEF RunInv
<1> QED  BY <1>6, <1>10

\* While the server writes, its run is one.
LEMMA WritingRun ==
    ASSUME TypeOK, RunInv, writing.run # 0
    PROVE  /\ writing.run \in Runs /\ Started(writing.run) /\ stdin[writing.run].open
           /\ Left(writing.run) = writing.left
<1>1. writing.run \in Runs
  BY PipeTypes
<1>2. RunOf(writing.run)
  BY <1>1 DEF RunInv
<1> QED  BY <1>1, <1>2 DEF RunOf, NotStarted, Input, Left

LEMMA WriteBodyRun ==
    ASSUME TypeOK, RunInv, StreamInv, up = "up", writeBody,
           UNCHANGED <<sent, arrived, buf, cgiBuf, pc, up>>
    PROVE  PipeTypeOK' /\ RunInv'
<1>1. PICK n : n = writing.run
  OBVIOUS
<1>2. PICK l : l = writing.left
  OBVIOUS
<1>3. l # <<>> /\ n # 0
  BY <1>1, <1>2 DEF writeBody, RunInv
<1>4. n \in Runs /\ Started(n) /\ stdin[n].open /\ Left(n) = l
  BY <1>1, <1>2, <1>3, WritingRun
<1>5. /\ stdin[n] \in Pipe /\ child \in [Runs -> Child] /\ stdin \in [Runs -> Pipe]
      /\ stdout \in [Runs -> Pipe] /\ l \in Seq(Bytes) /\ writing = [run |-> n, left |-> l]
      /\ stdin[n].data \in Seq(Bytes \cup {Banner}) /\ child[n].read \in Seq(Bytes)
  BY <1>1, <1>2, <1>4, PipeTypes DEF TypeOK, PipeTypeOK
<1>6. Head(l) \in Bytes /\ Head(l) = l[1] /\ Tail(l) \in Seq(Bytes) /\ Len(Tail(l)) = Len(l) - 1
      /\ (\A i \in 1..Len(Tail(l)) : Tail(l)[i] = l[i + 1]) /\ Len(l) \in Nat \ {0}
  BY <1>3, <1>5
<1>7. PICK p : p = Put(stdin[n], Head(l))
  OBVIOUS
<1>8. PICK d : d = stdin[n].data
  OBVIOUS
<1>9. p \in Pipe /\ p.open = stdin[n].open /\ p.data = Append(d, Head(l))
  BY <1>5, <1>6, <1>7, <1>8, PutInto
<1>10. /\ stdin' = [stdin EXCEPT ![n] = p] /\ writing' = [run |-> n, left |-> Tail(l)]
       /\ child' = child /\ stdout' = stdout
  <2>1. writing' = [writing EXCEPT !.left = Tail(l)]
    BY <1>2 DEF writeBody
  <2> QED  BY <1>1, <1>2, <1>5, <1>7, <2>1 DEF writeBody
<1>11. PipeTypeOK'
  BY <1>4, <1>5, <1>6, <1>9, <1>10 DEF PipeTypeOK
<1>12. stdin'[n] = p
  BY <1>4, <1>5, <1>10
<1>13. RunOf(n)'
  <2>1. n <= Len(sent) /\ sent[n].req.kind = child[n].prog /\ LineTaken(n)
        /\ Input(n) /\ Output(n) /\ Ended(n)
    BY <1>4 DEF RunInv, RunOf
  <2>2. PICK r : r = Len(child[n].read)
    OBVIOUS
  <2>3. r \in Nat /\ Len(d) \in Nat /\ Len(p.data) = Len(d) + 1 /\ Capacity \in Nat
        /\ (\A i \in 1..Len(d) : p.data[i] = d[i]) /\ p.data[Len(d) + 1] = l[1]
    BY <1>5, <1>6, <1>8, <1>9, <2>2, PipeAssumption
  <2>4. /\ \A i \in 1..Len(d) : d[i] = Tok("byte", n, r + i)
        /\ \A i \in 1..Len(l) : l[i] = Tok("byte", n, r + Len(d) + i)
    BY <1>4, <1>8, <2>1, <2>2 DEF Input
  <2>5. Left(n)' = Tail(l)
    BY <1>10 DEF Left
  <2>6. Given(n)' = Given(n)
    <3>1. Given(n) = r + Len(d) + Len(l)
      BY <1>4, <1>8, <2>2 DEF Given
    <3>2. Given(n)' = r + Len(p.data) + Len(Tail(l))
      BY <1>10, <1>12, <2>2, <2>5 DEF Given
    <3> QED  BY <1>6, <2>3, <3>1, <3>2
  <2>7. Len(d) < Capacity
    <3>1. ~Full(stdin[n])
      BY <1>1, <1>2, <1>3 DEF writeBody, Asleep
    <3> QED  BY <1>8, <2>3, <3>1 DEF Full
  <2>8. \A i \in 1..Len(p.data) : p.data[i] = Tok("byte", n, r + i)
    <3>1. p.data[Len(d) + 1] = Tok("byte", n, r + (Len(d) + 1))
      <4>1. l[1] = Tok("byte", n, r + Len(d) + 1)
        BY <1>6, <2>4
      <4>2. r + Len(d) + 1 = r + (Len(d) + 1)
        BY <2>3
      <4> QED  BY <2>3, <4>1, <4>2
    <3> TAKE i \in 1..Len(p.data)
    <3>2. CASE i \in 1..Len(d)
      BY <2>3, <2>4, <3>2
    <3>3. CASE i = Len(d) + 1
      BY <3>1, <3>3
    <3> QED  BY <2>3, <3>2, <3>3
  <2>9. \A i \in 1..Len(Tail(l)) : Tail(l)[i] = Tok("byte", n, r + Len(p.data) + i)
    <3> TAKE i \in 1..Len(Tail(l))
    <3>1. i + 1 \in 1..Len(l) /\ Tail(l)[i] = l[i + 1]
      BY <1>6
    <3>2. r + Len(d) + (i + 1) = r + Len(p.data) + i
      BY <1>6, <2>3
    <3> QED  BY <2>4, <3>1, <3>2
  <2>10. Input(n)'
    <3>1. Cut(n)' = Cut(n) /\ Size(n)' = Size(n)
      BY <1>10 DEF Cut, Size, Exited
    <3>2. /\ \A i \in 1..r : child[n].read[i] = Tok("byte", n, i)
          /\ Given(n) <= Size(n) /\ (Given(n) = Size(n) \/ Cut(n))
      BY <2>1, <2>2 DEF Input
    <3>3. p.open /\ Len(p.data) <= Capacity
      BY <1>4, <1>9, <2>3, <2>7
    <3> QED  BY <1>10, <1>12, <2>2, <2>5, <2>6, <2>8, <2>9, <3>1, <3>2, <3>3 DEF Input
  <2>11. Output(n)'
    BY <1>10, <2>1 DEF Output, Out
  <2>12. Ended(n)'
    <3>1. ~Exited(n)
      BY <1>1, <1>2, <1>3 DEF writeBody, Broken, Exited
    <3> QED  BY <1>10, <2>1, <3>1 DEF Ended, Exited
  <2>13. LineTaken(n)'
    BY <2>1 DEF LineTaken, Stream
  <2> QED  BY <1>4, <1>10, <2>1, <2>10, <2>11, <2>12, <2>13 DEF RunOf, Started
<1>14. RunInv'
  <2>1. Stream' = Stream
    BY DEF Stream
  <2>2. \A m \in Runs \ {n} : stdin'[m] = stdin[m]
    BY <1>5, <1>10
  <2>3. \A m \in Runs \ {n} : Left(m)' = Left(m) /\ (writing'.run = m => writing.run = m)
    BY <1>5, <1>10 DEF Left
  <2>4. Exited(n) => Exited(n)'
    BY <1>10 DEF Exited
  <2>5. (writing'.run = 0 => writing'.left = <<>>) /\ (pc # "loop" => writing'.run = 0)
    BY <1>1, <1>3, <1>10 DEF RunInv
  <2> QED  BY <1>4, <1>10, <1>13, <2>1, <2>2, <2>3, <2>4, <2>5, StepOfRun DEF RunInv
<1> QED  BY <1>11, <1>14

LEMMA ReturnRun ==
    ASSUME TypeOK, RunInv, up = "up", returnFromRun,
           UNCHANGED <<sent, arrived, buf, cgiBuf, pc, up>>
    PROVE  PipeTypeOK' /\ RunInv'
<1>1. PICK n : n = writing.run
  OBVIOUS
<1>2. n # 0 /\ writing.left = <<>>
  BY <1>1 DEF returnFromRun
<1>3. n \in Runs /\ Started(n) /\ stdin[n].open /\ Left(n) = <<>>
  BY <1>1, <1>2, WritingRun
<1>4. PICK p : p = [stdin[n] EXCEPT !.open = FALSE]
  OBVIOUS
<1>5. /\ stdin[n] \in Pipe /\ child \in [Runs -> Child] /\ stdin \in [Runs -> Pipe]
      /\ stdout \in [Runs -> Pipe]
  BY <1>3, PipeTypes DEF TypeOK, PipeTypeOK
<1>6. p \in Pipe /\ p.open = FALSE /\ p.data = stdin[n].data
  BY <1>4, <1>5 DEF Pipe
<1>7. /\ stdin' = [stdin EXCEPT ![n] = p] /\ writing' = NoWrite
      /\ child' = child /\ stdout' = stdout
  BY <1>1, <1>4 DEF returnFromRun, closeStdin
<1>8. writing'.run = 0 /\ writing'.left = <<>> /\ writing' \in [run: Runs \cup {0}, left: Seq(Bytes)]
  BY <1>7 DEF NoWrite
<1>9. PipeTypeOK'
  BY <1>5, <1>6, <1>7, <1>8 DEF PipeTypeOK
<1>10. stdin'[n] = p
  BY <1>3, <1>5, <1>7
<1>11. 0 \notin Runs
  BY PipeAssumption
<1>12. \A m \in Runs : Left(m)' = Left(m) /\ writing'.run # m
  BY <1>1, <1>2, <1>8, <1>11 DEF Left
<1>13. RunOf(n)'
  <2>1. n <= Len(sent) /\ sent[n].req.kind = child[n].prog /\ LineTaken(n)
        /\ Input(n) /\ Output(n) /\ Ended(n)
    BY <1>3 DEF RunInv, RunOf
  <2>2. Given(n)' = Given(n) /\ Cut(n)' = Cut(n) /\ Size(n)' = Size(n)
    BY <1>3, <1>6, <1>7, <1>10, <1>12 DEF Given, Cut, Size, Exited
  <2>3. Input(n)'
    BY <1>3, <1>6, <1>7, <1>10, <1>12, <2>1, <2>2, ZenonT(30) DEF Input
  <2>4. Output(n)'
    BY <1>7, <2>1 DEF Output, Out
  <2>5. Ended(n)'
    BY <1>6, <1>7, <1>10, <2>1 DEF Ended, Exited
  <2>6. LineTaken(n)'
    BY <2>1 DEF LineTaken, Stream
  <2> QED  BY <1>3, <1>7, <2>1, <2>3, <2>4, <2>5, <2>6 DEF RunOf, Started
<1>14. RunInv'
  <2>1. Stream' = Stream
    BY DEF Stream
  <2>2. \A m \in Runs \ {n} : stdin'[m] = stdin[m]
    BY <1>5, <1>7
  <2>3. Exited(n) => Exited(n)'
    BY <1>7 DEF Exited
  <2> QED  BY <1>3, <1>7, <1>8, <1>12, <1>13, <2>1, <2>2, <2>3, StepOfRun
<1> QED  BY <1>9, <1>14

LEMMA ChildReadRun ==
    ASSUME TypeOK, RunInv, StreamInv, up = "up", NEW n \in Runs, childRead(n),
           UNCHANGED <<sent, arrived, buf, cgiBuf, pc, up>>
    PROVE  PipeTypeOK' /\ RunInv'
<1>1. PICK d : d = stdin[n].data
  OBVIOUS
<1>2. PICK r : r = child[n].read
  OBVIOUS
<1>3. Started(n) /\ child[n].st = "run" /\ d # <<>>
  BY <1>1 DEF childRead, Started
<1>4. n <= Len(sent) /\ sent[n].req.kind = child[n].prog /\ LineTaken(n)
      /\ Input(n) /\ Output(n) /\ Ended(n)
  BY <1>3 DEF RunInv, RunOf
<1>5. /\ child[n] \in Child /\ stdin[n] \in Pipe /\ child \in [Runs -> Child]
      /\ stdin \in [Runs -> Pipe] /\ stdout \in [Runs -> Pipe]
      /\ r \in Seq(Bytes) /\ d \in Seq(Bytes \cup {Banner}) /\ child[n].wrote \in Nat
      /\ Left(n) \in Seq(Bytes) /\ writing \in [run: Runs \cup {0}, left: Seq(Bytes)]
  BY <1>1, <1>2, PipeTypes DEF TypeOK, PipeTypeOK
<1>6. Len(r) \in Nat /\ Len(d) \in Nat \ {0} /\ Len(Left(n)) \in Nat /\ Head(d) = d[1]
  BY <1>3, <1>5
<1>7. Head(d) = Tok("byte", n, Len(r) + 1) /\ Head(d) \in Bytes
  <2>1. d[1] = Tok("byte", n, Len(r) + 1)
    BY <1>1, <1>2, <1>4, <1>6 DEF Input
  <2>2. n \in SentUpTo
    BY <1>4, TypesOf, PipeAssumption DEF SentUpTo
  <2>3. Len(r) + 1 \in 1..Size(n)
    <3>1. Len(r) + Len(d) + Len(Left(n)) <= Size(n) /\ Size(n) \in Nat
      BY <1>1, <1>2, <1>4, <2>2, TypesOf DEF Input, Given
    <3> QED  BY <1>6, <3>1
  <2> QED  BY <1>6, <2>1, <2>2, <2>3, BodyBytes
<1>8. PICK p : p = Drop(stdin[n], 1)
  OBVIOUS
<1>9. /\ p \in Pipe /\ p.open = stdin[n].open /\ Len(p.data) = Len(d) - 1
      /\ \A i \in 1..Len(p.data) : p.data[i] = d[1 + i]
  BY <1>1, <1>5, <1>6, <1>8, DropFrom, SMTT(30)
<1>10. PICK q : q = Append(r, Head(d))
  OBVIOUS
<1>11. q \in Seq(Bytes) /\ Len(q) = Len(r) + 1 /\ (\A i \in 1..Len(r) : q[i] = r[i])
       /\ q[Len(r) + 1] = Head(d)
  BY <1>5, <1>7, <1>10
<1>12. PICK c : c = [child[n] EXCEPT !.read = q]
  OBVIOUS
<1>13. c \in Child /\ c.read = q /\ c.st = "run" /\ c.prog = child[n].prog
       /\ c.wrote = child[n].wrote
  BY <1>3, <1>5, <1>11, <1>12 DEF Child
<1>14. /\ child' = [child EXCEPT ![n] = c] /\ stdin' = [stdin EXCEPT ![n] = p]
       /\ stdout' = stdout /\ writing' = writing
  BY <1>1, <1>2, <1>8, <1>10, <1>12 DEF childRead
<1>15. PipeTypeOK'
  BY <1>5, <1>9, <1>13, <1>14 DEF PipeTypeOK
<1>16. child'[n] = c /\ stdin'[n] = p
  BY <1>5, <1>14
<1>17. RunOf(n)'
  <2>1. Left(n)' = Left(n) /\ Size(n)' = Size(n)
    BY <1>14 DEF Left, Size
  <2>2. Cut(n) => Cut(n)'
    BY <1>14 DEF Cut, Size, Exited
  <2>3. Given(n)' = Given(n)
    <3>1. Given(n) = Len(r) + Len(d) + Len(Left(n))
      BY <1>1, <1>2 DEF Given
    <3>2. Given(n)' = Len(q) + Len(p.data) + Len(Left(n))
      BY <1>13, <1>16, <2>1 DEF Given
    <3> QED  BY <1>6, <1>9, <1>11, <3>1, <3>2
  <2>4. \A i \in 1..Len(q) : q[i] = Tok("byte", n, i)
    <3>1. \A i \in 1..Len(r) : r[i] = Tok("byte", n, i)
      BY <1>2, <1>4 DEF Input
    <3> TAKE i \in 1..Len(q)
    <3>2. CASE i \in 1..Len(r)
      BY <1>11, <3>1, <3>2
    <3>3. CASE i = Len(r) + 1
      BY <1>7, <1>11, <3>3
    <3> QED  BY <1>6, <1>11, <3>2, <3>3
  <2>5. \A i \in 1..Len(p.data) : p.data[i] = Tok("byte", n, Len(q) + i)
    <3>1. \A i \in 1..Len(d) : d[i] = Tok("byte", n, Len(r) + i)
      BY <1>1, <1>2, <1>4 DEF Input
    <3> TAKE i \in 1..Len(p.data)
    <3>2. 1 + i \in 1..Len(d) /\ Len(r) + (1 + i) = Len(q) + i
      BY <1>6, <1>9, <1>11
    <3> QED  BY <1>9, <3>1, <3>2
  <2>6. \A i \in 1..Len(Left(n)) : Left(n)[i] = Tok("byte", n, Len(q) + Len(p.data) + i)
    <3>1. \A i \in 1..Len(Left(n)) : Left(n)[i] = Tok("byte", n, Len(r) + Len(d) + i)
      BY <1>1, <1>2, <1>4 DEF Input
    <3>2. Len(r) + Len(d) = Len(q) + Len(p.data)
      BY <1>6, <1>9, <1>11
    <3> QED  BY <3>1, <3>2
  <2>7. Input(n)'
    <3>1. Given(n) <= Size(n) /\ (Given(n) = Size(n) \/ Cut(n)) /\ Len(d) <= Capacity
          /\ (writing.run = n => stdin[n].open)
      BY <1>1, <1>4 DEF Input
    <3>2. Len(p.data) <= Capacity
      BY <1>6, <1>9, <3>1, PipeAssumption
    <3> QED
      BY <1>9, <1>13, <1>14, <1>16, <2>1, <2>2, <2>3, <2>4, <2>5, <2>6, <3>1, <3>2 DEF Input
  <2>8. Output(n)'
    <3>1. Out(n)' = Out(n)
      BY <1>14 DEF Out
    <3>2. ASSUME stdout[n].open, child[n].prog # "blind"
          PROVE  /\ child[n].wrote <= Len(q) + 1
                 /\ \A i \in 1..Len(Out(n)) :
                       Out(n)[i] = IF i = 1 THEN Banner ELSE Tok("byte", n, i - 1)
      <4>1. child[n].wrote <= Len(r) + 1
        BY <1>2, <1>4, <3>2 DEF Output
      <4>2. child[n].wrote <= Len(q) + 1
        BY <1>5, <1>6, <1>11, <4>1
      <4>3. \A i \in 1..Len(Out(n)) :
               Out(n)[i] = IF i = 1 THEN Banner ELSE Tok("byte", n, i - 1)
        BY <1>4, <3>2 DEF Output
      <4> QED  BY <4>2, <4>3
    <3>3. stdout[n].open => Len(Out(n)) = child[n].wrote /\ Len(stdout[n].data) <= Capacity
      BY <1>4 DEF Output
    <3> QED  BY <1>13, <1>14, <1>16, <3>1, <3>2, <3>3 DEF Output
  <2>9. Ended(n)'
    BY <1>3, <1>4, <1>13, <1>14, <1>16 DEF Ended, Exited
  <2>10. LineTaken(n)'
    BY <1>4 DEF LineTaken, Stream
  <2> QED  BY <1>4, <1>13, <1>16, <2>7, <2>8, <2>9, <2>10 DEF RunOf, Started
<1>18. RunInv'
  <2>1. Stream' = Stream
    BY DEF Stream
  <2>2. \A m \in Runs \ {n} : stdin'[m] = stdin[m] /\ child'[m] = child[m]
    BY <1>5, <1>14
  <2>3. \A m \in Runs : Left(m)' = Left(m)
    BY <1>14 DEF Left
  <2>4. Exited(n) => Exited(n)'
    BY <1>3 DEF Exited
  <2> QED  BY <1>14, <1>17, <2>1, <2>2, <2>3, <2>4, StepOfRun DEF RunInv
<1> QED  BY <1>15, <1>18

LEMMA ChildWriteRun ==
    ASSUME TypeOK, RunInv, StreamInv, up = "up", NEW n \in Runs, childWrite(n),
           UNCHANGED <<sent, arrived, buf, cgiBuf, pc, up>>
    PROVE  PipeTypeOK' /\ RunInv'
<1>1. PICK b : b = stdout[n].data
  OBVIOUS
<1>2. PICK w : w = child[n].wrote
  OBVIOUS
<1>3. PICK x : x = NextOutput(n)
  OBVIOUS
<1>4. Started(n) /\ child[n].st = "run" /\ Pending(n)
  BY DEF childWrite, Started
<1>5. n <= Len(sent) /\ sent[n].req.kind = child[n].prog /\ LineTaken(n)
      /\ Input(n) /\ Output(n) /\ Ended(n)
  BY <1>4 DEF RunInv, RunOf
<1>6. /\ child[n] \in Child /\ stdout[n] \in Pipe /\ child \in [Runs -> Child]
      /\ stdin \in [Runs -> Pipe] /\ stdout \in [Runs -> Pipe]
      /\ child[n].read \in Seq(Bytes) /\ b \in Texts /\ w \in Nat /\ cgiBuf[n] \in Texts
      /\ child[n].prog \in {"echo", "gather", "blind"}
      /\ writing \in [run: Runs \cup {0}, left: Seq(Bytes)]
  BY <1>1, <1>2, PipeTypes DEF TypeOK, PipeTypeOK, Programs
<1>7. stdout[n].open /\ Len(Out(n)) = w
  BY <1>2, <1>4, <1>5 DEF Output, Ended
<1>8. child[n].prog # "blind" => w <= Len(child[n].read)
  BY <1>2, <1>4, <1>6 DEF Pending
<1>9. /\ x \in Bytes \cup {Banner}
      /\ child[n].prog # "blind" => x = IF w = 0 THEN Banner ELSE Tok("byte", n, w)
  <2>1. CASE child[n].prog = "blind" \/ w = 0
    BY <1>2, <1>3, <2>1 DEF NextOutput
  <2>2. CASE child[n].prog # "blind" /\ w # 0
    <3>1. x = child[n].read[w] /\ w \in 1..Len(child[n].read)
      BY <1>2, <1>3, <1>6, <1>8, <2>2 DEF NextOutput
    <3>2. child[n].read[w] = Tok("byte", n, w)
      BY <1>5, <3>1 DEF Input
    <3> QED  BY <1>6, <2>2, <3>1, <3>2
  <2> QED  BY <2>1, <2>2
<1>10. PICK p : p = Put(stdout[n], x)
  OBVIOUS
<1>11. p \in Pipe /\ p.open = stdout[n].open /\ p.data = Append(b, x)
  BY <1>1, <1>6, <1>9, <1>10, PutInto
<1>12. PICK c : c = [child[n] EXCEPT !.wrote = w + 1]
  OBVIOUS
<1>13. c \in Child /\ c.read = child[n].read /\ c.st = "run" /\ c.prog = child[n].prog
       /\ c.wrote = w + 1
  <2>1. w + 1 \in Nat /\ child[n] \in Child
    BY <1>6, PipeTypes
  <2>2. child[n].st = "run"
    BY DEF childWrite
  <2> QED  BY <1>12, <2>1, <2>2 DEF Child
<1>14. /\ child' = [child EXCEPT ![n] = c] /\ stdout' = [stdout EXCEPT ![n] = p]
       /\ stdin' = stdin /\ writing' = writing
  BY <1>2, <1>3, <1>10, <1>12 DEF childWrite
<1>15. PipeTypeOK'
  BY <1>6, <1>11, <1>13, <1>14 DEF PipeTypeOK
<1>16. child'[n] = c /\ stdout'[n] = p
  BY <1>6, <1>14
<1>17. RunOf(n)'
  <2>1. Left(n)' = Left(n) /\ Size(n)' = Size(n)
    BY <1>14 DEF Left, Size
  <2>2. Cut(n) => Cut(n)'
    BY <1>14 DEF Cut, Size, Exited
  <2>3. Given(n)' = Given(n)
    BY <1>13, <1>14, <1>16, <2>1 DEF Given
  <2>4. Input(n)'
    BY <1>5, <1>13, <1>14, <1>16, <2>1, <2>2, <2>3, ZenonT(30) DEF Input
  <2>5. PICK o : o = Out(n)
    OBVIOUS
  <2>6. x \in Token \cup {Banner} /\ o \in Texts /\ Len(o) = w
    <3>1. x \in Token \cup {Banner}
      BY <1>9, StreamAssumption
    <3>2. Out(n) \in Texts
      BY <1>1, <1>6 DEF Out, Texts
    <3> QED  BY <1>7, <2>5, <3>1, <3>2
  <2>7. Out(n)' = Append(o, x)
    <3>1. Out(n)' = cgiBuf[n] \o Append(b, x)
      BY <1>11, <1>16 DEF Out
    <3>2. PICK a : a = cgiBuf[n]
      OBVIOUS
    <3>3. a \in Seq(Token \cup {Banner}) /\ b \in Seq(Token \cup {Banner}) /\ o = a \o b
      BY <1>1, <1>6, <2>5, <3>2 DEF Out, Texts
    <3>4. a \o Append(b, x) = Append(a \o b, x)
      BY <2>6, <3>3, AppendOver
    <3> QED  BY <3>1, <3>2, <3>3, <3>4
  <2>8. PICK z : z = Append(o, x)
    OBVIOUS
  <2>9. Len(z) = w + 1 /\ (\A i \in 1..w : z[i] = o[i]) /\ z[w + 1] = x
    BY <2>6, <2>8 DEF Texts
  <2>10. Len(p.data) <= Capacity
    <3>1. Len(b) < Capacity /\ Len(b) \in Nat /\ Capacity \in Nat
      BY <1>1, <1>6, PipeAssumption DEF childWrite, Full, Texts
    <3>2. Len(p.data) = Len(b) + 1
      BY <1>6, <1>11 DEF Texts
    <3> QED  BY <3>1, <3>2
  <2>11. ASSUME child[n].prog # "blind"
         PROVE  /\ w + 1 <= Len(child[n].read) + 1
                /\ \A i \in 1..Len(z) : z[i] = IF i = 1 THEN Banner ELSE Tok("byte", n, i - 1)
    <3>1. \A i \in 1..w : o[i] = IF i = 1 THEN Banner ELSE Tok("byte", n, i - 1)
      BY <1>5, <1>7, <2>5, <2>11 DEF Output
    <3>2. w + 1 <= Len(child[n].read) + 1
      BY <1>6, <1>8, <2>11
    <3>3. ASSUME NEW i \in 1..Len(z)
          PROVE  z[i] = IF i = 1 THEN Banner ELSE Tok("byte", n, i - 1)
      <4>1. CASE i \in 1..w
        BY <2>9, <3>1, <4>1
      <4>2. CASE i = w + 1
        <5>1. z[i] = IF w = 0 THEN Banner ELSE Tok("byte", n, w)
          BY <1>9, <2>9, <2>11, <4>2
        <5>2. (w = 0 <=> i = 1) /\ i - 1 = w
          BY <1>6, <4>2
        <5> QED  BY <5>1, <5>2
      <4> QED  BY <1>6, <2>9, <4>1, <4>2
    <3> QED  BY <3>2, <3>3
  <2>12. Output(n)'
    <3>1. Out(n)' = z
      BY <2>7, <2>8
    <3> QED  BY <1>13, <1>16, <2>9, <2>10, <2>11, <3>1 DEF Output
  <2>13. Ended(n)'
    BY <1>7, <1>11, <1>13, <1>16 DEF Ended, Exited
  <2>14. LineTaken(n)'
    BY <1>5 DEF LineTaken, Stream
  <2> QED  BY <1>5, <1>13, <1>16, <2>4, <2>12, <2>13, <2>14 DEF RunOf, Started
<1>18. RunInv'
  <2>1. Stream' = Stream
    BY DEF Stream
  <2>2. \A m \in Runs \ {n} : stdout'[m] = stdout[m] /\ child'[m] = child[m]
    BY <1>6, <1>14
  <2>3. \A m \in Runs : Left(m)' = Left(m)
    BY <1>14 DEF Left
  <2>4. Exited(n) => Exited(n)'
    BY <1>4 DEF Exited
  <2> QED  BY <1>14, <1>17, <2>1, <2>2, <2>3, <2>4, StepOfRun DEF RunInv
<1> QED  BY <1>15, <1>18

\* A child that ends may cut the write for another run short, if the pipe is full.
LEMMA ChildExitRun ==
    ASSUME TypeOK, RunInv, StreamInv, up = "up", NEW n \in Runs, childExit(n),
           UNCHANGED <<sent, arrived, buf, cgiBuf, pc, up>>
    PROVE  PipeTypeOK' /\ RunInv'
<1>1. PICK c : c = [child[n] EXCEPT !.st = "exit"]
  OBVIOUS
<1>2. PICK W : W = writing.run
  OBVIOUS
<1>3. child[n].st = "run" /\ Started(n) /\ (child[n].prog # "blind" => ~Pending(n) /\ AtEof(n))
  BY DEF childExit, MayEnd, Started
<1>4. /\ child[n] \in Child /\ child \in [Runs -> Child]
      /\ stdin \in [Runs -> Pipe] /\ stdout \in [Runs -> Pipe]
      /\ writing \in [run: Runs \cup {0}, left: Seq(Bytes)]
      /\ writing = [run |-> W, left |-> writing.left]
  BY <1>2, PipeTypes DEF TypeOK, PipeTypeOK
<1>5. c \in Child /\ c.read = child[n].read /\ c.st = "exit" /\ c.prog = child[n].prog
      /\ c.wrote = child[n].wrote
  BY <1>1, <1>4 DEF Child
<1>6. /\ child' = [child EXCEPT ![n] = c] /\ stdin' = stdin /\ stdout' = stdout
      /\ writing' = interrupted(n)
  BY <1>1 DEF childExit
<1>7. child'[n] = c /\ \A m \in Runs \ {n} : child'[m] = child[m]
  BY <1>4, <1>6
<1>8. /\ writing'.run = W
      /\ writing' = writing \/ (Asleep /\ W # n /\ writing'.left = <<>>)
      /\ writing' \in [run: Runs \cup {0}, left: Seq(Bytes)]
  <2>1. CASE Asleep /\ writing.run # n
    <3>1. writing' = [run |-> W, left |-> <<>>]
      <4>1. writing' = [writing EXCEPT !.left = <<>>]
        BY <1>6, <2>1 DEF interrupted
      <4> QED  BY <1>4, <4>1
    <3>2. <<>> \in Seq(Bytes) /\ W \in Runs \cup {0}
      BY <1>2, <1>4
    <3> QED  BY <1>2, <2>1, <3>1, <3>2
  <2>2. CASE ~(Asleep /\ writing.run # n)
    <3>1. writing' = writing
      BY <1>6, <2>2 DEF interrupted
    <3>2. writing'.run = W
      BY <1>2, <3>1
    <3>3. writing \in [run: Runs \cup {0}, left: Seq(Bytes)]
      BY <1>4
    <3>4. writing' \in [run: Runs \cup {0}, left: Seq(Bytes)]
      BY <3>1, <3>3
    <3> QED  BY <3>1, <3>2, <3>4
  <2> QED  BY <2>1, <2>2
<1>9. PipeTypeOK'
  BY <1>4, <1>5, <1>6, <1>8 DEF PipeTypeOK
<1>10. \A i \in Runs : Exited(i) => Exited(i)'
  BY <1>5, <1>7 DEF Exited
<1>11. Exited(n)'
  BY <1>5, <1>7 DEF Exited
<1>12. \A m : LineTaken(m)' = LineTaken(m)
  BY DEF LineTaken, Stream
<1>13. RunOf(n)'
  <2>1. n <= Len(sent) /\ sent[n].req.kind = child[n].prog /\ LineTaken(n)
        /\ Input(n) /\ Output(n) /\ Ended(n)
    BY <1>3 DEF RunInv, RunOf
  <2>2. Left(n)' = Left(n) /\ Size(n)' = Size(n)
    BY <1>2, <1>8 DEF Left, Size
  <2>3. Cut(n) => Cut(n)'
    BY <1>10, <2>2 DEF Cut
  <2>4. Given(n)' = Given(n)
    BY <1>5, <1>6, <1>7, <2>2 DEF Given
  <2>5. Input(n)'
    <3>1. /\ \A i \in 1..Len(child[n].read) : child[n].read[i] = Tok("byte", n, i)
          /\ \A i \in 1..Len(stdin[n].data) :
                stdin[n].data[i] = Tok("byte", n, Len(child[n].read) + i)
          /\ \A i \in 1..Len(Left(n)) :
                Left(n)[i] = Tok("byte", n, Len(child[n].read) + Len(stdin[n].data) + i)
          /\ Given(n) <= Size(n) /\ (Given(n) = Size(n) \/ Cut(n))
          /\ (W = n => stdin[n].open) /\ Len(stdin[n].data) <= Capacity
      BY <1>2, <2>1 DEF Input
    <3>2. child'[n].read = child[n].read /\ stdin'[n] = stdin[n] /\ writing'.run = W
      BY <1>5, <1>6, <1>7, <1>8
    <3> QED  BY <2>2, <2>3, <2>4, <3>1, <3>2 DEF Input
  <2>6. Output(n)'
    BY <1>5, <1>6, <1>7, <2>1 DEF Output, Out
  <2>7. Ended(n)'
    <3>1. ASSUME child[n].prog # "blind"
          PROVE  child[n].wrote = Len(child[n].read) + 1 /\ stdin[n].data = <<>> /\ ~stdin[n].open
      <4>1. AtEof(n) /\ ~Pending(n)
        BY <1>3, <3>1
      <4>2. child[n].prog = "echo" \/ child[n].prog = "gather"
        BY <3>1, PipeTypes DEF Programs
      <4>3. ~(child[n].wrote <= Len(child[n].read))
        BY <4>1, <4>2 DEF Pending
      <4>4. child[n].wrote <= Len(child[n].read) + 1
        BY <1>3, <2>1, <3>1 DEF Ended, Output
      <4>5. child[n].wrote \in Nat /\ child[n].read \in Seq(Bytes)
        BY PipeTypes
      <4>6. Len(child[n].read) \in Nat
        BY <4>5
      <4> QED  BY <4>1, <4>3, <4>4, <4>5, <4>6 DEF AtEof
    <3> QED  BY <1>5, <1>6, <1>7, <3>1 DEF Ended, Exited
  <2> QED  BY <1>5, <1>7, <1>12, <2>1, <2>5, <2>6, <2>7 DEF RunOf, Started
<1>14. ASSUME NEW m \in Runs, m # n, ~(m = W /\ Asleep /\ writing'.left = <<>>)
       PROVE  RunOf(m)'
  <2>1. RunOf(m)
    BY DEF RunInv
  <2>2. Left(m)' = Left(m) /\ (writing'.run = m => writing.run = m)
    BY <1>2, <1>8, <1>14 DEF Left
  <2>3. Started(m) => m <= Len(sent')
    BY <2>1 DEF RunOf
  <2> QED  BY <1>6, <1>7, <1>10, <1>12, <1>14, <2>1, <2>2, <2>3, RunKept
<1>15. ASSUME W \in Runs, W # n, Asleep, writing'.left = <<>>
       PROVE  RunOf(W)'
  <2>1. writing.left # <<>> /\ Full(stdin[W]) /\ Left(W) = writing.left /\ W # 0
    BY <1>2, <1>15, PipeTypes DEF Asleep, Left
  <2>2. Started(W) /\ W \in SentUpTo
    <3>1. Started(W)
      BY <1>2, <2>1, WritingRun
    <3>2. W <= Len(sent)
      BY <1>15, <3>1 DEF RunInv, RunOf
    <3> QED  BY <1>15, <3>1, <3>2, TypesOf, PipeAssumption DEF SentUpTo
  <2>3. W <= Len(sent) /\ sent[W].req.kind = child[W].prog /\ LineTaken(W)
        /\ Input(W) /\ Output(W) /\ Ended(W)
    BY <1>15, <2>2 DEF RunInv, RunOf
  <2>4. PICK r, d, l : r = Len(child[W].read) /\ d = Len(stdin[W].data) /\ l = Len(Left(W))
    OBVIOUS
  <2>5. r \in Nat /\ d \in Nat /\ l \in Nat \ {0} /\ Capacity \in Nat /\ d >= Capacity
        /\ Size(W) \in Nat /\ r + d + l <= Size(W)
    <3>1. child[W].read \in Seq(Bytes) /\ stdin[W].data \in Seq(Bytes \cup {Banner})
          /\ Left(W) \in Seq(Bytes) /\ Left(W) # <<>>
      BY <1>15, <2>1, PipeTypes
    <3>2. r + d + l <= Size(W)
      BY <2>3, <2>4 DEF Input, Given
    <3>3. r \in Nat /\ d \in Nat /\ l \in Nat \ {0}
      BY <2>4, <3>1
    <3>4. d >= Capacity /\ Capacity \in Nat /\ Size(W) \in Nat
      BY <2>1, <2>2, <2>4, TypesOf, PipeAssumption DEF Full
    <3> QED  BY <3>2, <3>3, <3>4
  <2>6. Left(W)' = <<>> /\ Size(W)' = Size(W)
    BY <1>8, <1>15 DEF Left, Size
  <2>7. Cut(W)'
    <3>1. Size(W) > Capacity
      BY <2>5
    <3> QED  BY <1>11, <1>15, <2>6, <3>1 DEF Cut
  <2>8. Given(W)' = r + d + 0
    BY <1>6, <1>7, <1>15, <2>4, <2>6 DEF Given
  <2>9. Given(W)' <= Size(W)
    BY <2>5, <2>8
  <2>10. Input(W)'
    BY <1>2, <1>6, <1>7, <1>15, <2>3, <2>6, <2>7, <2>9 DEF Input
  <2>11. Output(W)'
    BY <1>6, <1>7, <1>15, <2>3 DEF Output, Out
  <2>12. Ended(W)'
    BY <1>6, <1>7, <1>15, <2>3 DEF Ended, Exited
  <2> QED  BY <1>7, <1>12, <1>15, <2>2, <2>3, <2>10, <2>11, <2>12 DEF RunOf, Started
<1>16. \A m \in Runs : RunOf(m)'
  BY <1>13, <1>14, <1>15
<1> QED  BY <1>2, <1>8, <1>9, <1>16 DEF RunInv

\* A program starts with nothing read and nothing written, and its whole body to be given.
LEMMA RequestCgiRun ==
    ASSUME TypeOK, RunInv, StreamInv, DispatchInv, RequestCgi
    PROVE  PipeTypeOK' /\ RunInv'
<1>1. PICK n : n = request[1].of
  OBVIOUS
<1>2. PICK prog : prog = Kind
  OBVIOUS
<1>3. PICK body : body = requestBody(request)
  OBVIOUS
<1>4. /\ pc = "dispatch" /\ pc' = "loop" /\ up = "up" /\ request[1].t = "line" /\ prog \in Programs
      /\ run(n, prog, body) /\ UNCHANGED <<sent, arrived, buf, cgiBuf, up>>
  BY <1>1, <1>2, <1>3 DEF RequestCgi, Dispatching, badRequestLine
<1>5. /\ n \in SentUpTo /\ body = Body(n, Size(n)) /\ child[n].st = "none" /\ LineTaken(n)
      /\ prog = sent[n].req.kind
  BY <1>1, <1>2, <1>3, <1>4 DEF DispatchInv, Kind
<1>6. /\ n \in Runs /\ Size(n) \in Nat /\ body \in Seq(Bytes) /\ Len(body) = Size(n)
      /\ \A i \in 1..Size(n) : body[i] = Tok("byte", n, i)
  BY <1>5, BodyBytes
<1>7. writing.run = 0 /\ NotStarted(n)
  BY <1>4, <1>5, <1>6 DEF RunInv, RunOf, Started
<1>8. PICK c : c = [child[n] EXCEPT !.st = "run", !.prog = prog]
  OBVIOUS
<1>9. PICK p : p = [stdin[n] EXCEPT !.open = TRUE]
  OBVIOUS
<1>10. PICK q : q = [stdout[n] EXCEPT !.open = TRUE]
  OBVIOUS
<1>11. /\ child[n] \in Child /\ stdin[n] \in Pipe /\ stdout[n] \in Pipe
       /\ child \in [Runs -> Child] /\ stdin \in [Runs -> Pipe] /\ stdout \in [Runs -> Pipe]
  BY <1>6, PipeTypes DEF TypeOK, PipeTypeOK
<1>12. c \in Child /\ c.st = "run" /\ c.prog = prog /\ c.read = <<>> /\ c.wrote = 0
  BY <1>4, <1>7, <1>8, <1>11 DEF Child, NotStarted
<1>13. /\ p \in Pipe /\ p.open = TRUE /\ p.data = <<>>
       /\ q \in Pipe /\ q.open = TRUE /\ q.data = <<>>
  BY <1>7, <1>9, <1>10, <1>11 DEF Pipe, NotStarted
<1>14. /\ child' = [child EXCEPT ![n] = c] /\ stdin' = [stdin EXCEPT ![n] = p]
       /\ stdout' = [stdout EXCEPT ![n] = q] /\ writing' = [run |-> n, left |-> body]
  BY <1>4, <1>8, <1>9, <1>10 DEF run
<1>15. PipeTypeOK'
  BY <1>6, <1>11, <1>12, <1>13, <1>14 DEF PipeTypeOK
<1>16. child'[n] = c /\ stdin'[n] = p /\ stdout'[n] = q /\ cgiBuf'[n] = <<>>
  BY <1>4, <1>6, <1>7, <1>11, <1>14 DEF NotStarted
<1>17. RunOf(n)'
  <2>1. Left(n)' = body /\ Size(n)' = Size(n)
    BY <1>4, <1>14 DEF Left, Size
  <2>2. Given(n)' = Size(n)
    <3>1. Given(n)' = Len(<<>>) + Len(<<>>) + Len(body)
      BY <1>12, <1>13, <1>16, <2>1 DEF Given
    <3>2. Len(<<>>) = 0
      OBVIOUS
    <3> QED  BY <1>6, <3>1, <3>2
  <2>3. Input(n)'
    <3>1. \A i \in 1..Len(body) : body[i] = Tok("byte", n, 0 + 0 + i)
      BY <1>6
    <3>2. Len(<<>>) = 0 /\ 0 <= Capacity /\ Size(n) <= Size(n) /\ 1..0 = {}
      BY <1>6, PipeAssumption
    <3> QED  BY <1>12, <1>13, <1>16, <2>1, <2>2, <3>1, <3>2 DEF Input
  <2>4. Output(n)'
    <3>1. Out(n)' = <<>> \o <<>>
      BY <1>13, <1>16 DEF Out
    <3>2. <<>> \o <<>> = <<>> /\ Len(<<>>) = 0 /\ 0 <= Capacity /\ 0 <= 0 + 1 /\ 1..0 = {}
      BY PipeAssumption
    <3> QED  BY <1>12, <1>13, <1>16, <3>1, <3>2 DEF Output
  <2>5. Ended(n)'
    BY <1>12, <1>13, <1>16 DEF Ended, Exited
  <2>6. LineTaken(n)' /\ n <= Len(sent)
    BY <1>4, <1>5, TypesOf DEF LineTaken, Stream, SentUpTo
  <2> QED
    BY <1>4, <1>5, <1>12, <1>16, <2>3, <2>4, <2>5, <2>6 DEF RunOf, Started
<1>18. ASSUME NEW m \in Runs, m # n PROVE RunOf(m)'
  <2>1. RunOf(m)
    BY DEF RunInv
  <2>2. /\ child'[m] = child[m] /\ stdin'[m] = stdin[m] /\ stdout'[m] = stdout[m]
        /\ cgiBuf'[m] = cgiBuf[m]
    BY <1>4, <1>11, <1>14, <1>18
  <2>3. Left(m)' = Left(m) /\ writing'.run # m
    <3>1. writing.run # m
      BY <1>7, PipeAssumption
    <3> QED  BY <1>14, <1>18, <3>1 DEF Left
  <2>4. \A i \in Runs : Exited(i) => Exited(i)'
    BY <1>5, <1>11, <1>14 DEF Exited
  <2>5. Started(m) => m <= Len(sent)
    BY <2>1 DEF RunOf
  <2>6. LineTaken(m)' = LineTaken(m)
    BY <1>4 DEF LineTaken, Stream
  <2> QED  BY <1>4, <2>1, <2>2, <2>3, <2>4, <2>5, <2>6, RunKept
<1>19. writing'.run = n /\ n # 0
  BY <1>6, <1>14, PipeAssumption
<1> QED  BY <1>4, <1>15, <1>17, <1>18, <1>19 DEF RunInv

-----------------------------------------------------------------------------
(* Every step keeps the types, the stream, what is dispatched and the runs. *)

\* The requests that were sent stay what they are.
Longer ==
    /\ Len(sent) \in Nat /\ Len(sent') \in Nat /\ Len(sent) <= Len(sent')
    /\ \A n \in SentUpTo : n \in SentUpTo' /\ sent'[n] = sent[n]

LEMMA SentIs ==
    ASSUME TypeOK, NEW r \in Response
    PROVE  /\ getResponse(r) \in Response
           /\ getResponse(r).code = r.code /\ getResponse(r).of = r.of
           /\ getResponse(r).body =
                 IF r.body = <<>> THEN <<>> ELSE <<Tok("CRLF", r.of, 0)>> \o r.body
           /\ Sent(r) \in Seq(Response)
           /\ \A i \in DOMAIN Sent(r) : \/ i \in DOMAIN got /\ Sent(r)[i] = got[i]
                                        \/ Sent(r)[i] = getResponse(r)
<1>1. r.code \in {200, 400, 413} /\ r.of \in Runs /\ r.body \in Texts
      /\ r = [code |-> r.code, of |-> r.of, body |-> r.body]
  BY DEF Response
<1>2. PICK b : b = <<Tok("CRLF", r.of, 0)>> \o r.body
  OBVIOUS
<1>3. b \in Texts
  <2>1. r.of \in Nat /\ 0 \in Int
    BY <1>1, PipeAssumption
  <2>2. Tok("CRLF", r.of, 0) \in Token
    BY <2>1 DEF Tok, Token
  <2>3. <<Tok("CRLF", r.of, 0)>> \in Texts
    BY <2>2 DEF Texts
  <2> QED  BY <1>1, <1>2, <2>3 DEF Texts
<1>4. CgiResponse(r) = [code |-> r.code, of |-> r.of, body |-> b]
  <2>1. CgiResponse(r) = [r EXCEPT !.body = b]
    BY <1>2 DEF CgiResponse
  <2> QED  BY <1>1, <2>1
<1>5. /\ getResponse(r) \in Response
      /\ getResponse(r).code = r.code /\ getResponse(r).of = r.of
      /\ getResponse(r).body = IF r.body = <<>> THEN <<>> ELSE b
  <2>1. CASE r.body = <<>>
    BY <2>1 DEF getResponse
  <2>2. CASE r.body # <<>>
    <3>1. getResponse(r) = [code |-> r.code, of |-> r.of, body |-> b]
      BY <1>4, <2>2 DEF getResponse
    <3> QED  BY <1>1, <1>3, <2>2, <3>1 DEF Response
  <2> QED  BY <2>1, <2>2
<1>6. PICK a : a = getResponse(r)
  OBVIOUS
<1>7. Sent(r) = IF Len(got) < MaxGot THEN Append(got, a) ELSE got
  BY <1>6 DEF Sent
<1>8. got \in Seq(Response) /\ a \in Response
  BY <1>5, <1>6 DEF TypeOK
<1>9. /\ Sent(r) \in Seq(Response)
      /\ \A i \in DOMAIN Sent(r) : (i \in DOMAIN got /\ Sent(r)[i] = got[i]) \/ Sent(r)[i] = a
  <2>1. CASE Len(got) < MaxGot
    <3>1. Sent(r) = Append(got, a)
      BY <1>7, <2>1
    <3>2. Append(got, a) \in Seq(Response) /\ Len(Append(got, a)) = Len(got) + 1
          /\ (\A i \in 1..Len(got) : Append(got, a)[i] = got[i])
          /\ Append(got, a)[Len(got) + 1] = a /\ Len(got) \in Nat /\ DOMAIN got = 1..Len(got)
          /\ DOMAIN Append(got, a) = 1..(Len(got) + 1)
      BY <1>8
    <3>3. \A i \in 1..(Len(got) + 1) : i \in 1..Len(got) \/ i = Len(got) + 1
      BY <3>2
    <3> QED  BY <3>1, <3>2, <3>3
  <2>2. CASE ~(Len(got) < MaxGot)
    BY <1>7, <1>8, <2>2
  <2> QED  BY <2>1, <2>2
<1> QED  BY <1>2, <1>5, <1>6, <1>9

\* What the server answers of its own.
LEMMA AnswerIs ==
    ASSUME NEW n \in Runs, NEW code \in {200, 400, 413}
    PROVE  errorResponse(code, n) \in Response /\ errorResponse(code, n).of = n
           /\ errorResponse(code, n).code = code /\ errorResponse(code, n).body = <<>>
BY DEF errorResponse, Response, Texts

\* Requests are sent or taken, and the runs go on.
LEMMA RunsRest ==
    ASSUME TypeOK, RunInv, Longer, UNCHANGED <<pipeVars, cgiBuf>>, up' # "SIGPIPE" \/ up' = up,
           pc' = "loop" \/ pc' = pc \/ writing.run = 0,
           \A n \in SentUpTo : LineTaken(n) => LineTaken(n)'
    PROVE  RunInv'
<1>1. /\ child' = child /\ stdin' = stdin /\ stdout' = stdout /\ writing' = writing
      /\ cgiBuf' = cgiBuf
  BY DEF pipeVars
<1>2. ASSUME NEW m \in Runs PROVE RunOf(m)'
  <2>1. RunOf(m)
    BY DEF RunInv
  <2>2. Started(m) => m \in SentUpTo
    BY <2>1, TypesOf, PipeAssumption DEF RunOf, SentUpTo
  <2>3. Started(m) => m <= Len(sent') /\ sent'[m] = sent[m] /\ (LineTaken(m) => LineTaken(m)')
    BY <2>2 DEF Longer, SentUpTo
  <2>4. Left(m)' = Left(m) /\ \A i \in Runs : Exited(i) => Exited(i)'
    BY <1>1 DEF Left, Exited
  <2> QED  BY <1>1, <2>1, <2>3, <2>4, RunKept
<1>3. up' = "SIGPIPE" => Broken'
  BY <1>1 DEF RunInv, Broken
<1> QED  BY <1>1, <1>2, <1>3 DEF RunInv

\* A request that is being dispatched is until it has been.
LEMMA DispatchKept ==
    ASSUME TypeOK, StreamInv, DispatchInv, Longer, taken' = taken, pc' = pc \/ pc' # "dispatch",
           \A n \in SentUpTo : LineTaken(n) => LineTaken(n)',
           \A n \in Runs : child[n].st = "none" => child'[n].st = "none"
    PROVE  DispatchInv'
<1>1. request' = request
  BY DEF request
<1>2. ASSUME pc = "dispatch", request[1].t = "line", NEW n, n = request[1].of
      PROVE  requestBody(request) = Body(n, Size(n)') /\ child'[n].st = "none" /\ LineTaken(n)'
  <2>1. n \in SentUpTo /\ requestBody(request) = Body(n, Size(n)) /\ child[n].st = "none"
        /\ LineTaken(n)
    BY <1>2 DEF DispatchInv
  <2>2. n \in Runs /\ sent'[n] = sent[n]
    BY <2>1, RunsAre DEF Longer
  <2> QED  BY <2>1, <2>2 DEF Size
<1>3. pc = "dispatch" => taken # <<>> /\ request # <<>> /\ request[1].of \in SentUpTo'
  BY DEF DispatchInv, Longer
<1>4. PICK q : q = request
  OBVIOUS
<1> QED  BY <1>1, <1>2, <1>3, <1>4 DEF DispatchInv, Size

LEMMA Same ==
    ASSUME TypeOK, sent' = sent
    PROVE  Longer
BY TypesOf DEF Longer, SentUpTo

\* Nothing but the queue and what is told the client changes.
LEMMA Resting ==
    ASSUME IInv, UNCHANGED <<sent, buf, arrived, taken, pipeVars, cgiBuf>>,
           pc' = "loop" \/ pc' = pc, up' # "SIGPIPE" \/ up' = up
    PROVE  StreamInv' /\ DispatchInv' /\ RunInv' /\ PipeTypeOK'
<1> USE DEF IInv
<1>1. StreamInv' /\ \A n : LineTaken(n) => LineTaken(n)'
  BY StreamStays
<1>2. child' = child /\ stdin' = stdin /\ stdout' = stdout /\ writing' = writing
  BY DEF pipeVars
<1>3. Longer
  BY Same
<1>4. DispatchInv'
  BY <1>1, <1>2, <1>3, DispatchKept
<1>5. RunInv'
  BY <1>1, <1>3, RunsRest
<1>6. PipeTypeOK'
  BY <1>2 DEF TypeOK, PipeTypeOK
<1> QED  BY <1>1, <1>4, <1>5, <1>6

LEMMA SendKeeps ==
    ASSUME IInv, NEW r \in Requests, Send(r)
    PROVE  IInv' /\ Longer
<1> USE DEF IInv
<1>1. /\ StreamInv' /\ arrived' \in Seq(Token) /\ sent' \in Seq([req: Requests, waited: BOOLEAN])
      /\ Len(sent') = Len(sent) + 1
      /\ \A n \in SentUpTo : n \in SentUpTo' /\ sent'[n] = sent[n] /\ (LineTaken(n) => LineTaken(n)')
  BY SendStream
<1>2. UNCHANGED <<buf, taken, cgiBuf, queue, got, pc, up, pipeVars>>
  BY DEF Send
<1>3. Longer
  BY <1>1, TypesOf DEF Longer
<1>4. child' = child /\ stdin' = stdin /\ stdout' = stdout /\ writing' = writing
  BY <1>2 DEF pipeVars
<1>5. DispatchInv'
  BY <1>1, <1>2, <1>3, <1>4, DispatchKept
<1>6. RunInv'
  BY <1>1, <1>2, <1>3, RunsRest
<1>7. TypeOK'
  BY <1>1, <1>2, <1>4 DEF TypeOK, PipeTypeOK
<1> QED  BY <1>1, <1>3, <1>5, <1>6, <1>7

LEMMA ReceiveKeeps ==
    ASSUME IInv, NEW k \in 1..Len(arrived), Receive(k)
    PROVE  IInv' /\ Stream' = Stream
<1> USE DEF IInv
<1>1. buf \in Seq(Token) /\ arrived \in Seq(Token)
  BY TypesOf
<1>2. /\ pc' = "process" /\ pc = "loop" /\ writing.run = 0 /\ up = "up"
      /\ UNCHANGED <<sent, taken, cgiBuf, queue, got, up, pipeVars>>
      /\ buf' = buf \o SubSeq(arrived, 1, k) /\ arrived' = SubSeq(arrived, k + 1, Len(arrived))
  BY DEF Receive, Looping
<1>3. buf' \in Seq(Token) /\ arrived' \in Seq(Token) /\ buf' \o arrived' = buf \o arrived
  <2>1. SubSeq(arrived, 1, k) \in Seq(Token) /\ SubSeq(arrived, k + 1, Len(arrived)) \in Seq(Token)
    BY <1>1
  <2>2. PICK a : a = buf
    OBVIOUS
  <2>3. PICK b : b = arrived
    OBVIOUS
  <2>4. a \in Seq(Token) /\ b \in Seq(Token) /\ k \in 1..Len(b)
    BY <1>1, <2>2, <2>3
  <2>5. (a \o SubSeq(b, 1, k)) \o SubSeq(b, k + 1, Len(b)) = a \o b
    BY <2>4, MoveOver
  <2>6. buf' = a \o SubSeq(b, 1, k) /\ arrived' = SubSeq(b, k + 1, Len(b))
    BY <1>2, <2>2, <2>3
  <2>7. buf' \o arrived' = buf \o arrived
    BY <2>2, <2>3, <2>5, <2>6
  <2>8. buf' \in Seq(Token) /\ arrived' \in Seq(Token)
    BY <1>1, <1>2, <2>1
  <2> QED  BY <2>7, <2>8
<1>4. StreamInv' /\ \A n : LineTaken(n) => LineTaken(n)'
  BY <1>2, <1>3, StreamStays
<1>5. child' = child /\ stdin' = stdin /\ stdout' = stdout /\ writing' = writing /\ Longer
  BY <1>2, Same DEF pipeVars
<1>6. DispatchInv'
  BY <1>2, <1>4, <1>5, DispatchKept
<1>7. RunInv'
  BY <1>2, <1>4, <1>5, RunsRest
<1>8. TypeOK'
  BY <1>2, <1>3, <1>5 DEF TypeOK, PipeTypeOK
<1> QED  BY <1>3, <1>4, <1>6, <1>7, <1>8 DEF Stream

LEMMA TakeKeeps ==
    ASSUME IInv, TakeRequest
    PROVE  IInv'
<1> USE DEF IInv
<1>1. /\ StreamInv' /\ (\A n : LineTaken(n) => LineTaken(n)')
      /\ buf' \in Seq(Token) /\ taken' \in Seq(Seq(Token)) /\ arrived' = arrived /\ sent' = sent
  BY TakeStream
<1>2. DispatchInv'
  BY TakeDispatch
<1>3. pc = "process" /\ pc' = "dispatch" /\ UNCHANGED <<cgiBuf, queue, got, up, pipeVars>>
  BY DEF TakeRequest, Processing
<1>4. writing.run = 0
  BY <1>3 DEF RunInv
<1>5. child' = child /\ stdin' = stdin /\ stdout' = stdout /\ writing' = writing /\ Longer
  BY <1>1, <1>3, Same DEF pipeVars
<1>6. RunInv'
  BY <1>1, <1>3, <1>4, <1>5, RunsRest
<1>7. TypeOK'
  BY <1>1, <1>3, <1>5 DEF TypeOK, PipeTypeOK
<1> QED  BY <1>1, <1>2, <1>6, <1>7

\* A body that is too large is announced by a token in the buffer.
LEMMA LargeFront ==
    ASSUME IInv, TooLarge
    PROVE  /\ buf # <<>> /\ buf[1].of \in SentUpTo /\ buf[1].of \in Runs
           /\ 1 \in DOMAIN Stream /\ Stream[1] = buf[1]
           /\ headerEnd(buf) # npos /\ contentLengthPos(buf) # npos
           /\ Last(buf).of \in SentUpTo /\ Last(buf).of \in Runs
           /\ buf[1].of <= Last(buf).of
<1> USE DEF IInv
<1>1. getBodySize(buf) # 0
  BY ExchangeAssumption DEF TooLarge
<1>2. headerEnd(buf) # npos /\ contentLengthPos(buf) # npos
  BY <1>1 DEF getBodySize
<1>3. Len(buf) # 0
  <2>1. ASSUME Len(buf) = 0 PROVE FALSE
    <3>1. DOMAIN buf = {}
      BY <2>1, BufferIsFront
    <3>2. {p \in DOMAIN buf : buf[p].t = "CL"} = {}
      BY <3>1
    <3> QED  BY <1>2, <3>2, FindLeast DEF contentLengthPos
  <2> QED  BY <2>1
<1>4. 1 \in DOMAIN Stream /\ Stream[1] = buf[1] /\ buf # <<>>
  BY <1>3, BufferIsFront
<1>5. buf[1].of \in SentUpTo
  BY <1>4 DEF StreamInv, Orderly, Genuine
<1>6. PICK l : l = Len(buf)
  OBVIOUS
<1>7. /\ l \in Nat /\ l \in DOMAIN Stream /\ Stream[l] = Last(buf)
      /\ l = 1 \/ 1 < l
  <2>1. l \in Nat /\ l # 0
    BY <1>3, <1>6, BufferIsFront
  <2>2. l \in 1..Len(buf)
    BY <1>6, <2>1
  <2> QED  BY <1>6, <2>1, <2>2, BufferIsFront DEF Last
<1>8. Last(buf).of \in SentUpTo
  BY <1>7 DEF StreamInv, Orderly, Genuine
<1>9. buf[1].of <= Last(buf).of
  <2>1. CASE l = 1
    <3>1. Last(buf) = buf[1] /\ buf[1].of \in Nat
      BY <1>4, <1>5, <1>7, <2>1 DEF SentUpTo
    <3> QED  BY <3>1
  <2>2. CASE 1 < l
    BY <1>4, <1>7, <2>2 DEF StreamInv, Orderly, Ordered
  <2> QED  BY <1>7, <2>1, <2>2
<1> QED  BY <1>2, <1>4, <1>5, <1>8, <1>9, RunsAre

LEMMA TooLargeKeeps ==
    ASSUME IInv, RequestTooLarge
    PROVE  IInv'
<1> USE DEF IInv
<1>1. PICK n : n = Last(buf).of
  OBVIOUS
<1>2. n \in Runs
  BY <1>1, LargeFront DEF RequestTooLarge
<1>3. /\ pc' = "loop" /\ UNCHANGED <<sent, buf, arrived, taken, pipeVars, cgiBuf, queue, up>>
      /\ got' = Sent(errorResponse(413, n))
  BY <1>1 DEF RequestTooLarge, Processing
<1>4. got' \in Seq(Response)
  <2>1. PICK x : x = errorResponse(413, n)
    OBVIOUS
  <2>2. x \in Response
    BY <1>2, <2>1, AnswerIs
  <2> QED  BY <1>3, <2>1, <2>2, SentIs, ZenonT(30)
<1>5. StreamInv' /\ DispatchInv' /\ RunInv' /\ PipeTypeOK'
  BY <1>3, Resting
<1>6. TypeOK'
  BY <1>3, <1>4, <1>5 DEF TypeOK
<1> QED  BY <1>5, <1>6

LEMMA ProcessingKeeps ==
    ASSUME IInv, RequestIncomplete \/ GetRequestThrows
    PROVE  IInv'
<1> USE DEF IInv
<1>1. /\ pc' = "loop" /\ UNCHANGED <<sent, buf, arrived, taken, pipeVars, cgiBuf, queue, got>>
      /\ up' \in {"up", "getRequest"}
  BY DEF RequestIncomplete, GetRequestThrows, Processing
<1>2. StreamInv' /\ DispatchInv' /\ RunInv' /\ PipeTypeOK'
  BY <1>1, Resting
<1>3. TypeOK'
  BY <1>1, <1>2 DEF TypeOK
<1> QED  BY <1>2, <1>3

LEMMA BadRequestKeeps ==
    ASSUME IInv, BadRequest
    PROVE  IInv'
<1> USE DEF IInv
<1>1. PICK n : n = request[1].of
  OBVIOUS
<1>2. n \in Runs
  BY <1>1, RunsAre DEF BadRequest, Dispatching, DispatchInv
<1>3. /\ pc' = "loop" /\ UNCHANGED <<sent, buf, arrived, taken, pipeVars, cgiBuf, queue, up>>
      /\ got' = Sent(errorResponse(400, n))
  BY <1>1 DEF BadRequest, Dispatching
<1>4. got' \in Seq(Response)
  <2>1. PICK x : x = errorResponse(400, n)
    OBVIOUS
  <2>2. x \in Response
    BY <1>2, <2>1, AnswerIs
  <2> QED  BY <1>3, <2>1, <2>2, SentIs, ZenonT(30)
<1>5. StreamInv' /\ DispatchInv' /\ RunInv' /\ PipeTypeOK'
  BY <1>3, Resting
<1>6. TypeOK'
  BY <1>3, <1>4, <1>5 DEF TypeOK
<1> QED  BY <1>5, <1>6

LEMMA StaticKeeps ==
    ASSUME IInv, RequestStatic
    PROVE  IInv'
<1> USE DEF IInv
<1>1. PICK n : n = request[1].of
  OBVIOUS
<1>2. n \in Runs
  BY <1>1, RunsAre DEF RequestStatic, Dispatching, DispatchInv
<1>3. PICK x : x = [code |-> 200, of |-> n, body |-> <<>>]
  OBVIOUS
<1>4. x \in Response
  BY <1>2, <1>3 DEF Response, Texts
<1>5. /\ pc' = "loop" /\ UNCHANGED <<sent, buf, arrived, taken, pipeVars, cgiBuf, got, up>>
      /\ queue' = Append(queue, x)
  BY <1>1, <1>3 DEF RequestStatic, Dispatching
<1>6. queue' \in Seq(Response)
  BY <1>4, <1>5 DEF TypeOK
<1>7. StreamInv' /\ DispatchInv' /\ RunInv' /\ PipeTypeOK'
  BY <1>5, Resting
<1>8. TypeOK'
  BY <1>5, <1>6, <1>7 DEF TypeOK
<1> QED  BY <1>7, <1>8

LEMMA SendResponseKeeps ==
    ASSUME IInv, SendResponse
    PROVE  IInv'
<1> USE DEF IInv
<1>1. PICK x : x = Head(queue)
  OBVIOUS
<1>2. queue \in Seq(Response) /\ queue # <<>>
  BY DEF TypeOK, SendResponse
<1>3. x \in Response /\ Tail(queue) \in Seq(Response)
  BY <1>1, <1>2
<1>4. /\ UNCHANGED <<sent, buf, arrived, taken, pipeVars, cgiBuf, pc, up>>
      /\ queue' = Tail(queue) /\ got' = Sent(x)
  BY <1>1 DEF SendResponse
<1>5. got' \in Seq(Response)
  BY <1>3, <1>4, SentIs
<1>6. StreamInv' /\ DispatchInv' /\ RunInv' /\ PipeTypeOK'
  BY <1>4, Resting
<1>7. TypeOK'
  BY <1>3, <1>4, <1>5, <1>6 DEF TypeOK
<1> QED  BY <1>6, <1>7

\* What happens in the pipes does not touch the stream.
LEMMA PipesKeep ==
    ASSUME IInv, PipeTypeOK', RunInv', cgiBuf' \in [Runs -> Texts], queue' \in Seq(Response),
           UNCHANGED <<sent, buf, arrived, taken, got, up>>, pc' = pc \/ pc' = "loop",
           \A n \in Runs : child[n].st = "none" => child'[n].st = "none" \/ pc' = "loop"
    PROVE  IInv'
<1> USE DEF IInv
<1>1. StreamInv' /\ \A n : LineTaken(n) => LineTaken(n)'
  BY StreamStays
<1>2. TypeOK'
  BY DEF TypeOK
<1>3. DispatchInv'
  <2>1. CASE pc' = "loop"
    BY <2>1 DEF DispatchInv
  <2>2. CASE pc' = pc /\ pc' # "loop"
    <3>1. \A n \in Runs : child[n].st = "none" => child'[n].st = "none"
      BY <2>2
    <3> QED  BY <1>1, <2>2, <3>1, Same, DispatchKept
  <2> QED  BY <2>1, <2>2
<1> QED  BY <1>1, <1>2, <1>3

LEMMA RequestCgiKeeps ==
    ASSUME IInv, RequestCgi
    PROVE  IInv'
<1>1. PipeTypeOK' /\ RunInv'
  BY RequestCgiRun DEF IInv
<1>2. UNCHANGED <<sent, buf, arrived, taken, got, up, queue, cgiBuf>> /\ pc' = "loop"
  BY DEF RequestCgi, Dispatching
<1> QED  BY <1>1, <1>2, PipesKeep DEF IInv, TypeOK

LEMMA CgiOutputKeeps ==
    ASSUME IInv, NEW n \in Runs, CgiEof(n) \/ \E k \in 1..Capacity : CgiData(n, k)
    PROVE  IInv'
<1> USE DEF IInv
<1>1. UNCHANGED <<sent, buf, arrived, taken, got, up, child>> /\ pc = "loop" /\ pc' = pc
  BY DEF CgiEof, CgiData, Looping
<1>2. CASE CgiEof(n)
  <2>1. PipeTypeOK' /\ cgiBuf' \in [Runs -> Texts] /\ RunInv'
    BY <1>2, CgiEofRun
  <2>2. PICK x : x = [code |-> 200, of |-> n, body |-> cgiBuf[n]]
    OBVIOUS
  <2>3. x \in Response /\ queue \in Seq(Response)
    BY <2>2 DEF Response, TypeOK
  <2>4. queue' = IF cgiBuf[n] = <<>> THEN queue ELSE Append(queue, x)
    BY <1>2, <2>2 DEF CgiEof
  <2>5. queue' \in Seq(Response)
    BY <2>3, <2>4
  <2> QED  BY <1>1, <2>1, <2>5, PipesKeep
<1>3. CASE \E k \in 1..Capacity : CgiData(n, k)
  <2>1. PICK k \in 1..Capacity : CgiData(n, k)
    BY <1>3
  <2>2. k \in Nat
    BY PipeAssumption
  <2>3. PipeTypeOK' /\ cgiBuf' \in [Runs -> Texts] /\ RunInv'
    BY <2>1, <2>2, CgiDataRun
  <2>4. queue' \in Seq(Response)
    BY <2>1 DEF CgiData, TypeOK
  <2> QED  BY <1>1, <2>3, <2>4, PipesKeep
<1> QED  BY <1>2, <1>3

LEMMA RunKeeps ==
    ASSUME IInv, Run
    PROVE  IInv'
<1> USE DEF IInv
<1>1. up = "up" /\ UNCHANGED <<sent, arrived, buf, taken, cgiBuf, queue, got, pc>>
  BY DEF Run
<1>2. CASE (writeBody \/ returnFromRun) /\ UNCHANGED up
  <2>1. PipeTypeOK' /\ RunInv' /\ child' = child
    BY <1>1, <1>2, WriteBodyRun, ReturnRun DEF writeBody, returnFromRun
  <2> QED  BY <1>1, <1>2, <2>1, PipesKeep DEF TypeOK
<1>3. CASE Broken /\ up' = "SIGPIPE" /\ UNCHANGED pipeVars
  <2>1. child' = child /\ stdin' = stdin /\ stdout' = stdout /\ writing' = writing
    BY <1>3 DEF pipeVars
  <2>2. StreamInv' /\ \A n : LineTaken(n) => LineTaken(n)'
    BY <1>1, StreamStays
  <2>3. DispatchInv'
    BY <1>1, <2>1, <2>2, Same, DispatchKept
  <2>4. \A m \in Runs : RunOf(m)'
    <3> TAKE m \in Runs
    <3>1. RunOf(m)
      BY DEF RunInv
    <3>2. Started(m) => m <= Len(sent')
      BY <1>1, <3>1 DEF RunOf
    <3>3. Left(m)' = Left(m) /\ \A i \in Runs : Exited(i) => Exited(i)'
      BY <2>1 DEF Left, Exited
    <3> QED  BY <1>1, <2>1, <2>2, <3>1, <3>2, <3>3, RunKept
  <2>5. Broken'
    BY <1>3, <2>1 DEF Broken
  <2>6. RunInv'
    BY <1>1, <2>1, <2>4, <2>5 DEF RunInv
  <2>7. TypeOK'
    BY <1>1, <1>3, <2>1 DEF TypeOK, PipeTypeOK
  <2> QED  BY <2>2, <2>3, <2>6, <2>7
<1> QED  BY <1>2, <1>3 DEF Run

LEMMA CgiKeeps ==
    ASSUME IInv, NEW n \in Runs, Cgi(n)
    PROVE  IInv'
<1> USE DEF IInv
<1>1. up = "up" /\ UNCHANGED <<sent, arrived, buf, taken, cgiBuf, queue, got, pc, up>>
      /\ (childRead(n) \/ childWrite(n) \/ childExit(n))
  BY DEF Cgi, Process
<1>2. PipeTypeOK' /\ RunInv'
  BY <1>1, ChildReadRun, ChildWriteRun, ChildExitRun
<1>3. \A m \in Runs : child[m].st = "none" => child'[m].st = "none"
  <2>1. child[n].st = "run" /\ child \in [Runs -> Child]
    BY <1>1 DEF childRead, childWrite, childExit, TypeOK, PipeTypeOK
  <2>2. \A m \in Runs \ {n} : child'[m] = child[m]
    BY <1>1, <2>1 DEF childRead, childWrite, childExit
  <2> QED  BY <2>1, <2>2
<1> QED  BY <1>1, <1>2, <1>3, PipesKeep DEF TypeOK

LEMMA Beginning ==
    ASSUME Init
    PROVE  IInv
<1>1. /\ Stream = <<>> /\ Len(Stream) = 0 /\ DOMAIN Stream = {} /\ Len(sent) = 0
  BY DEF Init, Stream
<1>2. TypeOK
  BY DEF Init, TypeOK, PipeInit, PipeTypeOK, Child, Pipe, Programs, Texts, NoWrite
<1>3. StreamInv
  <2>1. MaxReq \in Nat /\ SizeModulus \in Nat \ {0}
    BY ExchangeAssumption, SizeAssumption
  <2>2. (MaxReq + 1) * 0 <= 0 * (SizeModulus - 1)
    BY <2>1
  <2>3. Bounded(Stream)
    BY <1>1, <2>2 DEF Bounded
  <2> QED  BY <1>1, <2>1, <2>3 DEF StreamInv, Orderly, Genuine, Ordered, Whole
<1>4. DispatchInv
  BY DEF Init, DispatchInv
<1>5. RunInv
  <2>1. 0 \notin Runs
    BY PipeAssumption
  <2> QED  BY <2>1 DEF Init, PipeInit, NoWrite, RunInv, RunOf, Started, NotStarted
<1> QED  BY <1>2, <1>3, <1>4, <1>5 DEF IInv

LEMMA Step ==
    ASSUME IInv, [Next]_vars
    PROVE  IInv'
<1>1. CASE UNCHANGED vars
  <2>1. UNCHANGED <<sent, buf, arrived, taken, pipeVars, cgiBuf, queue, got, pc, up>>
    BY <1>1 DEF vars
  <2> QED  BY <2>1, Resting DEF IInv, TypeOK
<1>2. CASE Next
  BY <1>2, SendKeeps, ReceiveKeeps, TakeKeeps, TooLargeKeeps, ProcessingKeeps, BadRequestKeeps,
     StaticKeeps, SendResponseKeeps, RequestCgiKeeps, CgiOutputKeeps, RunKeeps, CgiKeeps
     DEF Next, Server
<1> QED  BY <1>1, <1>2

-----------------------------------------------------------------------------
(* Bodies that come back. *)

\* What was answered stays an answer.
LEMMA BodyKept ==
    ASSUME Longer, \A i \in Runs : Exited(i) => Exited(i)', NEW x
    PROVE  /\ Queueable(x) => Queueable(x)'
           /\ Sendable(x) => Sendable(x)'
<1>1. ASSUME NEW n \in SentUpTo
      PROVE  /\ n \in SentUpTo' /\ sent'[n] = sent[n] /\ Size(n)' = Size(n) /\ Repeats(n)' = Repeats(n)
             /\ Cut(n) => Cut(n)'
  BY DEF Longer, Size, Repeats, Cut
<1>2. ASSUME Queueable(x) PROVE Queueable(x)'
  <2>1. PICK n \in SentUpTo : n = x.of
    BY <1>2 DEF Queueable
  <2>2. Gives(n, x.body) => Gives(n, x.body)'
    BY <1>1 DEF Gives
  <2> QED  BY <1>1, <1>2, <2>1, <2>2 DEF Queueable
<1>3. ASSUME Sendable(x) PROVE Sendable(x)'
  <2>1. PICK n \in SentUpTo : n = x.of
    BY <1>3 DEF Sendable
  <2>2. Repeated(n, x.body) => Repeated(n, x.body)'
    BY <1>1 DEF Repeated, Exited
  <2> QED  BY <1>1, <1>3, <2>1, <2>2 DEF Sendable
<1> QED  BY <1>2, <1>3

\* Only a child that has run ends, and it ends once.
LEMMA ExitedStays ==
    ASSUME IInv, [Next]_vars
    PROVE  \A n \in Runs : Exited(n) => Exited(n)'
<1>1. child \in [Runs -> Child]
  BY DEF IInv, TypeOK, PipeTypeOK
<1>2. CASE child' = child
  BY <1>2 DEF Exited
<1>3. CASE RequestCgi
  <2>1. PICK n : n = request[1].of
    OBVIOUS
  <2>2. child[n].st = "none"
    BY <1>3, <2>1 DEF IInv, DispatchInv, RequestCgi, Dispatching, badRequestLine
  <2>3. child' = [child EXCEPT ![n].st = "run", ![n].prog = Kind]
    BY <1>3, <2>1 DEF RequestCgi, run
  <2> QED  BY <1>1, <2>2, <2>3 DEF Exited
<1>4. ASSUME NEW n \in Runs, Cgi(n)
      PROVE  \A m \in Runs : Exited(m) => Exited(m)'
  <2>1. child[n].st = "run" /\ \A m \in Runs \ {n} : child'[m] = child[m]
    BY <1>1, <1>4 DEF Cgi, Process, childRead, childWrite, childExit
  <2> QED  BY <2>1 DEF Exited
<1>5. child' = child \/ RequestCgi \/ \E n \in Runs : Cgi(n)
  BY DEF Next, vars, Server, Send, Receive, RequestTooLarge, RequestIncomplete, GetRequestThrows,
         TakeRequest, BadRequest, RequestStatic, CgiEof, CgiData, SendResponse, Run,
         writeBody, returnFromRun, pipeVars
<1> QED  BY <1>2, <1>3, <1>4, <1>5

\* The requests sent only become more.
LEMMA SentStays ==
    ASSUME IInv, [Next]_vars
    PROVE  Longer /\ (sent' = sent \/ \E r \in Requests : Send(r))
<1>1. sent' = sent \/ \E r \in Requests : Send(r)
  BY DEF Next, vars, Server, Receive, RequestTooLarge, RequestIncomplete, GetRequestThrows,
         TakeRequest, BadRequest, RequestStatic, CgiEof, CgiData, SendResponse, Run, RequestCgi,
         Processing, Dispatching, Cgi
<1> QED  BY <1>1, Same, SendKeeps DEF IInv

\* The output of a program that repeats its input, once the program has ended.
LEMMA OutputGives ==
    ASSUME IInv, NEW n \in Runs, CgiEof(n)
    PROVE  /\ n \in SentUpTo
           /\ cgiBuf[n] # <<>> /\ Repeats(n) => Gives(n, cgiBuf[n])
<1> USE DEF IInv
<1>1. Started(n) /\ Exited(n) /\ stdout[n].open /\ stdout[n].data = <<>> /\ writing.run = 0
  BY DEF CgiEof, Started, Exited, Looping
<1>2. n <= Len(sent) /\ sent[n].req.kind = child[n].prog
      /\ Input(n) /\ Output(n) /\ Ended(n)
  BY <1>1 DEF RunInv, RunOf
<1>3. n \in SentUpTo
  BY <1>2, TypesOf, PipeAssumption DEF SentUpTo
<1>4. ASSUME Repeats(n) PROVE Gives(n, cgiBuf[n])
  <2>1. child[n].prog # "blind"
    BY <1>2, <1>4 DEF Repeats
  <2>2. child[n].wrote = Len(child[n].read) + 1 /\ stdin[n].data = <<>>
    BY <1>1, <1>2, <2>1 DEF Ended
  <2>3. PICK o : o = cgiBuf[n]
    OBVIOUS
  <2>4. o \in Seq(Token \cup {Banner}) /\ child[n].read \in Seq(Bytes) /\ Len(child[n].read) \in Nat
        /\ Size(n) \in Nat
    BY <1>3, <2>3, PipeTypes, TypesOf, SMTT(30) DEF Texts
  <2>5. Out(n) = o
    <3>1. Out(n) = o \o <<>>
      BY <1>1, <2>3 DEF Out
    <3> QED  BY <2>4, <3>1
  <2>6. Len(o) = Len(child[n].read) + 1
        /\ \A i \in 1..Len(o) : o[i] = IF i = 1 THEN Banner ELSE Tok("byte", n, i - 1)
    BY <1>1, <1>2, <2>1, <2>2, <2>5 DEF Output
  <2>7. Left(n) = <<>>
    BY <1>1, PipeAssumption DEF Left
  <2>8. Given(n) = Len(child[n].read)
    <3>1. Given(n) = Len(child[n].read) + Len(<<>>) + Len(<<>>)
      BY <2>2, <2>7 DEF Given
    <3>2. Len(<<>>) = 0
      OBVIOUS
    <3> QED  BY <2>4, <3>1, <3>2
  <2>9. Given(n) <= Size(n) /\ (Given(n) = Size(n) \/ Cut(n))
    BY <1>2 DEF Input
  <2>10. Len(o) \in 1..(Size(n) + 1) /\ (Len(o) = Size(n) + 1 \/ Cut(n))
    BY <2>4, <2>6, <2>8, <2>9
  <2> QED  BY <2>3, <2>6, <2>10 DEF Gives
<1> QED  BY <1>3, <1>4

\* With the empty line before it the output is the body, or the front of it.
LEMMA GivesRepeats ==
    ASSUME TypeOK, StreamInv, NEW n \in SentUpTo, NEW o \in Texts, Gives(n, o),
           NEW y, y = <<Tok("CRLF", n, 0)>> \o o
    PROVE  o # <<>> /\ Repeated(n, y)
<1>1. PICK z : z = Size(n)
  OBVIOUS
<1>2. z \in Nat /\ Len(o) \in 1..(z + 1) /\ (Len(o) = z + 1 \/ Cut(n))
      /\ \A i \in 1..Len(o) : o[i] = IF i = 1 THEN Banner ELSE Tok("byte", n, i - 1)
  BY <1>1, TypesOf DEF Gives
<1>3. PICK c : c = Tok("CRLF", n, 0)
  OBVIOUS
<1>4. PICK b : b = Body(n, z)
  OBVIOUS
<1>5. Len(b) = z /\ DOMAIN b = 1..z /\ \A i \in 1..z : b[i] = Tok("byte", n, i)
  BY <1>2, <1>4, BodyIs
<1> DEFINE All == Token \cup {Banner, c} \cup {Tok("byte", n, i) : i \in 1..z}
<1>6. c \in All /\ Banner \in All /\ o \in Seq(All) /\ b \in Seq(All)
  <2>1. b \in Seq(All)
    <3>1. \A i \in 1..z : Tok("byte", n, i) \in All
      OBVIOUS
    <3> HIDE DEF All
    <3> QED  BY <1>2, <1>4, <3>1, BodyIs
  <2>2. Token \cup {Banner} \subseteq All
    OBVIOUS
  <2>3. o \in Seq(Token \cup {Banner})
    BY DEF Texts
  <2>4. o \in Seq(All)
    <3> HIDE DEF All
    <3> QED  BY <2>2, <2>3
  <2>5. c \in All /\ Banner \in All
    OBVIOUS
  <2> QED  BY <2>1, <2>4, <2>5
<1> HIDE DEF All
<1>7. PICK w : w = <<c, Banner>> \o b
  OBVIOUS
<1>8. /\ y \in Seq(All) /\ Len(y) = Len(o) + 1 /\ y[1] = c
      /\ \A i \in 1..Len(o) : y[i + 1] = o[i]
  <2>1. y = <<c>> \o o
    BY <1>3
  <2>2. <<c>> \in Seq(All) /\ Len(<<c>>) = 1 /\ <<c>>[1] = c
    BY <1>6
  <2> QED  BY <1>6, <2>1, <2>2
<1>9. /\ w \in Seq(All) /\ Len(w) = z + 2 /\ w[1] = c /\ w[2] = Banner
      /\ \A i \in 1..z : w[i + 2] = Tok("byte", n, i)
  <2>1. <<c, Banner>> \in Seq(All) /\ Len(<<c, Banner>>) = 2
        /\ <<c, Banner>>[1] = c /\ <<c, Banner>>[2] = Banner
    BY <1>6
  <2> QED  BY <1>2, <1>5, <1>6, <1>7, <2>1
<1>10. /\ Len(y) <= Len(w)
       /\ \A i \in 1..Len(y) : y[i] = w[i]
  <2>1. Len(y) <= Len(w)
    BY <1>2, <1>8, <1>9
  <2>2. ASSUME NEW i \in 1..Len(y) PROVE y[i] = w[i]
    <3>1. CASE i = 1
      BY <1>8, <1>9, <3>1
    <3>2. CASE i = 2
      <4>1. 1 \in 1..Len(o) /\ 1 + 1 = 2
        BY <1>2
      <4>2. y[2] = o[1]
        BY <1>8, <4>1
      <4> QED  BY <1>2, <1>9, <3>2, <4>1, <4>2
    <3>3. CASE i # 1 /\ i # 2
      <4>1. i - 1 \in 1..Len(o) /\ i - 1 # 1 /\ (i - 1) + 1 = i /\ i - 2 \in 1..z
            /\ (i - 1) - 1 = i - 2 /\ (i - 2) + 2 = i
        BY <1>2, <1>8, <3>3
      <4>2. y[i] = o[i - 1]
        BY <1>8, <4>1
      <4>3. o[i - 1] = Tok("byte", n, i - 2)
        BY <1>2, <4>1
      <4>4. w[i] = Tok("byte", n, i - 2)
        BY <1>9, <4>1
      <4> QED  BY <4>2, <4>3, <4>4
    <3> QED  BY <3>1, <3>2, <3>3
  <2> QED  BY <2>1, <2>2
<1>11. IsPrefix(y, w)
  <2>1. Len(y) \in Nat /\ Len(w) \in Nat
    BY <1>8, <1>9
  <2>2. SubSeq(y, 1, Len(y)) = SubSeq(w, 1, Len(y))
    BY <1>8, <1>9, <1>10, <2>1
  <2> QED  BY <1>10, <2>2 DEF IsPrefix
<1>12. Len(o) = z + 1 => y = w
  BY <1>2, <1>8, <1>9, <1>10, SeqEqual
<1>13. Cut(n) => z > Capacity /\ \E m \in Runs \ {n} : child[m].st = "exit"
  BY <1>1 DEF Cut, Exited
<1>14. o # <<>>
  BY <1>2
<1> QED  BY <1>1, <1>2, <1>3, <1>4, <1>7, <1>11, <1>12, <1>13, <1>14 DEF Repeated, Size

LEMMA BodiesStep ==
    ASSUME IInv, BodiesInv, [Next]_vars
    PROVE  BodiesInv'
<1> USE DEF IInv
<1>1. Longer /\ \A i \in Runs : Exited(i) => Exited(i)'
  BY SentStays, ExitedStays
<1>2. queue \in Seq(Response) /\ got \in Seq(Response)
  BY DEF TypeOK
<1>3. ASSUME NEW i \in DOMAIN queue', NEW x, x = queue'[i]
      PROVE  Queueable(x)
  <2>1. CASE queue' = queue
    BY <1>3, <2>1 DEF BodiesInv
  <2>2. CASE RequestStatic
    <3>1. PICK n : n = request[1].of
      OBVIOUS
    <3>2. PICK r : r = [code |-> 200, of |-> n, body |-> <<>>]
      OBVIOUS
    <3>3. queue' = Append(queue, r) /\ n \in SentUpTo /\ sent[n].req.kind = "static"
      BY <2>2, <3>1, <3>2 DEF RequestStatic, Dispatching, DispatchInv, Kind
    <3>4. Queueable(r)
      BY <3>2, <3>3 DEF Queueable, Repeats
    <3>5. (i \in DOMAIN queue /\ x = queue[i]) \/ x = r
      BY <1>2, <1>3, <3>3
    <3> QED  BY <3>4, <3>5 DEF BodiesInv
  <2>3. ASSUME NEW n \in Runs, CgiEof(n) PROVE Queueable(x)
    <3>1. PICK r : r = [code |-> 200, of |-> n, body |-> cgiBuf[n]]
      OBVIOUS
    <3>2. queue' = (IF cgiBuf[n] = <<>> THEN queue ELSE Append(queue, r))
      BY <2>3, <3>1 DEF CgiEof
    <3>3. cgiBuf[n] # <<>> => Queueable(r)
      BY <2>3, <3>1, OutputGives DEF Queueable
    <3>4. CASE cgiBuf[n] = <<>>
      BY <1>3, <3>2, <3>4 DEF BodiesInv
    <3>5. CASE cgiBuf[n] # <<>>
      <4>1. queue' = Append(queue, r)
        BY <3>2, <3>5
      <4>2. (i \in DOMAIN queue /\ x = queue[i]) \/ x = r
        BY <1>2, <1>3, <4>1
      <4> QED  BY <3>3, <3>5, <4>2 DEF BodiesInv
    <3> QED  BY <3>4, <3>5
  <2>4. CASE SendResponse
    <3>1. queue' = Tail(queue) /\ queue # <<>>
      BY <2>4 DEF SendResponse
    <3>2. i + 1 \in DOMAIN queue /\ x = queue[i + 1]
      BY <1>2, <1>3, <3>1
    <3> QED  BY <3>2 DEF BodiesInv
  <2>5. queue' = queue \/ RequestStatic \/ SendResponse \/ \E n \in Runs : CgiEof(n)
    BY DEF Next, vars, Server, Send, Receive, RequestTooLarge, RequestIncomplete, GetRequestThrows,
           TakeRequest, BadRequest, CgiData, Run, RequestCgi, Cgi
  <2> QED  BY <2>1, <2>2, <2>3, <2>4, <2>5
<1>4. ASSUME NEW i \in DOMAIN got', NEW x, x = got'[i]
      PROVE  Sendable(x)
  <2>1. CASE got' = got
    BY <1>4, <2>1 DEF BodiesInv
  <2>2. ASSUME NEW r \in Response, got' = Sent(r), Sendable(getResponse(r))
        PROVE  Sendable(x)
    <3>1. (i \in DOMAIN got /\ x = got[i]) \/ x = getResponse(r)
      BY <1>4, <2>2, SentIs
    <3> QED  BY <2>2, <3>1 DEF BodiesInv
  <2>3. ASSUME NEW n \in SentUpTo, NEW code \in {400, 413}, got' = Sent(errorResponse(code, n))
        PROVE  Sendable(x)
    <3>1. PICK r : r = errorResponse(code, n)
      OBVIOUS
    <3>2. n \in Runs /\ code \in {200, 400, 413}
      BY RunsAre
    <3>3. r \in Response /\ r.of = n /\ r.code = code
      BY <3>1, <3>2, AnswerIs
    <3>4. Sendable(getResponse(r))
      <4>1. PICK y : y = getResponse(r)
        OBVIOUS
      <4>2. y.of = r.of /\ y.code = r.code
        BY <3>3, <4>1, SentIs, ZenonT(30)
      <4>3. code # 200
        BY <2>3
      <4> QED  BY <3>3, <4>1, <4>2, <4>3 DEF Sendable
    <3> QED  BY <2>2, <2>3, <3>1, <3>3, <3>4
  <2>4. CASE SendResponse
    <3>1. PICK r : r = Head(queue)
      OBVIOUS
    <3>2. got' = Sent(r) /\ r \in Response /\ 1 \in DOMAIN queue /\ r = queue[1]
      BY <1>2, <2>4, <3>1 DEF SendResponse
    <3>3. Queueable(r)
      BY <3>2 DEF BodiesInv
    <3>4. PICK y : y = getResponse(r)
      OBVIOUS
    <3>5. y.of = r.of /\ y.of \in SentUpTo
          /\ y.body = IF r.body = <<>> THEN <<>> ELSE <<Tok("CRLF", r.of, 0)>> \o r.body
      BY <3>2, <3>3, <3>4, SentIs DEF Queueable
    <3>6. Repeats(y.of) => Repeated(y.of, y.body)
      <4>1. PICK n \in SentUpTo : n = r.of
        BY <3>3 DEF Queueable
      <4>2. PICK o : o = r.body
        OBVIOUS
      <4>3. PICK q : q = <<Tok("CRLF", n, 0)>> \o o
        OBVIOUS
      <4>4. ASSUME Repeats(n) PROVE o # <<>> /\ Repeated(n, q)
        <5>1. Gives(n, o)
          BY <3>3, <4>1, <4>2, <4>4 DEF Queueable
        <5>2. o \in Texts
          BY <3>2, <4>2 DEF Response
        <5> QED  BY <4>3, <5>1, <5>2, GivesRepeats
      <4> QED  BY <3>5, <4>1, <4>2, <4>3, <4>4
    <3>7. Sendable(y)
      BY <3>5, <3>6 DEF Sendable
    <3> QED  BY <2>2, <3>2, <3>4, <3>7
  <2>5. CASE RequestTooLarge
    <3>1. PICK n : n = Last(buf).of
      OBVIOUS
    <3>2. n \in SentUpTo /\ got' = Sent(errorResponse(413, n))
      BY <2>5, <3>1, LargeFront DEF RequestTooLarge
    <3> QED  BY <2>3, <3>2
  <2>6. CASE BadRequest
    <3>1. PICK n : n = request[1].of
      OBVIOUS
    <3>2. n \in SentUpTo /\ got' = Sent(errorResponse(400, n))
      BY <2>6, <3>1 DEF BadRequest, Dispatching, DispatchInv
    <3> QED  BY <2>3, <3>2
  <2>7. got' = got \/ SendResponse \/ RequestTooLarge \/ BadRequest
    BY DEF Next, vars, Server, Send, Receive, RequestIncomplete, GetRequestThrows, RequestStatic,
           TakeRequest, CgiData, CgiEof, Run, RequestCgi, Cgi
  <2> QED  BY <2>1, <2>4, <2>5, <2>6, <2>7
<1>5. \A i \in DOMAIN queue' : Queueable(queue[i])'
  <2> TAKE i \in DOMAIN queue'
  <2>1. PICK x : x = queue'[i]
    OBVIOUS
  <2>2. Queueable(x)'
    BY <1>1, <1>3, <2>1, BodyKept
  <2> QED  BY <2>1, <2>2 DEF Queueable
<1>6. \A i \in DOMAIN got' : Sendable(got[i])'
  <2> TAKE i \in DOMAIN got'
  <2>1. PICK x : x = got'[i]
    OBVIOUS
  <2>2. Sendable(x)'
    BY <1>1, <1>4, <2>1, BodyKept
  <2> QED  BY <2>1, <2>2 DEF Sendable
<1> QED  BY <1>5, <1>6 DEF BodiesInv

-----------------------------------------------------------------------------
(* Requests that are taken as they were sent. *)

LEMMA DelimitedLess ==
    ASSUME NEW n \in Nat, NEW k \in Nat, k <= n, Delimited(n)
    PROVE  Delimited(k)
<1>1. \A m \in 1..k : m \in 1..n
  OBVIOUS
<1> QED  BY <1>1 DEF Delimited

LEMMA DelimitedStays ==
    ASSUME Longer, NEW n
    PROVE  Delimited(n)' => Delimited(n)
<1>1. ASSUME Delimited(n)', NEW m \in 1..n
      PROVE  \/ m >= Len(sent) \/ sent[m].req.field \/ sent[m + 1].waited
             \/ \A j \in (m + 1)..Len(sent) : ~sent[j].req.field
  <2>1. CASE m >= Len(sent)
    BY <2>1
  <2>2. CASE ~(m >= Len(sent))
    <3>1. /\ m \in SentUpTo /\ m + 1 \in SentUpTo /\ ~(m >= Len(sent'))
          /\ \A j \in (m + 1)..Len(sent) : j \in SentUpTo /\ j \in (m + 1)..Len(sent')
      BY <2>2 DEF Longer, SentUpTo
    <3>2. /\ sent'[m] = sent[m] /\ sent'[m + 1] = sent[m + 1]
          /\ \A j \in (m + 1)..Len(sent) : sent'[j] = sent[j]
      BY <3>1 DEF Longer
    <3>3. \/ sent'[m].req.field \/ sent'[m + 1].waited
          \/ \A j \in (m + 1)..Len(sent') : ~sent'[j].req.field
      BY <1>1, <3>1 DEF Delimited
    <3> QED  BY <3>1, <3>2, <3>3
  <2> QED  BY <2>1, <2>2
<1> QED  BY <1>1 DEF Delimited

LEMMA DoneStays ==
    ASSUME Longer, TypeOK, Len(taken') = Len(taken), NEW n \in SentUpTo
    PROVE  (Done(n) => Done(n)') /\ (Blocked(n) => Blocked(n)')
<1>1. \A m \in 1..n : m \in SentUpTo
  BY TypesOf DEF SentUpTo
<1>2. \A m \in 1..n : Size(m)' = Size(m)
  BY <1>1 DEF Longer, Size
<1>3. Blocked(n) => Blocked(n)'
  BY <1>2 DEF Blocked
<1> QED  BY <1>3, DelimitedStays DEF Done

\* The next request, as the search finds it in the buffer: no field is taken for its own.
LEMMA FrontFound ==
    ASSUME IInv, AlignedInv, AnswersInv, NEW n, n = Len(taken) + 1, Delimited(n),
           buf # <<>>, headerEnd(buf) # npos, NEW r, r = sent[n].req
    PROVE  /\ n \in SentUpTo /\ buf[1].t = "line" /\ buf[1].of = n
           /\ 1 \in DOMAIN Stream /\ Stream[1] = buf[1]
           /\ r \in Request /\ (r.size > 0 => r.field) /\ r.field \in BOOLEAN /\ r.size \in Nat
           /\ Begins(buf, n, r)
           /\ r.field => /\ headerEnd(buf) = 5 /\ Len(buf) >= 6 /\ contentLengthPos(buf) = 3
                         /\ lengthEnd(buf) = 5 /\ atoi(buf) = r.size
           /\ ~r.field => headerEnd(buf) = 2 /\ Len(buf) >= 3 /\ contentLengthPos(buf) = npos
<1> USE DEF IInv
<1>1. Len(taken) \in Nat /\ n \in Nat /\ Len(sent) \in Nat /\ buf \in Seq(Token)
  BY TypesOf
<1>2. Delimited(Len(taken))
  BY <1>1, DelimitedLess
<1>3. 1 \in DOMAIN Stream /\ Stream[1] = buf[1]
  BY <1>1, BufferIsFront
<1>4. Len(taken) # Len(sent)
  <2>1. ASSUME Len(taken) = Len(sent) PROVE FALSE
    <3>1. Stream = <<>>
      BY <1>2, <2>1 DEF AlignedInv
    <3> QED  BY <1>3, <3>1
  <2> QED  BY <2>1
<1>5. buf[1].t = "line" /\ buf[1].of = n /\ n \in SentUpTo
  BY <1>1, <1>2, <1>3, <1>4 DEF AlignedInv, SentUpTo
<1>6. Begins(buf, n, r)
  BY <1>5, BufferBegins
<1>7. r \in Request /\ (r.size > 0 => r.field) /\ r.field \in BOOLEAN /\ r.size \in Nat
      /\ r.size = Size(n)
  BY <1>5, TypesOf DEF Size
<1>8. /\ r.field => /\ headerEnd(buf) = 5 /\ Len(buf) >= 6 /\ contentLengthPos(buf) = 3
                    /\ lengthEnd(buf) = 5 /\ atoi(buf) = r.size
      /\ ~r.field => headerEnd(buf) = 2 /\ Len(buf) >= 3
  BY <1>1, <1>6, <1>7, HeaderFound
<1>9. ASSUME ~r.field PROVE contentLengthPos(buf) = npos
  <2>1. ASSUME NEW p \in DOMAIN buf, buf[p].t = "CL" PROVE FALSE
    <3>1. PICK j : j = buf[p].of
      OBVIOUS
    <3>2. p \in DOMAIN Stream /\ Stream[p] = buf[p]
      BY BufferIsFront
    <3>3. j \in SentUpTo /\ sent[j].req.field
      BY <2>1, <3>1, <3>2 DEF StreamInv, Orderly, Genuine
    <3>4. n <= j
      <4>1. p # 1
        BY <1>5, <2>1
      <4>2. 1 < p
        BY <1>1, <4>1
      <4> QED  BY <1>3, <1>5, <3>1, <3>2, <4>2 DEF StreamInv, Orderly, Ordered
    <3>5. j # n
      BY <1>9, <3>3
    <3>6. j \in Nat /\ j <= Len(sent) /\ j > n
      BY <1>1, <3>3, <3>4, <3>5 DEF SentUpTo
    <3>7. n \in 1..n /\ ~(n >= Len(sent)) /\ n + 1 \in SentUpTo /\ n < n + 1
          /\ j \in (n + 1)..Len(sent)
      BY <1>1, <3>6 DEF SentUpTo
    <3>8. sent[n + 1].waited
      BY <1>9, <3>3, <3>7 DEF Delimited
    <3>9. Done(n)
      BY <1>5, <3>7, <3>8 DEF AnswersInv, WaitedFor
    <3>10. Size(n) > client_max_body_size
      <4>1. PICK m \in 1..n : m > Len(taken) /\ Size(m) > client_max_body_size
        BY <1>1, <3>9 DEF Done, Blocked
      <4>2. m = n
        BY <1>1, <4>1
      <4> QED  BY <4>1, <4>2
    <3> QED  BY <1>7, <1>9, <3>10, ExchangeAssumption
  <2>2. {p \in DOMAIN buf : buf[p].t = "CL"} = {}
    BY <2>1
  <2> QED  BY <2>2, FindLeast DEF contentLengthPos
<1> QED  BY <1>3, <1>5, <1>6, <1>7, <1>8, <1>9

\* What the buffer begins with is too large.
LEMMA LargeFirst ==
    ASSUME IInv, AlignedInv, AnswersInv, TooLarge, NEW n, n = buf[1].of, Delimited(n)
    PROVE  n > Len(taken) /\ Size(n) > client_max_body_size
<1> USE DEF IInv
<1>1. /\ buf # <<>> /\ n \in SentUpTo /\ 1 \in DOMAIN Stream /\ Stream[1] = buf[1]
      /\ headerEnd(buf) # npos /\ contentLengthPos(buf) # npos
  BY LargeFront
<1>2. Len(taken) \in Nat /\ n \in Nat /\ n > Len(taken)
  BY <1>1, TypesOf DEF AnswersInv, InStream, SentUpTo
<1>3. Delimited(Len(taken) + 1)
  BY <1>2, DelimitedLess
<1>4. PICK k : k = Len(taken) + 1
  OBVIOUS
<1>5. PICK r : r = sent[k].req
  OBVIOUS
<1>6. n = k /\ r.field /\ atoi(buf) = r.size
  BY <1>1, <1>3, <1>4, <1>5, FrontFound
<1>7. getBodySize(buf) = 0 \/ getBodySize(buf) = atoi(buf)
  BY DEF getBodySize
<1>8. getBodySize(buf) > client_max_body_size /\ client_max_body_size \in Nat \ {0}
      /\ r.size \in Nat
  <2>1. k \in SentUpTo
    BY <1>1, <1>6
  <2>2. r.size \in Nat
    BY <1>5, <2>1, TypesOf DEF Size
  <2>3. getBodySize(buf) \in Nat
    BY <1>6, <1>7, <2>2
  <2> QED  BY <2>2, <2>3, ExchangeAssumption DEF TooLarge
<1> QED  BY <1>2, <1>5, <1>6, <1>7, <1>8 DEF Size

\* What is refused is too large, or behind what the buffer begins with.
LEMMA LargeRefused ==
    ASSUME IInv, AlignedInv, AnswersInv, TooLarge, NEW n, n = Last(buf).of, Delimited(n)
    PROVE  Blocked(n)
<1>1. PICK f : f = buf[1].of
  OBVIOUS
<1>2. f \in SentUpTo /\ n \in SentUpTo /\ f <= n
  BY <1>1, LargeFront
<1>3. f \in Nat /\ n \in Nat /\ f \in 1..n
  BY <1>2, TypesOf DEF IInv, SentUpTo
<1>4. Delimited(f)
  BY <1>2, <1>3, DelimitedLess
<1> QED  BY <1>1, <1>3, <1>4, LargeFirst DEF Blocked

\* The next request is taken whole, and nothing else.
LEMMA TakenWhole ==
    ASSUME IInv, AlignedInv, AnswersInv, TakeRequest, NEW n, n = Len(taken) + 1, Delimited(n)
    PROVE  /\ n \in SentUpTo /\ getRequest(buf) = SentText(n)
           /\ Size(n) <= client_max_body_size
           /\ IF n = Len(sent) THEN Stream' = <<>>
              ELSE Stream' # <<>> /\ Stream'[1].t = "line" /\ Stream'[1].of = n + 1
<1> USE DEF IInv
<1>1. PICK r : r = sent[n].req
  OBVIOUS
<1>2. PICK k : k = totalRequestSize(buf)
  OBVIOUS
<1>3. PICK x : x = SentText(n)
  OBVIOUS
<1>4. headerEnd(buf) # npos /\ k \in 2..Len(buf) /\ Len(buf) \in Nat /\ buf \in Seq(Token)
  BY <1>2, TakeBounds, TypesOf DEF TakeRequest, npos
<1>5. buf # <<>>
  BY <1>4
<1>6. /\ n \in SentUpTo /\ buf[1].t = "line" /\ buf[1].of = n
      /\ 1 \in DOMAIN Stream /\ Stream[1] = buf[1]
      /\ r \in Request /\ (r.size > 0 => r.field) /\ r.field \in BOOLEAN /\ r.size \in Nat
      /\ Begins(buf, n, r)
      /\ r.field => /\ headerEnd(buf) = 5 /\ Len(buf) >= 6 /\ contentLengthPos(buf) = 3
                    /\ lengthEnd(buf) = 5 /\ atoi(buf) = r.size
      /\ ~r.field => headerEnd(buf) = 2 /\ Len(buf) >= 3 /\ contentLengthPos(buf) = npos
  BY <1>1, <1>4, <1>5, FrontFound
<1>7. x = Text(n, r) /\ DOMAIN x = 1..Len(x) /\ Len(x) = (IF r.field THEN 6 ELSE 3) + r.size
  BY <1>1, <1>3, <1>6, TextIs, SMTT(30) DEF SentText
<1>8. k = Len(x)
  <2>1. CASE r.field
    <3>1. k = 6 + r.size
      BY <1>2, <1>6, <2>1 DEF totalRequestSize, bodyStart, npos
    <3> QED  BY <1>7, <2>1, <3>1
  <2>2. CASE ~r.field
    <3>1. k = 3
      BY <1>2, <1>6, <2>2 DEF totalRequestSize, bodyStart, npos
    <3>2. r.size = 0
      BY <1>6, <2>2
    <3> QED  BY <1>7, <2>2, <3>1, <3>2
  <2> QED  BY <1>6, <2>1, <2>2
<1>9. PICK b : b = getRequest(buf)
  OBVIOUS
<1>10. b \in Seq(Token) /\ Len(b) = k /\ \A i \in 1..k : b[i] = buf[i]
  BY <1>2, <1>9, TakeStream
<1>11. b = x
  <2>1. \A i \in 1..k : b[i] = x[i]
    BY <1>4, <1>6, <1>7, <1>8, <1>10, SMTT(30) DEF Begins
  <2>2. b = [i \in 1..k |-> b[i]]
    BY <1>10
  <2>3. x = [i \in 1..k |-> x[i]]
    <3>1. r \in Requests /\ n \in Runs
      BY <1>1, <1>6, TypesOf, RunsAre
    <3>2. x \in Seq(Bytes)
      BY <1>7, <3>1, StreamAssumption
    <3> QED  BY <1>8, <3>2
  <2> QED  BY <2>1, <2>2, <2>3
<1>12. Size(n) <= client_max_body_size
  <2>1. ~(client_max_body_size < getBodySize(buf)) /\ client_max_body_size \in Nat
    BY ExchangeAssumption DEF TakeRequest, TooLarge
  <2>2. CASE r.field
    <3>1. getBodySize(buf) = r.size
      BY <1>6, <2>2 DEF getBodySize, npos
    <3> QED  BY <1>1, <1>6, <2>1, <3>1 DEF Size
  <2>3. CASE ~r.field
    <3>1. r.size = 0
      BY <1>6, <2>3
    <3> QED  BY <1>1, <2>1, <3>1 DEF Size
  <2> QED  BY <1>6, <2>2, <2>3
<1>13. PICK t : t = Stream'
  OBVIOUS
<1>14. t \in Seq(Token) /\ k + Len(t) = Len(Stream) /\ \A i \in 1..Len(t) : t[i] = Stream[k + i]
  <2>1. buf' \in Seq(Token) /\ arrived' \in Seq(Token)
    BY TakeStream, TypesOf
  <2>2. t \in Seq(Token)
    BY <1>13, <2>1 DEF Stream
  <2> QED  BY <1>2, <1>13, <2>2, TakeStream
<1>15. IF n = Len(sent) THEN 1 + k = Len(Stream) + 1
       ELSE 1 + k \in DOMAIN Stream /\ Stream[1 + k] = Tok("line", n + 1, 0)
  <2>1. Stream[1].t = "line" /\ Stream[1].of = n
    BY <1>6
  <2>2. Whole(Stream)
    BY DEF StreamInv, Orderly
  <2> QED  BY <1>3, <1>6, <1>8, <2>1, <2>2 DEF Whole
<1>16. Stream \in Seq(Token) /\ Len(Stream) \in Nat /\ k \in Nat /\ Len(t) \in Nat
  BY <1>4, <1>14, TypesOf
<1>17. CASE n = Len(sent)
  <2>1. Len(t) = 0
    BY <1>14, <1>15, <1>16, <1>17
  <2> QED  BY <1>3, <1>6, <1>9, <1>11, <1>12, <1>13, <1>14, <1>17, <2>1
<1>18. CASE n # Len(sent)
  <2>1. 1 + k <= Len(Stream)
    BY <1>15, <1>16, <1>18
  <2>2. 1 \in 1..Len(t) /\ k + 1 = 1 + k
    BY <1>14, <1>16, <2>1
  <2>3. t[1] = Tok("line", n + 1, 0) /\ t # <<>>
    <3>1. t[1] = Stream[k + 1]
      BY <1>14, <2>2
    <3>2. t # <<>>
      BY <2>2
    <3> QED  BY <1>15, <1>18, <2>2, <3>1, <3>2
  <2> QED  BY <1>3, <1>6, <1>9, <1>11, <1>12, <1>13, <1>18, <2>3 DEF Tok
<1> QED  BY <1>17, <1>18

\* Requests are sent, or taken, or the stream stays.
LEMMA StreamRests ==
    ASSUME IInv, [Next]_vars
    PROVE  \/ TakeRequest
           \/ \E r \in Requests : Send(r)
           \/ sent' = sent /\ taken' = taken /\ Stream' = Stream
<1>1. CASE \E k \in 1..Len(arrived) : Receive(k)
  BY <1>1, ReceiveKeeps DEF Receive
<1>2. \/ TakeRequest \/ (\E r \in Requests : Send(r)) \/ (\E k \in 1..Len(arrived) : Receive(k))
      \/ (sent' = sent /\ taken' = taken /\ buf' = buf /\ arrived' = arrived)
  BY ZenonT(30) DEF Next, vars, Server, RequestTooLarge, RequestIncomplete, GetRequestThrows,
         BadRequest, RequestStatic, CgiEof, CgiData, SendResponse, Run, RequestCgi,
         Processing, Dispatching, Cgi
<1> QED  BY <1>1, <1>2 DEF Stream

LEMMA AlignedStep ==
    ASSUME IInv, AlignedInv, AnswersInv, [Next]_vars
    PROVE  AlignedInv'
<1> USE DEF IInv
<1>1. Len(sent) \in Nat /\ Len(taken) \in Nat
  BY TypesOf
<1>2. CASE TakeRequest
  <2>1. PICK n : n = Len(taken) + 1
    OBVIOUS
  <2>2. sent' = sent /\ Len(taken') = n
    BY <1>2, <2>1, TakeStream
  <2>3. ASSUME Delimited(n)'
        PROVE  /\ n <= Len(sent)
               /\ IF n = Len(sent) THEN Stream' = <<>>
                  ELSE Stream' # <<>> /\ Stream'[1].t = "line" /\ Stream'[1].of = n + 1
    <3>1. Delimited(n)
      BY <2>2, <2>3, Same, DelimitedStays
    <3> QED  BY <1>1, <1>2, <2>1, <3>1, TakenWhole DEF SentUpTo
  <2> QED  BY <2>2, <2>3 DEF AlignedInv
<1>3. ASSUME NEW r \in Requests, Send(r) PROVE AlignedInv'
  <2>1. PICK n : n = Len(taken)
    OBVIOUS
  <2>2. PICK x : x = Text(Len(sent) + 1, r)
    OBVIOUS
  <2>3. taken' = taken /\ Len(sent') = Len(sent) + 1 /\ Stream' = Stream \o x /\ Longer
    BY <1>3, <2>2, SendStream, SendKeeps DEF Send
  <2>4. x[1].t = "line" /\ x[1].of = Len(sent) + 1 /\ x \in Seq(Token) /\ Len(x) >= 3
    <3>1. r \in Request /\ (r.size > 0 => r.field) /\ Len(sent) + 1 \in Runs
      BY <1>1, <1>3, ExchangeAssumption DEF Send
    <3>2. x[1] = Tok("line", Len(sent) + 1, 0) /\ Len(x) >= 3
      BY <2>2, <3>1, TextTokens
    <3>3. x \in Seq(Token)
      BY <2>2, <3>1, StreamAssumption
    <3> QED  BY <3>2, <3>3 DEF Tok
  <2>5. ASSUME Delimited(n)'
        PROVE  /\ n <= Len(sent) + 1 /\ n # Len(sent) + 1
               /\ Stream' # <<>> /\ Stream'[1].t = "line" /\ Stream'[1].of = n + 1
    <3>1. Delimited(n)
      BY <2>3, <2>5, DelimitedStays
    <3>2. n <= Len(sent)
      BY <2>1, <3>1 DEF AlignedInv
    <3>3. PICK s : s = Stream
      OBVIOUS
    <3>4. s \in Seq(Token)
      BY <3>3, TypesOf
    <3>5. CASE n = Len(sent)
      <4>1. s = <<>>
        BY <2>1, <3>1, <3>3, <3>5 DEF AlignedInv
      <4>2. s \o x = x
        BY <2>4, <4>1
      <4> QED  BY <1>1, <2>1, <2>3, <2>4, <3>3, <3>5, <4>2
    <3>6. CASE n # Len(sent)
      <4>1. s # <<>> /\ s[1].t = "line" /\ s[1].of = n + 1
        BY <2>1, <3>1, <3>3, <3>6 DEF AlignedInv
      <4>2. (s \o x)[1] = s[1] /\ s \o x # <<>>
        BY <2>4, <3>4, <4>1
      <4> QED  BY <1>1, <2>1, <2>3, <3>2, <3>3, <4>1, <4>2
    <3> QED  BY <3>5, <3>6
  <2> QED  BY <2>1, <2>3, <2>5 DEF AlignedInv
<1>4. CASE sent' = sent /\ taken' = taken /\ Stream' = Stream
  BY <1>4 DEF AlignedInv, Delimited
<1> QED  BY <1>2, <1>3, <1>4, StreamRests

LEMMA TakenStep ==
    ASSUME IInv, AlignedInv, AnswersInv, TakenInv, [Next]_vars
    PROVE  TakenInv'
<1> USE DEF IInv
<1>1. Longer
  BY SentStays
<1>2. taken \in Seq(Seq(Token))
  BY DEF TypeOK
<1>3. ASSUME NEW n \in DOMAIN taken, taken'[n] = taken[n], Delimited(n)'
      PROVE  n \in SentUpTo' /\ taken'[n] = SentText(n)' /\ Size(n)' <= client_max_body_size
  <2>1. n \in SentUpTo /\ taken[n] = SentText(n) /\ Size(n) <= client_max_body_size
    BY <1>1, <1>3, DelimitedStays DEF TakenInv
  <2>2. n \in SentUpTo' /\ sent'[n] = sent[n]
    BY <1>1, <2>1 DEF Longer
  <2> QED  BY <1>3, <2>1, <2>2 DEF SentText, Size
<1>4. CASE taken' = taken
  BY <1>3, <1>4 DEF TakenInv
<1>5. CASE TakeRequest
  <2>1. PICK k : k = Len(taken) + 1
    OBVIOUS
  <2>2. PICK b : b = getRequest(buf)
    OBVIOUS
  <2>3. taken' = Append(taken, b) /\ sent' = sent
    BY <1>5, <2>2, TakeStream
  <2>4. \A n \in DOMAIN taken' : (n \in DOMAIN taken /\ taken'[n] = taken[n]) \/ (n = k /\ taken'[n] = b)
    BY <1>2, <2>1, <2>3
  <2>5. ASSUME Delimited(k)'
        PROVE  k \in SentUpTo' /\ b = SentText(k)' /\ Size(k)' <= client_max_body_size
    <3>1. Delimited(k)
      BY <1>1, <2>5, DelimitedStays
    <3>2. k \in SentUpTo /\ b = SentText(k) /\ Size(k) <= client_max_body_size
      BY <1>5, <2>1, <2>2, <3>1, TakenWhole
    <3> QED  BY <2>3, <3>2 DEF SentText, Size, SentUpTo
  <2> QED  BY <1>3, <2>4, <2>5 DEF TakenInv
<1>6. taken' = taken \/ TakeRequest
  BY StreamRests DEF Send
<1> QED  BY <1>4, <1>5, <1>6

-----------------------------------------------------------------------------
(* What is answered. *)

\* What is queued was queued before, is being dispatched, or has run.
LEMMA QueueGrows ==
    ASSUME IInv, [Next]_vars, NEW i \in DOMAIN queue', NEW n, n = queue'[i].of
    PROVE  \/ \E j \in DOMAIN queue : queue[j].of = n
           \/ pc = "dispatch" /\ request[1].of = n
           \/ n \in Runs /\ Started(n)
<1>1. queue \in Seq(Response)
  BY DEF IInv, TypeOK
<1>2. CASE queue' = queue
  BY <1>2
<1>3. CASE RequestStatic
  <2>1. PICK r : r = [code |-> 200, of |-> request[1].of, body |-> <<>>]
    OBVIOUS
  <2>2. queue' = Append(queue, r) /\ pc = "dispatch" /\ r.of = request[1].of
    BY <1>3, <2>1 DEF RequestStatic, Dispatching
  <2>3. (i \in DOMAIN queue /\ queue'[i] = queue[i]) \/ queue'[i] = r
    BY <1>1, <2>2
  <2> QED  BY <2>2, <2>3
<1>4. ASSUME NEW m \in Runs, CgiEof(m)
      PROVE  (\E j \in DOMAIN queue : queue[j].of = n) \/ (n \in Runs /\ Started(n))
  <2>1. PICK r : r = [code |-> 200, of |-> m, body |-> cgiBuf[m]]
    OBVIOUS
  <2>2. (queue' = queue \/ queue' = Append(queue, r)) /\ r.of = m /\ Started(m)
    BY <1>4, <2>1 DEF CgiEof, Started
  <2>3. (i \in DOMAIN queue /\ queue'[i] = queue[i]) \/ queue'[i] = r
    BY <1>1, <2>2
  <2> QED  BY <2>2, <2>3
<1>5. CASE SendResponse
  <2>1. queue' = Tail(queue) /\ queue # <<>>
    BY <1>5 DEF SendResponse
  <2>2. i + 1 \in DOMAIN queue /\ queue'[i] = queue[i + 1]
    BY <1>1, <2>1
  <2> QED  BY <2>2
<1>6. queue' = queue \/ RequestStatic \/ SendResponse \/ \E m \in Runs : CgiEof(m)
  BY DEF Next, vars, Server, Send, Receive, RequestTooLarge, RequestIncomplete, GetRequestThrows,
         TakeRequest, BadRequest, CgiData, Run, RequestCgi, Cgi
<1> QED  BY <1>2, <1>3, <1>4, <1>5, <1>6

\* What is received was received before, was queued, is being dispatched, or is refused.
LEMMA GotGrows ==
    ASSUME IInv, BodiesInv, [Next]_vars, NEW i \in DOMAIN got', NEW n, n = got'[i].of
    PROVE  \/ \E j \in DOMAIN got : got[j].of = n /\ got[j].code = got'[i].code
           \/ (\E j \in DOMAIN queue : queue[j].of = n) /\ got'[i].code # 413
           \/ pc = "dispatch" /\ request[1].of = n /\ got'[i].code # 413
           \/ TooLarge /\ Last(buf).of = n /\ ~TakeRequest
<1> USE DEF IInv
<1>1. queue \in Seq(Response)
  BY DEF TypeOK
<1>2. ASSUME NEW r \in Response, got' = Sent(r)
      PROVE  \/ \E j \in DOMAIN got : got[j].of = n /\ got[j].code = got'[i].code
             \/ n = r.of /\ got'[i].code = r.code
  <2>1. (i \in DOMAIN got /\ got'[i] = got[i]) \/ got'[i] = getResponse(r)
    BY <1>2, SentIs
  <2>2. PICK y : y = getResponse(r)
    OBVIOUS
  <2>3. y.of = r.of /\ y.code = r.code
    BY <2>2, SentIs
  <2> QED  BY <2>1, <2>2, <2>3
<1>3. CASE got' = got
  BY <1>3
<1>4. CASE SendResponse
  <2>1. PICK r : r = Head(queue)
    OBVIOUS
  <2>2. got' = Sent(r) /\ r \in Response /\ 1 \in DOMAIN queue /\ r = queue[1]
    BY <1>1, <1>4, <2>1 DEF SendResponse
  <2>3. r.code = 200
    BY <2>2 DEF BodiesInv, Queueable
  <2> QED  BY <1>2, <2>2, <2>3
<1>5. CASE RequestTooLarge
  <2>1. PICK m : m = Last(buf).of
    OBVIOUS
  <2>2. PICK r : r = errorResponse(413, m)
    OBVIOUS
  <2>3. m \in Runs /\ got' = Sent(r) /\ TooLarge /\ ~TakeRequest
    BY <1>5, <2>1, <2>2, LargeFront DEF RequestTooLarge, TakeRequest
  <2>4. r \in Response /\ r.of = m
    BY <2>2, <2>3, AnswerIs
  <2> QED  BY <1>2, <2>1, <2>3, <2>4
<1>6. CASE BadRequest
  <2>1. PICK m : m = request[1].of
    OBVIOUS
  <2>2. PICK r : r = errorResponse(400, m)
    OBVIOUS
  <2>3. m \in Runs /\ got' = Sent(r) /\ pc = "dispatch"
    BY <1>6, <2>1, <2>2, RunsAre DEF BadRequest, Dispatching, DispatchInv
  <2>4. r \in Response /\ r.of = m /\ r.code = 400
    BY <2>2, <2>3, AnswerIs
  <2> QED  BY <1>2, <2>1, <2>3, <2>4
<1>7. got' = got \/ SendResponse \/ RequestTooLarge \/ BadRequest
  BY DEF Next, vars, Server, Send, Receive, RequestIncomplete, GetRequestThrows, RequestStatic,
         TakeRequest, CgiData, CgiEof, Run, RequestCgi, Cgi
<1> QED  BY <1>3, <1>4, <1>5, <1>6, <1>7

\* A run was started before, or is being dispatched.
LEMMA RunsGrow ==
    ASSUME IInv, [Next]_vars, NEW n \in Runs, Started(n)'
    PROVE  Started(n) \/ (pc = "dispatch" /\ request[1].of = n)
<1>1. child \in [Runs -> Child]
  BY DEF IInv, TypeOK, PipeTypeOK
<1>2. CASE child' = child
  BY <1>2 DEF Started
<1>3. CASE RequestCgi
  <2>1. PICK m : m = request[1].of
    OBVIOUS
  <2>2. child' = [child EXCEPT ![m].st = "run", ![m].prog = Kind] /\ pc = "dispatch"
    BY <1>3, <2>1 DEF RequestCgi, run, Dispatching
  <2> QED  BY <1>1, <2>1, <2>2 DEF Started
<1>4. ASSUME NEW m \in Runs, Cgi(m) PROVE Started(n)
  <2>1. child[m].st = "run" /\ \A k \in Runs \ {m} : child'[k] = child[k]
    BY <1>1, <1>4 DEF Cgi, Process, childRead, childWrite, childExit
  <2> QED  BY <2>1 DEF Started
<1>5. child' = child \/ RequestCgi \/ \E m \in Runs : Cgi(m)
  BY DEF Next, vars, Server, Send, Receive, RequestTooLarge, RequestIncomplete, GetRequestThrows,
         TakeRequest, BadRequest, RequestStatic, CgiEof, CgiData, SendResponse, Run,
         writeBody, returnFromRun, pipeVars
<1> QED  BY <1>2, <1>3, <1>4, <1>5

\* What is handled after a step was handled before it, or is taken or refused by it.
LEMMA HandledGrows ==
    ASSUME IInv, BodiesInv, [Next]_vars, NEW n \in SentUpTo, Handled(n)'
    PROVE  \/ Handled(n)
           \/ TakeRequest /\ getRequest(buf)[1].of = n
           \/ TooLarge /\ Last(buf).of = n /\ ~TakeRequest
<1>1. n \in Runs
  BY RunsAre DEF IInv
<1>2. CASE Started(n)'
  BY <1>1, <1>2, RunsGrow DEF Handled
<1>3. ASSUME NEW i \in DOMAIN queue', queue'[i].of = n PROVE Handled(n)
  BY <1>3, QueueGrows DEF Handled
<1>4. ASSUME NEW i \in DOMAIN got', got'[i].of = n
      PROVE  Handled(n) \/ (TooLarge /\ Last(buf).of = n /\ ~TakeRequest)
  BY <1>4, GotGrows DEF Handled, Answered
<1>5. ASSUME pc' = "dispatch", request'[1].of = n
      PROVE  Handled(n) \/ (TakeRequest /\ getRequest(buf)[1].of = n)
  <2>1. CASE TakeRequest
    BY <1>5, <2>1, TakeStream DEF IInv
  <2>2. CASE ~TakeRequest
    <3>1. pc = "dispatch" /\ taken' = taken
      BY <1>5, <2>2 DEF Next, vars, Server, Send, Receive, RequestTooLarge, RequestIncomplete,
         GetRequestThrows, RequestStatic, BadRequest, CgiData, CgiEof, SendResponse, Run, RequestCgi,
         Cgi, Processing, Dispatching, Looping
    <3>2. request' = request
      BY <3>1 DEF request
    <3> QED  BY <1>5, <3>1, <3>2 DEF Handled
  <2> QED  BY <2>1, <2>2
<1> QED  BY <1>2, <1>3, <1>4, <1>5 DEF Handled, Answered

\* So what is refused.
LEMMA RefusedGrows ==
    ASSUME IInv, BodiesInv, [Next]_vars, NEW n \in SentUpTo, Refused(n)'
    PROVE  Refused(n) \/ (TooLarge /\ Last(buf).of = n)
<1>1. PICK i \in DOMAIN got' : got'[i].of = n /\ got'[i].code = 413
  BY DEF Refused
<1> QED  BY <1>1, GotGrows DEF Refused

LEMMA ThrowsOnlyFor ==
    ASSUME IInv, AlignedInv, AnswersInv, [Next]_vars, up' = "getRequest"
    PROVE  /\ ~Delimited(Len(taken) + 1)
           /\ sent' = sent /\ taken' = taken
<1> USE DEF IInv
<1>1. CASE up = "getRequest"
  <2>1. sent' = sent /\ taken' = taken
    BY <1>1 DEF Next, vars, Server, Send, Receive, RequestTooLarge, RequestIncomplete,
         GetRequestThrows, TakeRequest, RequestStatic, BadRequest, CgiData, CgiEof, SendResponse, Run,
         RequestCgi, Cgi, Processing, Dispatching, Looping
  <2> QED  BY <1>1, <2>1 DEF AnswersInv
<1>2. CASE up # "getRequest"
  <2>1. GetRequestThrows
    BY <1>2 DEF Next, vars, Server, Send, Receive, RequestTooLarge, RequestIncomplete,
         TakeRequest, RequestStatic, BadRequest, CgiData, CgiEof, SendResponse, Run,
         RequestCgi, Cgi, Processing, Dispatching
  <2>2. PICK n : n = Len(taken) + 1
    OBVIOUS
  <2>3. PICK r : r = sent[n].req
    OBVIOUS
  <2>4. headerEnd(buf) # npos /\ getRequestThrows(buf)
    BY <2>1 DEF GetRequestThrows, hasRequest
  <2>5. buf # <<>>
    <3>1. ASSUME Len(buf) = 0 PROVE FALSE
      <4>1. DOMAIN buf = {}
        BY <3>1, BufferIsFront
      <4>2. {p \in DOMAIN buf : buf[p].t = "CL"} = {}
        BY <4>1
      <4> QED  BY <2>4, <4>2, FindLeast DEF contentLengthPos, getRequestThrows
    <3> QED  BY <3>1, BufferIsFront
  <2>6. ASSUME Delimited(n) PROVE FALSE
    <3>1. /\ r.field \in BOOLEAN /\ r.size \in Nat
          /\ r.field => lengthEnd(buf) = 5 /\ atoi(buf) = r.size
          /\ ~r.field => contentLengthPos(buf) = npos
      BY <2>2, <2>3, <2>4, <2>5, <2>6, FrontFound
    <3> QED  BY <2>4, <3>1 DEF getRequestThrows, npos
  <2>7. sent' = sent /\ taken' = taken
    BY <2>1 DEF GetRequestThrows, Processing
  <2> QED  BY <2>2, <2>6, <2>7
<1> QED  BY <1>1, <1>2

\* Nothing is taken and nothing sent.
LEMMA AnswersRest ==
    ASSUME IInv, BodiesInv, AlignedInv, AnswersInv, [Next]_vars,
           sent' = sent, taken' = taken, Stream' = Stream
    PROVE  AnswersInv'
<1>1. ~TakeRequest
  <2>1. ASSUME TakeRequest PROVE FALSE
    BY <2>1, TakeStream, TypesOf DEF IInv
  <2> QED  BY <2>1
<1>2. SentUpTo' = SentUpTo
  BY DEF SentUpTo
<1>3. ASSUME NEW n \in SentUpTo
      PROVE  /\ Delimited(n)' = Delimited(n) /\ Done(n)' = Done(n) /\ Blocked(n)' = Blocked(n)
             /\ WaitedFor(n)' = WaitedFor(n) /\ InStream(n)' = InStream(n)
  BY DEF Delimited, Done, Blocked, Size, WaitedFor, InStream, SentUpTo
<1>4. ASSUME NEW n \in SentUpTo, Handled(n)' \/ WaitedFor(n) PROVE Done(n)
  <2>1. CASE TooLarge /\ Last(buf).of = n
    BY <2>1, LargeRefused DEF Done
  <2> QED  BY <1>1, <1>4, <2>1, HandledGrows DEF AnswersInv
<1>5. ASSUME NEW n \in SentUpTo, Refused(n)', Delimited(n) PROVE Blocked(n)
  <2>1. CASE TooLarge /\ Last(buf).of = n
    BY <1>5, <2>1, LargeRefused
  <2> QED  BY <1>5, <2>1, RefusedGrows DEF AnswersInv
<1>6. \A n \in SentUpTo : InStream(n) /\ Delimited(n) => n > Len(taken)
  BY DEF AnswersInv
<1>7. up' = "getRequest" => ~Delimited(Len(taken) + 1)
  BY ThrowsOnlyFor
<1>8. Delimited(Len(taken) + 1)' = Delimited(Len(taken) + 1)
  BY DEF Delimited
<1>9. \A n \in SentUpTo' :
         /\ Handled(n)' \/ WaitedFor(n)' => Done(n)'
         /\ Refused(n)' /\ Delimited(n)' => Blocked(n)'
         /\ InStream(n)' /\ Delimited(n)' => n > Len(taken)'
  BY <1>2, <1>3, <1>4, <1>5, <1>6
<1> QED  BY <1>7, <1>8, <1>9 DEF AnswersInv

LEMMA AnswersTake ==
    ASSUME IInv, BodiesInv, AlignedInv, AnswersInv, TakeRequest
    PROVE  AnswersInv'
<1> USE DEF IInv
<1>1. PICK k : k = Len(taken) + 1
  OBVIOUS
<1>2. /\ sent' = sent /\ Len(taken') = k /\ Len(taken) \in Nat /\ k \in Nat /\ Longer
      /\ Len(sent) \in Nat
  BY <1>1, TakeStream, TypesOf, Same
<1>3. SentUpTo' = SentUpTo /\ [Next]_vars
  BY <1>2 DEF SentUpTo, Next, Server
<1>4. ASSUME NEW n \in SentUpTo
      PROVE  /\ Delimited(n)' = Delimited(n) /\ WaitedFor(n)' = WaitedFor(n) /\ n \in Nat
             /\ Delimited(n) /\ Blocked(n) => Blocked(n)'
             /\ Done(n) => Done(n)'
  <2>1. Delimited(n)' = Delimited(n) /\ WaitedFor(n)' = WaitedFor(n) /\ n \in Nat
    BY <1>2, <1>3 DEF Delimited, WaitedFor, SentUpTo
  <2>2. ASSUME Delimited(n), Blocked(n) PROVE Blocked(n)'
    <3>1. PICK m \in 1..n : m > Len(taken) /\ Size(m) > client_max_body_size
      BY <2>2 DEF Blocked
    <3>2. m \in Nat /\ m \in SentUpTo /\ Size(m)' = Size(m)
      BY <1>2, <2>1, <3>1 DEF SentUpTo, Size
    <3>3. ASSUME m = k PROVE FALSE
      <4>1. Delimited(k)
        BY <1>2, <2>1, <2>2, <3>1, <3>3, DelimitedLess
      <4>2. Size(k) <= client_max_body_size
        BY <1>1, <4>1, TakenWhole
      <4>3. Size(k) \in Nat /\ client_max_body_size \in Nat
        BY <3>2, <3>3, TypesOf, ExchangeAssumption
      <4> QED  BY <3>1, <3>3, <4>2, <4>3
    <3>4. m > k
      BY <1>1, <1>2, <3>1, <3>2, <3>3
    <3> QED  BY <1>2, <3>1, <3>2, <3>4 DEF Blocked
  <2>3. Done(n) => Done(n)'
    BY <1>1, <1>2, <2>1, <2>2 DEF Done
  <2> QED  BY <2>1, <2>2, <2>3
<1>5. PICK q : q = totalRequestSize(buf)
  OBVIOUS
<1>6. /\ q \in 2..Len(buf) /\ Len(buf) \in Nat /\ getRequest(buf)[1] = buf[1]
      /\ 1 \in DOMAIN Stream /\ Stream[1] = buf[1]
  <2>1. q \in 2..Len(buf) /\ Len(buf) \in Nat
    BY <1>5, TakeBounds, TypesOf DEF TakeRequest
  <2>2. 1 \in 1..q /\ 1 \in 1..Len(buf)
    BY <2>1
  <2> QED  BY <1>5, <2>1, <2>2, TakeStream, BufferIsFront
<1>7. ASSUME NEW n \in SentUpTo, buf[1].of = n, Delimited(n) PROVE n = k
  <2>1. n > Len(taken)
    BY <1>6, <1>7 DEF AnswersInv, InStream
  <2>2. Delimited(Len(taken))
    BY <1>2, <1>4, <1>7, <2>1, DelimitedLess
  <2> QED  BY <1>1, <1>2, <1>6, <1>7, <2>2 DEF AlignedInv
<1>8. ASSUME NEW n \in SentUpTo, Handled(n)' \/ WaitedFor(n) PROVE Done(n)'
  <2>1. CASE getRequest(buf)[1].of = n
    <3>1. Delimited(n) => n = k
      BY <1>6, <1>7, <2>1
    <3> QED  BY <1>2, <1>4, <3>1 DEF Done
  <2> QED  BY <1>3, <1>4, <1>8, <2>1, HandledGrows DEF AnswersInv
<1>9. ASSUME NEW n \in SentUpTo, Refused(n)', Delimited(n) PROVE Blocked(n)
  <2>1. got' = got
    BY DEF TakeRequest
  <2>2. Refused(n)
    BY <1>9, <2>1 DEF Refused
  <2> QED  BY <1>9, <2>2 DEF AnswersInv
<1>10. ASSUME NEW n \in SentUpTo, InStream(n)', Delimited(n) PROVE n > k
  <2>1. PICK t : t = Stream'
    OBVIOUS
  <2>2. PICK i \in DOMAIN t : t[i].of = n
    BY <1>10, <2>1 DEF InStream
  <2>3. t \in Seq(Token) /\ q + Len(t) = Len(Stream) /\ \A j \in 1..Len(t) : t[j] = Stream[q + j]
    <3>1. buf' \in Seq(Token) /\ arrived' \in Seq(Token)
      BY TakeStream, TypesOf
    <3>2. t \in Seq(Token)
      BY <2>1, <3>1 DEF Stream
    <3> QED  BY <1>5, <2>1, <3>2, TakeStream
  <2>4. q + i \in DOMAIN Stream /\ Stream[q + i].of = n
    <3>1. Stream \in Seq(Token) /\ q \in Nat
      BY <1>6, TypesOf
    <3> QED  BY <2>2, <2>3, <3>1
  <2>5. n > Len(taken)
    BY <1>10, <2>4 DEF AnswersInv, InStream
  <2>6. Delimited(k)
    BY <1>1, <1>2, <1>4, <1>10, <2>5, DelimitedLess
  <2>7. IF k = Len(sent) THEN t = <<>> ELSE t # <<>> /\ t[1].of = k + 1
    BY <1>1, <2>1, <2>6, TakenWhole
  <2>8. k # Len(sent) /\ t[1].of = k + 1 /\ 1 \in DOMAIN t /\ i \in Nat /\ i >= 1
    <3>1. t # <<>>
      BY <2>2, <2>3
    <3> QED  BY <2>2, <2>3, <2>7, <3>1
  <2>9. t[1].of <= t[i].of
    <3>1. CASE i = 1
      BY <1>2, <2>8, <3>1
    <3>2. CASE i # 1
      <4>1. Orderly(Stream)'
        BY TakeStream DEF StreamInv
      <4>2. Ordered(t)
        BY <2>1, <4>1 DEF Orderly, Ordered
      <4> QED  BY <2>2, <2>8, <3>2, <4>2 DEF Ordered
    <3> QED  BY <3>1, <3>2
  <2> QED  BY <1>2, <1>4, <2>2, <2>8, <2>9
<1>11. up' = "up" /\ \A n \in SentUpTo' :
         /\ Handled(n)' \/ WaitedFor(n)' => Done(n)'
         /\ Refused(n)' /\ Delimited(n)' => Blocked(n)'
         /\ InStream(n)' /\ Delimited(n)' => n > Len(taken)'
  <2>1. up' = "up"
    BY DEF TakeRequest, Processing
  <2> QED  BY <1>2, <1>3, <1>4, <1>8, <1>9, <1>10, <2>1
<1> QED  BY <1>11 DEF AnswersInv

LEMMA AnswersSend ==
    ASSUME IInv, BodiesInv, AlignedInv, AnswersInv, NEW r \in Requests, Send(r)
    PROVE  AnswersInv'
<1> USE DEF IInv
<1>1. PICK k : k = Len(sent) + 1
  OBVIOUS
<1>2. PICK x : x = Text(k, r)
  OBVIOUS
<1>3. /\ Len(sent) \in Nat /\ Len(taken) \in Nat /\ Len(sent') = k /\ Longer
      /\ SentUpTo = 1..Len(sent) /\ SentUpTo' = 1..k
      /\ Stream' = Stream \o x
      /\ UNCHANGED <<taken, queue, got, pc, up, child>> /\ up = "up"
  BY <1>1, <1>2, TypesOf, SendStream, SendKeeps DEF Send, pipeVars, SentUpTo
<1>4. k \in Runs /\ k \in Nat
  BY <1>1, <1>3, ExchangeAssumption DEF Send
<1>5. x \in Seq(Token) /\ \A i \in 1..Len(x) : x[i].of = k
  <2>1. r \in Request /\ (r.size > 0 => r.field)
    BY ExchangeAssumption
  <2> QED  BY <1>2, <1>4, <2>1, TextTokens, StreamAssumption
<1>6. \A n \in SentUpTo' : n \in SentUpTo \/ n = k
  BY <1>1, <1>3
<1>7. k \notin SentUpTo
  BY <1>1, <1>3
<1>8. ASSUME NEW n PROVE (Handled(n)' => Handled(n)) /\ (Refused(n)' => Refused(n))
  BY <1>3 DEF Handled, Refused, Started, Answered, request
<1>9. ASSUME NEW n, InStream(n)' PROVE InStream(n) \/ n = k
  <2>1. PICK s : s = Stream
    OBVIOUS
  <2>2. PICK t : t = s \o x
    OBVIOUS
  <2>3. t = Stream' /\ s \in Seq(Token)
    BY <1>3, <2>1, <2>2, TypesOf
  <2>4. PICK i \in DOMAIN t : t[i].of = n
    BY <1>9, <2>3 DEF InStream
  <2>5. (i \in DOMAIN s /\ t[i] = s[i]) \/ (i - Len(s) \in 1..Len(x) /\ t[i] = x[i - Len(s)])
    <3>1. /\ Len(s) \in Nat /\ Len(x) \in Nat /\ Len(t) = Len(s) + Len(x)
          /\ DOMAIN t = 1..Len(t) /\ DOMAIN s = 1..Len(s)
          /\ \A j \in 1..Len(s) : t[j] = s[j]
          /\ \A j \in 1..Len(t) : j > Len(s) => t[j] = x[j - Len(s)]
      <4>1. s \in Seq(Token) /\ x \in Seq(Token)
        BY <1>5, <2>3
      <4>2. t \in Seq(Token) /\ Len(t) = Len(s) + Len(x)
            /\ (\A j \in 1..Len(s) : t[j] = s[j])
            /\ (\A j \in 1..Len(t) : j > Len(s) => t[j] = x[j - Len(s)])
        BY ONLY <2>2, <4>1, Joined
      <4> QED  BY <4>1, <4>2
    <3>2. CASE i <= Len(s)
      BY <3>1, <3>2
    <3>3. CASE i > Len(s)
      <4>1. i - Len(s) \in 1..Len(x)
        BY <3>1, <3>3
      <4> QED  BY <3>1, <3>3, <4>1
    <3> QED  BY <3>1, <3>2, <3>3
  <2> QED  BY <1>5, <2>1, <2>4, <2>5 DEF InStream
<1>10. ASSUME NEW n \in SentUpTo
       PROVE  /\ Handled(n)' \/ WaitedFor(n)' => Done(n)'
              /\ Refused(n)' /\ Delimited(n)' => Blocked(n)'
              /\ InStream(n)' /\ Delimited(n)' => n > Len(taken)'
  <2>1. Delimited(n)' => Delimited(n)
    BY <1>3, DelimitedStays
  <2>2. Blocked(n) => Blocked(n)'
    BY <1>3, DoneStays
  <2>3. Done(n) => Done(n)'
    BY <1>3, DoneStays
  <2>4. WaitedFor(n)' => WaitedFor(n) \/ Handled(n)
    <3>1. ASSUME NEW m \in SentUpTo', n < m, sent'[m].waited
          PROVE  WaitedFor(n) \/ Handled(n)
      <4>1. CASE m \in SentUpTo
        BY <1>3, <3>1, <4>1 DEF WaitedFor, Longer
      <4>2. CASE m = k
        <5>1. PICK w : w = [req |-> r, waited |-> Waited]
          OBVIOUS
        <5>2. sent' = Append(sent, w)
          BY <5>1 DEF Send
        <5>3. sent'[k] = w
          <6>1. sent \in Seq([req: Requests, waited: BOOLEAN])
            BY DEF TypeOK
          <6> QED  BY <1>1, <5>2, <6>1
        <5>4. Waited
          BY <3>1, <4>2, <5>1, <5>3
        <5>5. n \in DOMAIN sent
          <6>1. sent \in Seq([req: Requests, waited: BOOLEAN])
            BY DEF TypeOK
          <6>2. DOMAIN sent = 1..Len(sent)
            BY <6>1
          <6> QED  BY <1>3, <6>2
        <5> QED  BY <5>4, <5>5 DEF Waited, Handled
      <4> QED  BY <1>6, <3>1, <4>1, <4>2
    <3> QED  BY <3>1 DEF WaitedFor
  <2>5. InStream(n)' => InStream(n)
    BY <1>7, <1>9
  <2> QED  BY <1>3, <1>8, <2>1, <2>2, <2>3, <2>4, <2>5 DEF AnswersInv
<1>11. /\ ~(Handled(k)' \/ WaitedFor(k)') /\ ~Refused(k)'
       /\ Delimited(k)' => k > Len(taken)'
  <2>1. ~WaitedFor(k)'
    BY <1>3 DEF WaitedFor
  <2>2. ~Refused(k)
    BY <1>7 DEF Refused, BodiesInv, Sendable
  <2>3. ~Handled(k)
    <3>1. ~Started(k)
      BY <1>1, <1>3, <1>4 DEF RunInv, RunOf
    <3> QED  BY <1>7, <3>1 DEF Handled, Answered, BodiesInv, Sendable, Queueable, DispatchInv
  <2>4. ASSUME Delimited(k)' PROVE k > Len(taken)
    <3>1. Delimited(k)
      BY <1>3, <2>4, DelimitedStays
    <3>2. Delimited(Len(taken))
      <4>1. \A m \in 1..Len(taken) : m \in 1..k \/ m >= Len(sent)
        BY <1>1, <1>3
      <4> QED  BY <3>1, <4>1 DEF Delimited
    <3>3. Len(taken) <= Len(sent)
      BY <3>2 DEF AlignedInv
    <3> QED  BY <1>1, <1>3, <3>3
  <2> QED  BY <1>3, <1>8, <2>1, <2>2, <2>3, <2>4
<1>12. up' # "getRequest"
  BY <1>3
<1> QED  BY <1>6, <1>10, <1>11, <1>12 DEF AnswersInv

LEMMA AnswersStep ==
    ASSUME IInv, BodiesInv, AlignedInv, AnswersInv, [Next]_vars
    PROVE  AnswersInv'
BY StreamRests, AnswersRest, AnswersTake, AnswersSend

\* The requests that were taken and the rest of the stream are all that was sent.
LEMMA StreamKeptStep ==
    ASSUME IInv, StreamKept, [Next]_vars
    PROVE  StreamKept'
<1> USE DEF IInv
<1>1. PICK F : F = FlattenSeq(taken)
  OBVIOUS
<1>2. /\ F \in Seq(Token) /\ taken \in Seq(Seq(Token))
      /\ buf \in Seq(Token) /\ arrived \in Seq(Token) /\ Stream \in Seq(Token)
  BY <1>1, TypesOf DEF StreamKept, TypeOK
<1>3. CASE TakeRequest
  <2>1. PICK g : g = getRequest(buf)
    OBVIOUS
  <2>2. /\ g \in Seq(Token) /\ taken' = Append(taken, g) /\ sent' = sent
        /\ buf' \in Seq(Token) /\ arrived' = arrived /\ g \o (buf' \o arrived') = Stream
    BY <1>3, <2>1, TakeStream
  <2>3. PICK u : u = buf' \o arrived'
    OBVIOUS
  <2>4. u \in Seq(Token) /\ g \o u = Stream /\ Stream' = u
    <3>1. buf' \in Seq(Token) /\ arrived' \in Seq(Token)
      BY <1>2, <2>2
    <3>2. u \in Seq(Token)
      BY ONLY <2>3, <3>1
    <3>3. Stream' = u
      BY ONLY <2>3 DEF Stream
    <3>4. g \o u = Stream
      BY <2>2, <2>3
    <3> QED  BY <3>2, <3>3, <3>4
  <2>5. FlattenSeq(Append(taken, g)) = F \o g
    BY <1>1, <1>2, <2>2, FlattenAppend
  <2>6. FlattenSeq(taken)' = F \o g
    BY <2>2, <2>5
  <2>7. (F \o g) \o u = F \o (g \o u)
    <3>1. F \in Seq(Token) /\ g \in Seq(Token) /\ u \in Seq(Token)
      BY <1>2, <2>2, <2>4
    <3> QED  BY ONLY <3>1, ConcatAssociative
  <2>8. F \o g \in Seq(Token)
    BY <1>2, <2>2
  <2>9. FlattenSeq([n \in DOMAIN sent |-> SentText(n)])' = FlattenSeq([n \in DOMAIN sent |-> SentText(n)])
    BY <2>2 DEF SentText
  <2> QED  BY <1>1, <2>4, <2>6, <2>7, <2>8, <2>9 DEF StreamKept
<1>4. CASE \E r \in Requests : Send(r)
  <2>1. PICK r \in Requests : Send(r)
    BY <1>4
  <2>2. PICK k : k = Len(sent) + 1
    OBVIOUS
  <2>3. PICK x : x = Text(k, r)
    OBVIOUS
  <2>4. /\ Len(sent) \in Nat /\ Len(sent') = k /\ taken' = taken
        /\ Stream' = Stream \o x
        /\ sent' = Append(sent, [req |-> r, waited |-> Waited])
    BY <2>1, <2>2, <2>3, TypesOf, SendStream DEF Send
  <2>5. sent \in Seq([req: Requests, waited: BOOLEAN]) /\ [req |-> r, waited |-> Waited] \in [req: Requests, waited: BOOLEAN]
    BY DEF TypeOK, Waited
  <2>6. /\ \A n \in 1..Len(sent) : sent'[n] = sent[n]
        /\ sent'[k].req = r /\ DOMAIN sent = 1..Len(sent) /\ DOMAIN sent' = 1..k
    BY <2>2, <2>4, <2>5
  <2>7. x \in Seq(Token)
    <3>1. k \in Runs
      BY <2>1, <2>2, <2>4, ExchangeAssumption DEF Send
    <3>2. r \in Request /\ (r.size > 0 => r.field)
      BY ExchangeAssumption
    <3> QED  BY <2>3, <3>1, <3>2, TextTokens, StreamAssumption
  <2>8. PICK m : m = [n \in 1..Len(sent) |-> SentText(n)]
    OBVIOUS
  <2>9. m \in Seq(Seq(Token))
    <3>1. ASSUME NEW n \in 1..Len(sent) PROVE SentText(n) \in Seq(Token)
      <4>1. /\ n \in Runs
            /\ sent[n].req \in Requests /\ sent[n].req \in Request
            /\ sent[n].req.size > 0 => sent[n].req.field
        <5>1. n \in SentUpTo /\ Len(sent) <= MaxReq /\ MaxReq \in Nat
          BY ExchangeAssumption DEF SentUpTo, StreamInv
        <5> QED  BY <2>4, <5>1, TypesOf, ExchangeAssumption DEF Size
      <4> QED  BY <4>1, TextTokens, StreamAssumption DEF SentText
    <3> QED  BY <2>4, <2>8, <3>1
  <2>10. [n \in 1..k |-> Text(n, sent'[n].req)] = Append(m, x)
    <3>1. PICK f : f = [n \in 1..k |-> Text(n, sent'[n].req)]
      OBVIOUS
    <3>2. Len(m) = Len(sent) /\ \A n \in 1..Len(sent) : m[n] = Text(n, sent[n].req)
      BY <2>4, <2>8, <2>9 DEF SentText
    <3>3. \A n \in 1..Len(sent) : n \in 1..k /\ f[n] = m[n]
      BY <2>2, <2>4, <2>6, <3>1, <3>2, SMTT(30)
    <3>4. f[k] = x
      BY <2>2, <2>3, <2>4, <2>6, <3>1
    <3>5. DOMAIN f = 1..k /\ f = [n \in 1..k |-> f[n]]
      BY <3>1
    <3>6. PICK a : a = Append(m, x)
      OBVIOUS
    <3>7. /\ DOMAIN a = 1..k /\ a[k] = x /\ a = [n \in 1..k |-> a[n]]
          /\ \A n \in 1..Len(sent) : a[n] = m[n]
      <4>1. a \in Seq(Seq(Token)) /\ Len(a) = k
        <5>1. a \in Seq(Seq(Token)) /\ Len(a) = Len(m) + 1
          BY ONLY <2>7, <2>9, <3>6
        <5> QED  BY <2>2, <3>2, <5>1
      <4>2. \A n \in 1..Len(m) : a[n] = m[n]
        BY <2>7, <2>9, <3>6
      <4>3. a[Len(m) + 1] = x
        BY <2>7, <2>9, <3>6
      <4>4. DOMAIN a = 1..k /\ a = [n \in DOMAIN a |-> a[n]]
        BY <4>1
      <4> QED  BY <2>2, <3>2, <4>2, <4>3, <4>4
    <3>8. \A n \in 1..k : n \in 1..Len(sent) \/ n = k
      BY <2>2, <2>4
    <3>9. \A n \in 1..k : f[n] = a[n]
      BY <3>3, <3>4, <3>7, <3>8
    <3>10. f = a
      BY <3>5, <3>7, <3>9
    <3> QED  BY <3>1, <3>6, <3>10
  <2>11. FlattenSeq(Append(m, x)) = FlattenSeq(m) \o x
    BY <2>7, <2>9, FlattenAppend
  <2>12. FlattenSeq([n \in DOMAIN sent |-> SentText(n)])' = FlattenSeq(m) \o x
    BY <2>6, <2>10, <2>11 DEF SentText
  <2>13. F \o Stream = FlattenSeq(m)
    BY <1>1, <2>6, <2>8 DEF StreamKept
  <2>14. PICK s : s = Stream
    OBVIOUS
  <2>15. (F \o s) \o x = F \o (s \o x)
    <3>1. s \in Seq(Token)
      BY <1>2, <2>14
    <3> QED  BY ONLY <1>2, <2>7, <3>1, ConcatAssociative, SMTT(30)
  <2> QED  BY <1>1, <1>2, <2>4, <2>12, <2>13, <2>14, <2>15 DEF StreamKept
<1>5. CASE sent' = sent /\ taken' = taken /\ Stream' = Stream
  BY <1>5 DEF StreamKept, SentText
<1> QED  BY <1>3, <1>4, <1>5, StreamRests

LEMMA BeginningTaken ==
    ASSUME Init
    PROVE  TInv
<1>1. /\ Stream = <<>> /\ sent = <<>> /\ taken = <<>> /\ queue = <<>> /\ got = <<>>
      /\ Len(taken) = 0 /\ Len(sent) = 0 /\ SentUpTo = {} /\ DOMAIN taken = {} /\ up = "up"
  BY DEF Init, Stream, SentUpTo
<1>2. BodiesInv /\ AlignedInv /\ TakenInv /\ AnswersInv
  BY <1>1 DEF BodiesInv, AlignedInv, TakenInv, AnswersInv
<1>3. FlattenSeq(<<>>) = <<>>
  BY DEF FlattenSeq
<1>4. PICK m : m = [n \in DOMAIN sent |-> SentText(n)]
  OBVIOUS
<1>6. m = <<>>
  BY <1>1, <1>4
<1>5. StreamKept
  <2>1. FlattenSeq(taken) = <<>>
    BY <1>1, <1>3
  <2>2. FlattenSeq([n \in DOMAIN sent |-> SentText(n)]) = <<>>
    BY <1>3, <1>4, <1>6
  <2>3. <<>> \in Seq(Token) /\ <<>> \o <<>> = <<>>
    <3>1. <<>> \in Seq(Token)
      OBVIOUS
    <3> QED  BY <3>1, ConcatEmptySeq
  <2>4. FlattenSeq(taken) \o Stream = <<>>
    BY <1>1, <2>1, <2>3
  <2> QED  BY <2>1, <2>2, <2>3, <2>4 DEF StreamKept
<1> QED  BY <1>2, <1>5 DEF TInv

LEMMA Invariant == Spec => [](IInv /\ TInv)
<1>1. Init => IInv /\ TInv
  BY Beginning, BeginningTaken
<1>2. IInv /\ TInv /\ [Next]_vars => IInv' /\ TInv'
  <2> SUFFICES ASSUME IInv, TInv, [Next]_vars PROVE IInv' /\ TInv'
    OBVIOUS
  <2>1. IInv'
    BY Step
  <2>2. BodiesInv' /\ AlignedInv' /\ AnswersInv'
    BY BodiesStep, AlignedStep, AnswersStep DEF TInv
  <2>3. TakenInv' /\ StreamKept'
    BY TakenStep, StreamKeptStep DEF TInv
  <2> QED  BY <2>1, <2>2, <2>3 DEF TInv
<1> QED  BY <1>1, <1>2, PTL DEF Spec

\* What was taken and what follows from the invariant about it.
LEMMA TakenIsSent ==
    ASSUME IInv, TInv
    PROVE  TakenAsSent
<1>1. \A n \in DOMAIN taken : Delimited(n) => taken[n] = Text(n, sent[n].req)
  BY DEF TInv, TakenInv, SentText
<1>2. PICK F : F = FlattenSeq(taken)
  OBVIOUS
<1>3. (F \o buf) \o arrived = F \o (buf \o arrived)
  <2>1. F \in Seq(Token) /\ buf \in Seq(Token) /\ arrived \in Seq(Token)
    BY <1>2, TypesOf DEF IInv, TInv, StreamKept
  <2> QED  BY ONLY <2>1, ConcatAssociative
<1>4. F \o (buf \o arrived) = FlattenSeq([n \in DOMAIN sent |-> Text(n, sent[n].req)])
  BY <1>2 DEF TInv, StreamKept, Stream, SentText
<1> QED  BY <1>1, <1>2, <1>3, <1>4 DEF TakenAsSent

LEMMA LimitHolds ==
    ASSUME IInv, TInv
    PROVE  LimitKept
<1>1. ASSUME NEW n \in DOMAIN taken, Delimited(n)
      PROVE  sent[n].req.size <= client_max_body_size
  BY <1>1 DEF TInv, TakenInv, Size
<1>2. ASSUME NEW i \in DOMAIN got, got[i].code = 413, Delimited(got[i].of)
      PROVE  \E m \in 1..got[i].of :
                m > Len(taken) /\ sent[m].req.size > client_max_body_size
  <2>1. got[i].of \in SentUpTo
    BY DEF TInv, BodiesInv, Sendable
  <2>2. Refused(got[i].of)
    BY <1>2 DEF Refused
  <2> QED  BY <1>2, <2>1, <2>2 DEF TInv, AnswersInv, Blocked, Size
<1> QED  BY <1>1, <1>2 DEF LimitKept

LEMMA BodiesReturn ==
    ASSUME TInv
    PROVE  BodyComesBack
BY DEF TInv, BodiesInv, Sendable, Repeats, BodyComesBack

LEMMA SumOfThree ==
    ASSUME NEW a \in Nat, NEW b \in Nat, NEW c \in Nat
    PROVE  a + b + c \in Nat /\ a + b + c >= a + b /\ a + b + c >= c
OBVIOUS

LEMMA SumAtLeast ==
    ASSUME NEW a \in Nat, NEW b \in Nat, NEW c \in Nat, NEW s \in Nat, NEW k \in Nat,
           a + b + c <= s, b >= k, c >= 1
    PROVE  s >= a + k + 1 /\ s > 0
OBVIOUS

\* While the write is not done, its run has been given no more than its body.
LEMMA UnderWay ==
    ASSUME IInv, writing.left # <<>>, NEW n, n = writing.run
    PROVE  /\ n \in Runs /\ RunOf(n) /\ Started(n) /\ stdin[n].open
           /\ sent[n].req.kind = child[n].prog
           /\ Left(n) = writing.left /\ Len(Left(n)) \in Nat /\ Len(Left(n)) >= 1
           /\ Given(n) <= Size(n) /\ Size(n) \in Nat /\ Given(n) \in Nat
<1> USE DEF IInv
<1>1. writing.run # 0
  BY DEF RunInv
<1>2. n \in Runs /\ Started(n) /\ stdin[n].open /\ Left(n) = writing.left
  BY <1>1, WritingRun
<1>3. RunOf(n)
  BY <1>2 DEF RunInv
<1>4. /\ child[n].read \in Seq(Bytes) /\ stdin[n].data \in Seq(Bytes \cup {Banner})
      /\ Left(n) \in Seq(Bytes) /\ n \in Nat \ {0}
  BY <1>2, PipeTypes
<1>5. Left(n) # <<>>
  BY <1>2
<1>6. Len(Left(n)) \in Nat /\ Len(Left(n)) >= 1 /\ Given(n) \in Nat
  <2>1. PICK l : l = Left(n)
    OBVIOUS
  <2>2. l \in Seq(Bytes) /\ l # <<>>
    BY <1>4, <1>5, <2>1
  <2>3. Len(l) \in Nat /\ Len(l) >= 1
    BY <2>2
  <2>4. Len(child[n].read) \in Nat /\ Len(stdin[n].data) \in Nat
    BY <1>4
  <2>5. Len(Left(n)) \in Nat /\ Len(Left(n)) >= 1
    BY ONLY <2>1, <2>3
  <2>6. Given(n) \in Nat
    BY ONLY <2>4, <2>5, SumOfThree DEF Given
  <2> QED  BY <2>5, <2>6
<1>7. n <= Len(sent) /\ sent[n].req.kind = child[n].prog /\ Given(n) <= Size(n)
  BY <1>2, <1>3 DEF RunOf, Input
<1>8. Size(n) \in Nat
  <2>1. n \in SentUpTo
    BY <1>4, <1>7, TypesOf DEF SentUpTo
  <2> QED  BY <2>1, TypesOf
<1> QED  BY <1>2, <1>3, <1>6, <1>7, <1>8

LEMMA WaitsBeyond ==
    ASSUME IInv
    PROVE  WaitsOnlyBeyondCapacity
<1> SUFFICES ASSUME MutualWait
             PROVE  LET r == sent[writing.run].req IN
                    \/ r.kind = "echo" /\ r.size > 2 * Capacity
                    \/ r.kind = "blind" /\ r.size > Capacity /\ Chatter > Capacity
  BY DEF WaitsOnlyBeyondCapacity
<1>1. PICK n : n = writing.run
  OBVIOUS
<1>2. /\ writing.left # <<>> /\ Full(stdin[n]) /\ child[n].st = "run" /\ Pending(n) /\ Full(stdout[n])
  BY <1>1 DEF MutualWait, Asleep
<1>3. /\ n \in Runs /\ RunOf(n) /\ Started(n) /\ stdin[n].open
      /\ sent[n].req.kind = child[n].prog
      /\ Len(Left(n)) \in Nat /\ Len(Left(n)) >= 1 /\ Given(n) <= Size(n) /\ Size(n) \in Nat
  BY <1>1, <1>2, UnderWay
<1>4. stdout[n].open /\ Len(Out(n)) = child[n].wrote
  BY <1>2, <1>3 DEF RunOf, Ended, Output
<1>5. /\ Len(child[n].read) \in Nat /\ Len(stdin[n].data) \in Nat /\ Len(stdout[n].data) \in Nat
      /\ child[n].wrote \in Nat /\ child[n].prog \in Programs
      /\ cgiBuf[n] \in Texts /\ stdout[n].data \in Texts
  BY <1>3, PipeTypes DEF IInv
<1>6. Len(Out(n)) = Len(cgiBuf[n]) + Len(stdout[n].data) /\ Len(cgiBuf[n]) \in Nat
  BY <1>5 DEF Out, Texts
<1>7. Capacity \in Nat /\ Chatter \in Nat
  BY PipeAssumption
<1>8. /\ Len(stdin[n].data) >= Capacity /\ child[n].wrote >= Capacity
  <2>1. Len(stdin[n].data) >= Capacity /\ Len(stdout[n].data) >= Capacity
    BY <1>2 DEF Full
  <2>2. child[n].wrote = Len(cgiBuf[n]) + Len(stdout[n].data)
    BY <1>4, <1>6
  <2>3. child[n].wrote >= Len(stdout[n].data)
    <3>1. PICK a : a = Len(cgiBuf[n])
      OBVIOUS
    <3>2. PICK b : b = Len(stdout[n].data)
      OBVIOUS
    <3>3. a \in Nat /\ b \in Nat /\ child[n].wrote = a + b
      BY <1>5, <1>6, <2>2, <3>1, <3>2
    <3>4. a + b >= b
      BY ONLY <3>3
    <3> QED  BY ONLY <3>2, <3>3, <3>4
  <2>4. child[n].wrote >= Capacity
    BY ONLY <1>5, <1>7, <2>1, <2>3
  <2> QED  BY <2>1, <2>4
<1>9. Size(n) >= Len(child[n].read) + Capacity + 1
  <2>1. Len(child[n].read) + Len(stdin[n].data) + Len(Left(n)) <= Size(n)
    BY <1>3 DEF Given
  <2>2. /\ Len(child[n].read) \in Nat /\ Len(stdin[n].data) \in Nat /\ Len(Left(n)) \in Nat
        /\ Size(n) \in Nat /\ Len(Left(n)) >= 1
    BY <1>3, <1>5
  <2>3. Len(stdin[n].data) >= Capacity
    BY <1>8
  <2> QED  BY ONLY <1>7, <2>1, <2>2, <2>3, SumAtLeast
<1>10. CASE child[n].prog = "echo"
  <2>1. child[n].wrote <= Len(child[n].read)
    BY <1>2, <1>10 DEF Pending
  <2>2. Size(n) > 2 * Capacity
    BY <1>3, <1>5, <1>7, <1>8, <1>9, <2>1
  <2> QED  BY <1>1, <1>3, <1>10, <2>2 DEF Size
<1>11. CASE child[n].prog = "gather"
  BY <1>2, <1>3, <1>11 DEF Pending, AtEof
<1>12. CASE child[n].prog = "blind"
  <2>1. child[n].wrote < Chatter
    BY <1>2, <1>12 DEF Pending
  <2>2. Chatter > Capacity /\ Size(n) > Capacity
    BY <1>3, <1>5, <1>7, <1>8, <1>9, <2>1
  <2> QED  BY <1>1, <1>3, <1>12, <2>2 DEF Size
<1> QED  BY <1>5, <1>10, <1>11, <1>12 DEF Programs

LEMMA EndsFor ==
    ASSUME IInv, TInv
    PROVE  EndsOnlyFor
<1>1. up = "getRequest" => ~Delimited(Len(taken) + 1)
  BY DEF TInv, AnswersInv
<1>2. ASSUME up = "SIGPIPE"
      PROVE  sent[writing.run].req.kind = "blind" /\ sent[writing.run].req.size > 0
  <2>1. PICK n : n = writing.run
    OBVIOUS
  <2>2. writing.left # <<>> /\ Exited(n)
    BY <1>2, <2>1 DEF IInv, RunInv, Broken, Exited
  <2>3. /\ RunOf(n) /\ Started(n) /\ stdin[n].open /\ sent[n].req.kind = child[n].prog
        /\ Len(Left(n)) \in Nat /\ Len(Left(n)) >= 1 /\ Given(n) <= Size(n)
        /\ Size(n) \in Nat /\ n \in Runs
    BY <2>1, <2>2, UnderWay
  <2>4. child[n].prog = "blind"
    BY <2>2, <2>3 DEF RunOf, Ended
  <2>5. Len(child[n].read) \in Nat /\ Len(stdin[n].data) \in Nat
    <3>1. child[n].read \in Seq(Bytes) /\ stdin[n].data \in Seq(Bytes \cup {Banner})
      BY <2>3, PipeTypes DEF IInv
    <3> QED  BY <3>1
  <2>6. Size(n) > 0
    <3>1. Len(child[n].read) + Len(stdin[n].data) + Len(Left(n)) <= Size(n)
      BY <2>3 DEF Given
    <3>2. Len(Left(n)) \in Nat /\ Size(n) \in Nat /\ Len(Left(n)) >= 1
      BY <2>3
    <3>3. Len(stdin[n].data) >= 0 /\ 0 \in Nat
      BY <2>5
    <3> QED  BY ONLY <2>5, <3>1, <3>2, <3>3, SumAtLeast
  <2> QED  BY <2>1, <2>3, <2>4, <2>6 DEF Size
<1> QED  BY <1>1, <1>2 DEF EndsOnlyFor

-----------------------------------------------------------------------------
(* The theorems. *)

\* The types of Exchange hold in every state: all that is taken from the stream, given
\* to programs and read from them stays within what its places may hold
\* (Connection.hpp, CgiExecuter.cpp:23-52, Responses.hpp).
THEOREM ExchangeTypes == Spec => []TypeOK
<1>1. IInv /\ TInv => TypeOK
  BY DEF IInv
<1> QED  BY <1>1, Invariant, PTL

\* For any requests and any way in which the stream of bytes is split, getRequest
\* returns each delimited request whole, once and in order, and no byte is lost,
\* repeated or moved on the way (Connection.cpp:90-127, Server.cpp:50).
THEOREM RequestsTakenAsSent == Spec => []TakenAsSent
<1>1. IInv /\ TInv => TakenAsSent
  BY TakenIsSent
<1> QED  BY <1>1, Invariant, PTL

\* No request whose body is larger than client_max_body_size is taken, and whoever is
\* answered 413 has sent one or is behind it in the stream, where it stays, whatever
\* limit is configured and whatever follows in the buffer (Server.cpp:52-54).
THEOREM LimitIsKept == Spec => []LimitKept
<1>1. IInv /\ TInv => LimitKept
  BY LimitHolds
<1> QED  BY <1>1, Invariant, PTL

\* What a program that repeats its input sends back is the body of the request it was
\* started for, for any bodies and any capacity of the pipes, and it can be cut short
\* only when another child's exit interrupts the write of a body no pipe holds
\* (CgiExecuter.cpp:41, requestParser.cpp:61-64, Server.cpp:139-141, Responses.cpp:27-37).
THEOREM BodiesComeBack == Spec => []BodyComesBack
<1>1. IInv /\ TInv => BodyComesBack
  BY BodiesReturn
<1> QED  BY <1>1, Invariant, PTL

\* run() and the program it has started wait for each other only if the body, and what
\* the program writes before it has read it, are larger than the pipes, whatever their
\* capacity (CgiExecuter.cpp:41-44).
THEOREM WaitsBeyondCapacity == Spec => []WaitsOnlyBeyondCapacity
<1>1. IInv /\ TInv => WaitsOnlyBeyondCapacity
  BY WaitsBeyond
<1> QED  BY <1>1, Invariant, PTL

\* The process ends only over a field of one request that is taken for another's, or
\* over a program that does not read a body it was sent (Connection.cpp:111-117,
\* CgiExecuter.cpp:41).
THEOREM ExchangeEndsOnlyFor == Spec => []EndsOnlyFor
<1>1. IInv /\ TInv => EndsOnlyFor
  BY EndsFor
<1> QED  BY <1>1, Invariant, PTL
=============================================================================
