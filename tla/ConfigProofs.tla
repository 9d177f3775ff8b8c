------------------------------- MODULE ConfigProofs -------------------------------
(***************************************************************************)
(* Types, the reading of a text and the servers that listen (Config), for  *)
(* every set of files and of tokens that slip into them.                   *)
(*                                                                         *)
(* The inductive invariant IInv puts each call of the parser in its text   *)
(* and on a context of the tree (Calls), the children of a context after   *)
(* it (Tree), so that what is taken for a server is a context, and each    *)
(* server and each socket at the place of its context (Made, Sockets),     *)
(* made in the order of main (InOrder).                                    *)
(***************************************************************************)
EXTENDS Config, SequenceTheorems, NaturalsInduction, WellFoundedInduction, TLAPS

-----------------------------------------------------------------------------
(* The least and the greatest of a set of numbers. *)

LEMMA LeastOf ==
    ASSUME NEW S \in SUBSET Nat, S # {}
    PROVE  \E m \in S : \A y \in S : m <= y
<1>1. PICK m \in S : \A y \in S : ~(<<y, m>> \in OpToRel(<, Nat))
  BY NatLessThanWellFounded, WFMin
<1>2. \A y \in S : ~(y < m)
  BY <1>1 DEF OpToRel
<1> QED
  BY <1>2

LEMMA MinIn ==
    ASSUME NEW S \in SUBSET Nat, S # {}
    PROVE  Min(S) \in S /\ \A y \in S : Min(S) <= y
BY LeastOf DEF Min

LEMMA MaxIn ==
    ASSUME NEW n \in Nat, NEW S \in SUBSET (1..n), S # {}
    PROVE  Max(S) \in S /\ \A y \in S : y <= Max(S)
<1> DEFINE U == {m \in Nat : \A y \in S : y <= m}
<1>1. n \in U
  OBVIOUS
<1>2. PICK m \in U : \A u \in U : m <= u
  <2>1. U \in SUBSET Nat /\ U # {}
    BY <1>1
  <2> HIDE DEF U
  <2>2. QED
    BY <2>1, LeastOf
<1>3. m \in S
  <2>1. CASE \E y \in S : y >= m
    BY <1>2, <2>1
  <2>2. CASE \A y \in S : y < m
    <3>1. m \in Nat /\ \A y \in S : y \in Nat /\ y <= m - 1
      BY <2>2
    <3>2. m - 1 \in Nat
      <4>1. PICK y \in S : TRUE
        OBVIOUS
      <4>2. y \in Nat /\ y <= m - 1
        BY <3>1, <4>1
      <4> QED
        BY <3>1, <4>2
    <3>3. m - 1 \in U
      BY <3>1, <3>2
    <3>4. m <= m - 1
      BY <1>2, <3>3
    <3> QED
      BY <3>1, <3>4
  <2>3. QED
    BY <1>2, <2>1, <2>2
<1>4. QED
  BY <1>2, <1>3 DEF Max

-----------------------------------------------------------------------------
(* What recursive functions of numbers return. *)

\* A set of numbers that holds 0 and no first number that is left out holds all.
LEMMA CountUp ==
    ASSUME NEW n \in Nat, NEW P, 0 \in P, \A k \in 0..(n - 1) : k \in P => (k + 1) \in P
    PROVE  \A k \in 0..n : k \in P
<1> DEFINE S == {k \in 0..n : k \notin P}
<1> SUFFICES ASSUME S # {} PROVE FALSE
  OBVIOUS
<1>1. PICK m \in S : \A y \in S : m <= y
  <2>1. S \in SUBSET Nat
    OBVIOUS
  <2> HIDE DEF S
  <2>2. QED
    BY <2>1, LeastOf
<1>2. m # 0 /\ m - 1 \in 0..(n - 1)
  BY <1>1
<1>3. m - 1 \in P
  BY <1>1, <1>2
<1>4. QED
  BY <1>1, <1>2, <1>3

\* f is the function by which FlattenSeq is defined, for the first n sequences.
Flattens(f, s, n) == f = [i \in 1..n |-> IF i = 1 THEN s[i] ELSE f[i - 1] \o s[i]]

LEMMA FlattensAt ==
    ASSUME NEW s, NEW n \in Nat, NEW f, Flattens(f, s, n)
    PROVE  \A i \in 1..n : f[i] = IF i = 1 THEN s[i] ELSE f[i - 1] \o s[i]
BY DEF Flattens

LEMMA FlattensExists ==
    ASSUME NEW s, NEW n \in Nat
    PROVE  \E f : Flattens(f, s, n)
<1> DEFINE P == {m \in Nat : \E f : Flattens(f, s, m)}
<1>1. 0 \in P
  <2>1. Flattens(<<>>, s, 0)
    <3>1. 1..0 = {}
      OBVIOUS
    <3> QED
      BY <3>1 DEF Flattens
  <2> QED
    BY <2>1
<1>2. ASSUME NEW m \in 0..(n - 1), m \in P PROVE m + 1 \in P
  <2>1. PICK f : Flattens(f, s, m)
    BY <1>2
  <2> DEFINE g == [i \in 1..(m + 1) |-> IF i = 1 THEN s[i] ELSE f[i - 1] \o s[i]]
  <2>2. \A i \in 1..m : f[i] = g[i]
    <3>1. \A i \in 1..m : f[i] = IF i = 1 THEN s[i] ELSE f[i - 1] \o s[i]
      BY <2>1, FlattensAt
    <3>2. \A i \in 1..m : i \in 1..(m + 1)
      OBVIOUS
    <3> QED
      BY <3>1, <3>2
  <2>3. \A i \in 1..(m + 1) : i # 1 => f[i - 1] = g[i - 1]
    <3>1. \A i \in 1..(m + 1) : i # 1 => i - 1 \in 1..m
      OBVIOUS
    <3> QED
      BY <2>2, <3>1
  <2>4. g = [i \in 1..(m + 1) |-> IF i = 1 THEN s[i] ELSE g[i - 1] \o s[i]]
    BY <2>3
  <2> HIDE DEF g
  <2>5. Flattens(g, s, m + 1)
    BY <2>4 DEF Flattens
  <2>6. m + 1 \in Nat
    OBVIOUS
  <2> QED
    BY <2>5, <2>6
<1>3. n \in P
  <2> HIDE DEF P
  <2>1. \A m \in 0..n : m \in P
    BY <1>1, <1>2, CountUp
  <2> QED
    BY <2>1
<1> QED
  BY <1>3

\* FlattenSeq makes a sequence of what its sequences consist of.
LEMMA FlattenSeqType ==
    ASSUME NEW T, NEW s \in Seq(Seq(T))
    PROVE  FlattenSeq(s) \in Seq(T)
<1> DEFINE n == Len(s)
           f == CHOOSE g : Flattens(g, s, n)
<1>1. n \in Nat /\ \A i \in 1..n : s[i] \in Seq(T)
  OBVIOUS
<1>2. CASE n = 0
  BY <1>2 DEF FlattenSeq
<1>3. CASE n # 0
  <2>1. Flattens(f, s, n)
    BY <1>1, FlattensExists
  <2>2. FlattenSeq(s) = f[n]
    BY <1>3 DEF FlattenSeq, Flattens
  <2> HIDE DEF f, n
  <2>3. \A i \in 1..n : f[i] = IF i = 1 THEN s[i] ELSE f[i - 1] \o s[i]
    BY <1>1, <2>1, FlattensAt
  <2> DEFINE P == {m \in Nat : m \in 1..n => f[m] \in Seq(T)}
  <2>4. 0 \in P
    OBVIOUS
  <2>5. ASSUME NEW m \in 0..(n - 1), m \in P PROVE m + 1 \in P
    <3>1. m + 1 \in 1..n /\ (m + 1) - 1 = m /\ s[m + 1] \in Seq(T) /\ (m + 1 = 1 \/ m \in 1..n)
      BY <1>1
    <3>2. f[m + 1] = IF m + 1 = 1 THEN s[m + 1] ELSE f[m] \o s[m + 1]
      BY <2>3, <3>1
    <3>3. m + 1 # 1 => f[m] \in Seq(T)
      BY <2>5, <3>1
    <3>4. f[m + 1] \in Seq(T)
      BY <3>1, <3>2, <3>3
    <3>5. m + 1 \in Nat
      OBVIOUS
    <3> QED
      BY <3>4, <3>5
  <2>6. n \in P
    <3> HIDE DEF P
    <3>1. \A m \in 0..n : m \in P
      BY <1>1, <2>4, <2>5, CountUp
    <3> QED
      BY <1>1, <3>1
  <2>7. f[n] \in Seq(T)
    BY <1>1, <1>3, <2>6
  <2> QED
    BY <2>2, <2>7
<1> QED
  BY <1>2, <1>3

-----------------------------------------------------------------------------
(* FoldLeft. *)

\* h is a function by which FoldLeft is defined: op folds d over sets of its places,
\* from b on.
Folds(h, op, b, d, n) ==
    h = [s \in SUBSET (1..n) |-> IF s = {} THEN b ELSE op[<<h[s \ {Max(s)}], d[Max(s)]>>]]

LEMMA FoldsExists ==
    ASSUME NEW R, NEW D, NEW op \in [R \X D -> R], NEW b \in R, NEW d \in Seq(D)
    PROVE  \E h \in [SUBSET (1..Len(d)) -> R] : Folds(h, op, b, d, Len(d))
<1> DEFINE n == Len(d)
           P == {k \in Nat : \E h \in [SUBSET (1..k) -> R] : Folds(h, op, b, d, k)}
<1>1. n \in Nat /\ \A i \in 1..n : d[i] \in D
  OBVIOUS
<1> HIDE DEF n
<1>2. 0 \in P
  <2> DEFINE h == [s \in SUBSET (1..0) |-> b]
  <2>1. 1..0 = {}
    OBVIOUS
  <2>2. h \in [SUBSET (1..0) -> R] /\ Folds(h, op, b, d, 0)
    BY <2>1 DEF Folds
  <2> QED
    BY <2>2
<1>3. ASSUME NEW k \in 0..(n - 1), k \in P PROVE k + 1 \in P
  <2>1. PICK h \in [SUBSET (1..k) -> R] : Folds(h, op, b, d, k)
    BY <1>3
  <2> DEFINE m == k + 1
             g == [s \in SUBSET (1..m) |-> IF m \in s THEN op[<<h[s \ {m}], d[m]>>] ELSE h[s]]
  <2>2. m \in 1..n /\ d[m] \in D /\ m \in Nat /\ k \in Nat
    BY <1>1
  <2>3. ASSUME NEW s \in SUBSET (1..m)
        PROVE  /\ m \in s => s \ {m} \in SUBSET (1..k) /\ Max(s) = m
               /\ m \notin s => s \in SUBSET (1..k)
    <3>1. \A i \in 1..m : i # m => i \in 1..k
      BY <2>2
    <3>2. ASSUME m \in s PROVE Max(s) = m
      <4>1. Max(s) \in s /\ m <= Max(s)
        BY <2>2, <3>2, MaxIn
      <4>2. Max(s) \in 1..m
        BY <4>1
      <4> QED
        BY <2>2, <4>1, <4>2
    <3> QED
      BY <3>1, <3>2
  <2>4. g \in [SUBSET (1..m) -> R]
    <3>1. ASSUME NEW s \in SUBSET (1..m) PROVE g[s] \in R
      BY <2>2, <2>3
    <3> QED
      BY <3>1
  <2>5. ASSUME NEW s \in SUBSET (1..k) PROVE g[s] = h[s] /\ s \in SUBSET (1..m)
    <3>1. m \notin s /\ 1..k \subseteq 1..m
      BY <2>2
    <3> QED
      BY <3>1
  <2>6. ASSUME NEW s \in SUBSET (1..m)
        PROVE  g[s] = IF s = {} THEN b ELSE op[<<g[s \ {Max(s)}], d[Max(s)]>>]
    <3>1. CASE m \in s
      BY <2>3, <2>5, <3>1
    <3>2. CASE m \notin s
      <4>1. s \in SUBSET (1..k) /\ s \ {Max(s)} \in SUBSET (1..k)
        BY <2>3, <3>2
      <4>2. h[s] = IF s = {} THEN b ELSE op[<<h[s \ {Max(s)}], d[Max(s)]>>]
        BY <2>1, <4>1 DEF Folds
      <4> QED
        BY <2>5, <4>1, <4>2
    <3> QED
      BY <3>1, <3>2
  <2>7. Folds(g, op, b, d, m)
    <3>1. g = [s \in SUBSET (1..m) |-> g[s]]
      OBVIOUS
    <3> HIDE DEF g
    <3> QED
      BY <2>6, <3>1 DEF Folds
  <2> QED
    BY <2>2, <2>4, <2>7
<1>4. n \in P
  <2> HIDE DEF P
  <2>1. \A k \in 0..n : k \in P
    BY <1>1, <1>2, <1>3, CountUp
  <2> QED
    BY <1>1, <2>1
<1> QED
  BY <1>4 DEF n

\* What holds of the set without its greatest member, and then of it, holds of all.
LEMMA AllSets ==
    ASSUME NEW n \in Nat, NEW P, {} \in P,
           \A s \in SUBSET (1..n) : s # {} /\ s \ {Max(s)} \in P => s \in P
    PROVE  \A s \in SUBSET (1..n) : s \in P
<1> DEFINE Q == {k \in Nat : \A s \in SUBSET (1..k) : s \in SUBSET (1..n) => s \in P}
<1>1. 0 \in Q
  <2>1. \A s \in SUBSET (1..0) : s = {}
    OBVIOUS
  <2> QED
    BY <2>1
<1>2. ASSUME NEW k \in 0..(n - 1), k \in Q PROVE k + 1 \in Q
  <2> SUFFICES ASSUME NEW s \in SUBSET (1..(k + 1)), s \in SUBSET (1..n), s # {} PROVE s \in P
    <3>1. k + 1 \in Nat
      OBVIOUS
    <3> QED
      BY <3>1
  <2>1. Max(s) \in s /\ \A y \in s : y <= Max(s)
    BY MaxIn
  <2>2. s \ {Max(s)} \in SUBSET (1..k)
    <3>1. ASSUME NEW y \in s, y # Max(s) PROVE y \in 1..k
      <4>1. \A z \in s : z \in 1..(k + 1)
        OBVIOUS
      <4> HIDE DEF Q
      <4>2. y \in 1..(k + 1) /\ Max(s) \in 1..(k + 1)
        <5>1. Max(s) \in s
          BY <2>1
        <5> QED
          BY <4>1, <5>1
      <4>3. y <= Max(s) /\ y # Max(s) /\ k \in Nat
        BY <2>1, <3>1
      <4> QED
        BY <4>2, <4>3
    <3> QED
      BY <3>1
  <2>3. s \ {Max(s)} \in P
    BY <1>2, <2>2
  <2> QED
    BY <2>3
<1>3. n \in Q
  <2> HIDE DEF Q
  <2>1. \A k \in 0..n : k \in Q
    BY <1>1, <1>2, CountUp
  <2> QED
    BY <2>1
<1> QED
  BY <1>3

-----------------------------------------------------------------------------
(* The text. *)

LEMMA ShortSeq ==
    ASSUME NEW T, NEW x \in T, NEW y \in T
    PROVE  <<>> \in Seq(T) /\ <<x>> \in Seq(T) /\ <<x, y>> \in Seq(T)
OBVIOUS

LEMMA WordType == ASSUME NEW w \in STRING PROVE Word(w) \in Token
BY DEF Word, Token

LEMMA KeywordTypes ==
    /\ Contexts \subseteq STRING /\ Directives \subseteq STRING
    /\ "" \in STRING /\ "location" \in STRING /\ "server" \in STRING /\ "http" \in STRING
    /\ Open \in Token /\ Close \in Token
<1>1. /\ Contexts \subseteq STRING /\ Directives \subseteq STRING
      /\ "" \in STRING /\ "{" \in STRING /\ "}" \in STRING
  BY ConfigAssumption
<1>2. "location" \in Contexts /\ "server" \in Contexts /\ "http" \in Contexts
  BY DEF Contexts
<1>3. Open \in Token /\ Close \in Token
  BY <1>1, WordType DEF Open, Close
<1> QED
  BY <1>1, <1>2, <1>3

LEMMA LinesType ==
    ASSUME NEW ds \in Seq(Directive)
    PROVE  Lines(ds) \in Seq(Token)
<1>1. ASSUME NEW d \in Directive PROVE Line(d) \in Seq(Token)
  <2>1. d.name \in STRING /\ d.values \in Seq(STRING)
    BY KeywordTypes DEF Directive
  <2>2. <<Word(d.name)>> \in Seq(Token)
    BY <2>1, WordType, ShortSeq
  <2> DEFINE v == [i \in DOMAIN d.values |-> [w |-> d.values[i], semi |-> i = Len(d.values)]]
  <2>3. v \in Seq(Token)
    <3>1. Len(d.values) \in Nat /\ DOMAIN d.values = 1..Len(d.values)
      BY <2>1
    <3>2. \A i \in DOMAIN d.values : [w |-> d.values[i], semi |-> i = Len(d.values)] \in Token
      BY <2>1 DEF Token
    <3>3. v \in [1..Len(d.values) -> Token]
      BY <3>1, <3>2
    <3> QED
      BY <3>1, <3>3
  <2> HIDE DEF v
  <2>4. <<Word(d.name)>> \o v \in Seq(Token)
    BY <2>2, <2>3
  <2> QED
    BY <2>4 DEF Line, v
<1> DEFINE t == [i \in DOMAIN ds |-> Line(ds[i])]
<1>2. t \in Seq(Seq(Token))
  <2>1. Len(ds) \in Nat /\ DOMAIN ds = 1..Len(ds) /\ \A i \in DOMAIN ds : ds[i] \in Directive
    OBVIOUS
  <2>2. t \in [1..Len(ds) -> Seq(Token)]
    BY <1>1, <2>1
  <2> QED
    BY <2>1, <2>2
<1> HIDE DEF t
<1> QED
  BY <1>2, FlattenSeqType DEF Lines, t

LEMMA BlockType == ASSUME NEW t \in Seq(Token) PROVE Block(t) \in Seq(Token)
<1>1. <<Open>> \in Seq(Token) /\ <<Close>> \in Seq(Token)
  BY KeywordTypes, ShortSeq
<1> QED
  BY <1>1 DEF Block

LEMMA LocationTextType == ASSUME NEW l \in Location PROVE LocationText(l) \in Seq(Token)
<1>1. l.pattern \in STRING /\ l.body \in Seq(Directive)
  BY DEF Location
<1>2. <<Word("location"), Word(l.pattern)>> \in Seq(Token)
  BY <1>1, KeywordTypes, WordType, ShortSeq
<1>3. Block(Lines(l.body)) \in Seq(Token)
  BY <1>1, LinesType, BlockType
<1> QED
  BY <1>2, <1>3 DEF LocationText

LEMMA ServerTextType == ASSUME NEW s \in Server PROVE ServerText(s) \in Seq(Token)
<1>1. s.before \in Seq(Directive) /\ s.after \in Seq(Directive) /\ s.locations \in Seq(Location)
  BY DEF Server
<1> DEFINE t == [i \in DOMAIN s.locations |-> LocationText(s.locations[i])]
<1>2. t \in Seq(Seq(Token))
  <2>1. /\ Len(s.locations) \in Nat /\ DOMAIN s.locations = 1..Len(s.locations)
        /\ \A i \in DOMAIN s.locations : s.locations[i] \in Location
    BY <1>1
  <2>2. t \in [1..Len(s.locations) -> Seq(Token)]
    BY <2>1, LocationTextType
  <2> QED
    BY <2>1, <2>2
<1> HIDE DEF t
<1>3. /\ Lines(s.before) \in Seq(Token) /\ FlattenSeq(t) \in Seq(Token)
      /\ Lines(s.after) \in Seq(Token) /\ <<Word("server")>> \in Seq(Token)
  BY <1>1, <1>2, LinesType, FlattenSeqType, KeywordTypes, WordType, ShortSeq
<1>4. Lines(s.before) \o FlattenSeq(t) \o Lines(s.after) \in Seq(Token)
  BY <1>3
<1>5. Block(Lines(s.before) \o FlattenSeq(t) \o Lines(s.after)) \in Seq(Token)
  BY <1>4, BlockType
<1> QED
  BY <1>3, <1>5 DEF ServerText, t

LEMMA TextType == ASSUME NEW f \in File PROVE Text(f) \in Seq(Token)
<1>1. f.main \in Seq(Directive) /\ f.servers \in Seq(Server)
  BY DEF File
<1> DEFINE t == [i \in DOMAIN f.servers |-> ServerText(f.servers[i])]
<1>2. t \in Seq(Seq(Token))
  <2>1. /\ Len(f.servers) \in Nat /\ DOMAIN f.servers = 1..Len(f.servers)
        /\ \A i \in DOMAIN f.servers : f.servers[i] \in Server
    BY <1>1
  <2>2. t \in [1..Len(f.servers) -> Seq(Token)]
    BY <2>1, ServerTextType
  <2> QED
    BY <2>1, <2>2
<1> HIDE DEF t
<1>3. /\ Lines(f.main) \in Seq(Token) /\ Block(FlattenSeq(t)) \in Seq(Token)
      /\ <<Word("http")>> \in Seq(Token) /\ <<>> \in Seq(Token)
  BY <1>1, <1>2, LinesType, FlattenSeqType, BlockType, KeywordTypes, WordType, ShortSeq
<1>4. <<Word("http")>> \o Block(FlattenSeq(t)) \in Seq(Token)
  BY <1>3
<1> DEFINE u == IF f.servers = <<>> THEN <<>> ELSE <<Word("http")>> \o Block(FlattenSeq(t))
<1>5. u \in Seq(Token)
  BY <1>3, <1>4
<1> HIDE DEF u
<1>6. Lines(f.main) \o u \in Seq(Token)
  BY <1>3, <1>5
<1> QED
  BY <1>6 DEF Text, t, u

LEMMA SlipsType == ASSUME NEW t \in Seq(Token) PROVE Slips(t) \subseteq Seq(Token)
<1>1. ASSUME NEW u \in Seq(Token), NEW i \in 1..Len(u) PROVE RemoveAt(u, i) \in Seq(Token)
  <2>1. SubSeq(u, 1, i - 1) \in Seq(Token) /\ SubSeq(u, i + 1, Len(u)) \in Seq(Token)
    OBVIOUS
  <2> QED
    BY <2>1 DEF RemoveAt
<1>2. ASSUME NEW u \in Seq(Token), NEW i \in Nat, NEW x \in Token, i \in 1..(Len(u) + 1)
      PROVE InsertAt(u, i, x) \in Seq(Token)
  <2>1. /\ SubSeq(u, 1, i - 1) \in Seq(Token) /\ SubSeq(u, i, Len(u)) \in Seq(Token)
        /\ <<x>> \in Seq(Token)
    BY <1>2
  <2> QED
    BY <2>1 DEF InsertAt
<1>3. ASSUME NEW u \in Seq(Token), NEW i \in DOMAIN u
      PROVE  ReplaceAt(u, i, Word(u[i].w)) \in Seq(Token) /\ Len(ReplaceAt(u, i, Word(u[i].w))) = Len(u)
  <2>1. u[i] \in Token
    OBVIOUS
  <2>2. u[i].w \in STRING
    BY <2>1 DEF Token
  <2>3. Word(u[i].w) \in Token
    BY <2>2, WordType
  <2> HIDE DEF Token
  <2> QED
    BY <2>3 DEF ReplaceAt
<1>4. [w |-> "", semi |-> TRUE] \in Token
  BY KeywordTypes DEF Token
<1>5. \A i \in DOMAIN t : i \in Nat /\ i \in 1..Len(t)
  OBVIOUS
<1>6. Strays \subseteq Token
  BY ConfigAssumption
<1> DEFINE missing == {RemoveAt(t, i) : i \in DOMAIN t}
           stray   == {InsertAt(t, i, x) : i \in DOMAIN t, x \in Strays}
           lost    == {ReplaceAt(t, i, Word(t[i].w)) : i \in {j \in DOMAIN t : t[j].semi}}
           apart   == {InsertAt(ReplaceAt(t, i, Word(t[i].w)), i + 1, [w |-> "", semi |-> TRUE]) :
                          i \in {j \in DOMAIN t : t[j].semi /\ j < Len(t)}}
<1>11. Slips(t) = missing \cup stray \cup lost \cup apart
  BY DEF Slips
<1> SUFFICES ASSUME NEW u, u \in Slips(t) PROVE u \in Seq(Token)
  OBVIOUS
<1>7. CASE u \in missing
  BY <1>1, <1>5, <1>7
<1>8. CASE u \in stray
  <2>1. PICK i \in DOMAIN t, x \in Strays : u = InsertAt(t, i, x)
    BY <1>8
  <2> QED
    BY <1>2, <1>5, <1>6, <2>1
<1>9. CASE u \in lost
  <2>1. PICK i \in DOMAIN t : u = ReplaceAt(t, i, Word(t[i].w))
    BY <1>9
  <2> QED
    BY <1>3, <2>1
<1>10. CASE u \in apart
  <2>1. PICK i \in DOMAIN t : u = InsertAt(ReplaceAt(t, i, Word(t[i].w)), i + 1, [w |-> "", semi |-> TRUE])
    BY <1>10
  <2>2. PICK r : r = ReplaceAt(t, i, Word(t[i].w))
    OBVIOUS
  <2>3. r \in Seq(Token) /\ Len(r) = Len(t)
    BY <1>3, <2>2
  <2>4. i + 1 \in Nat /\ i + 1 \in 1..(Len(r) + 1)
    BY <1>5, <2>3
  <2> QED
    BY <1>2, <1>4, <2>1, <2>2, <2>3, <2>4
<1> QED
  <2> HIDE DEF missing, stray, lost, apart
  <2> QED
    BY <1>7, <1>8, <1>9, <1>10, <1>11

-----------------------------------------------------------------------------
(* What the adapter makes of directives. *)

Draft == [host: STRING, port: Nat, serverName: STRING, clientMaxBodySize: Nat,
          errorPages: SUBSET (Nat \X STRING), locations: Seq(LocationConfig)]

LEMMA NumberTypes == \A w : stoiSafe(w) \in Nat /\ stoul(w) \in Nat
BY ConfigAssumption DEF stoiSafe, stoul

LEMMA ApplyToServerType ==
    ASSUME NEW c \in Draft, NEW d \in Directive
    PROVE  applyToServer(c, d) \in Draft
<1> DEFINE v == d.values
<1>1. v \in Seq(STRING) /\ (v # <<>> => v[1] \in STRING /\ Last(v) \in STRING)
  BY DEF Directive, Last
<1>2. v # <<>> => errorPage(c.errorPages, v) \in SUBSET (Nat \X STRING)
  <2> DEFINE codes == {stoiSafe(v[i]) : i \in 1..(Len(v) - 1)}
  <2>1. codes \subseteq Nat
    BY NumberTypes
  <2>2. c.errorPages \subseteq Nat \X STRING
    BY DEF Draft
  <2> HIDE DEF codes
  <2>3. v # <<>> => codes \X {Last(v)} \subseteq Nat \X STRING
    BY <1>1, <2>1
  <2> QED
    BY <2>2, <2>3 DEF errorPage, codes
<1>3. stoiSafe(v[1]) \in Nat /\ stoul(v[1]) \in Nat
  BY NumberTypes
<1> DEFINE a == v[1]
           n == stoiSafe(v[1])
           m == stoul(v[1])
           e == errorPage(c.errorPages, v)
<1>4. v # <<>> => /\ [c EXCEPT !.host = a] \in Draft
                  /\ [c EXCEPT !.port = n] \in Draft
                  /\ [c EXCEPT !.serverName = a] \in Draft
                  /\ [c EXCEPT !.clientMaxBodySize = m] \in Draft
                  /\ [c EXCEPT !.errorPages = e] \in Draft
  <2> HIDE DEF v, a, n, m, e
  <2>1. v # <<>> => a \in STRING /\ n \in Nat /\ m \in Nat /\ e \in SUBSET (Nat \X STRING)
    BY <1>1, <1>2, <1>3 DEF a, n, m, e
  <2> QED
    BY <2>1 DEF Draft
<1>5. \/ applyToServer(c, d) = c
      \/ v # <<>> /\ \/ applyToServer(c, d) = [c EXCEPT !.host = a]
                     \/ applyToServer(c, d) = [c EXCEPT !.port = n]
                     \/ applyToServer(c, d) = [c EXCEPT !.serverName = a]
                     \/ applyToServer(c, d) = [c EXCEPT !.clientMaxBodySize = m]
                     \/ applyToServer(c, d) = [c EXCEPT !.errorPages = e]
  BY DEF applyToServer
<1> QED
  BY <1>4, <1>5

LEMMA ApplyToLocationType ==
    ASSUME NEW c \in LocationConfig, NEW d \in Directive
    PROVE  applyToLocation(c, d) \in LocationConfig
<1> DEFINE v == d.values
<1>1. v \in Seq(STRING) /\ (v # <<>> => v[1] \in STRING) /\ (Len(v) >= 2 => v[2] \in STRING)
  BY DEF Directive
<1> DEFINE a == v[1]
           b == a = "on"
           r == Append(c.redirect, <<stoiSafe(v[1]), v[2]>>)
<1>2. Len(v) >= 2 => r \in Seq(Nat \X STRING)
  <2>1. c.redirect \in Seq(Nat \X STRING)
    BY DEF LocationConfig
  <2>2. Len(v) >= 2 => <<stoiSafe(v[1]), v[2]>> \in Nat \X STRING
    BY <1>1, NumberTypes
  <2> QED
    BY <2>1, <2>2
<1>3. /\ v # <<>> => /\ [c EXCEPT !.root = a] \in LocationConfig
                     /\ [c EXCEPT !.allowMethods = v] \in LocationConfig
                     /\ [c EXCEPT !.autoindex = b] \in LocationConfig
                     /\ [c EXCEPT !.index = v] \in LocationConfig
                     /\ [c EXCEPT !.cgiInterpreter = a] \in LocationConfig
      /\ Len(v) >= 2 => [c EXCEPT !.redirect = r] \in LocationConfig
  <2> HIDE DEF v, a, b, r
  <2>1. (v # <<>> => a \in STRING) /\ v \in Seq(STRING) /\ b \in BOOLEAN
    BY <1>1 DEF a, b
  <2> QED
    BY <1>2, <2>1 DEF LocationConfig
<1>4. \/ applyToLocation(c, d) = c
      \/ v # <<>> /\ \/ applyToLocation(c, d) = [c EXCEPT !.root = a]
                     \/ applyToLocation(c, d) = [c EXCEPT !.allowMethods = v]
                     \/ applyToLocation(c, d) = [c EXCEPT !.autoindex = b]
                     \/ applyToLocation(c, d) = [c EXCEPT !.index = v]
                     \/ applyToLocation(c, d) = [c EXCEPT !.cgiInterpreter = a]
      \/ Len(v) >= 2 /\ applyToLocation(c, d) = [c EXCEPT !.redirect = r]
  BY DEF applyToLocation
<1> QED
  BY <1>3, <1>4

LEMMA ServerFold ==
    ASSUME NEW b \in Draft, NEW ds \in Seq(Directive)
    PROVE  FoldLeft(applyToServer, b, ds) \in Draft
<1> DEFINE n  == Len(ds)
           op == [p \in Draft \X Directive |-> applyToServer(p[1], p[2])]
           Eq(g) == g = [s \in SUBSET DOMAIN ds |->
                            IF s = {} THEN b ELSE applyToServer(g[s \ {Max(s)}], ds[Max(s)])]
           f == CHOOSE g : Eq(g)
<1>1. n \in Nat /\ DOMAIN ds = 1..n /\ \A i \in 1..n : ds[i] \in Directive
  OBVIOUS
<1>2. ASSUME NEW s \in SUBSET (1..n), s # {}
      PROVE  s \ {Max(s)} \in SUBSET (1..n) /\ Max(s) \in 1..n
  <2>1. Max(s) \in s
    BY <1>1, <1>2, MaxIn
  <2> QED
    BY <2>1
<1>3. op \in [Draft \X Directive -> Draft]
  <2>1. ASSUME NEW p \in Draft \X Directive PROVE applyToServer(p[1], p[2]) \in Draft
    BY ApplyToServerType
  <2> QED
    BY <2>1
<1>4. PICK h \in [SUBSET (1..n) -> Draft] : Folds(h, op, b, ds, n)
  <2> HIDE DEF op
  <2> QED
    BY <1>3, FoldsExists
<1>5. Eq(h)
  <2>1. ASSUME NEW s \in SUBSET (1..n)
        PROVE  h[s] = IF s = {} THEN b ELSE applyToServer(h[s \ {Max(s)}], ds[Max(s)])
    <3>1. h[s] = IF s = {} THEN b ELSE op[<<h[s \ {Max(s)}], ds[Max(s)]>>]
      BY <1>4 DEF Folds
    <3>2. s # {} => <<h[s \ {Max(s)}], ds[Max(s)]>> \in Draft \X Directive
      BY <1>1, <1>2, <1>4
    <3>3. \A x \in Draft, d \in Directive : op[<<x, d>>] = applyToServer(x, d)
      OBVIOUS
    <3> HIDE DEF op
    <3> QED
      BY <3>1, <3>2, <3>3
  <2>2. h = [s \in SUBSET (1..n) |-> h[s]]
    BY <1>4
  <2> QED
    BY <1>1, <2>1, <2>2
<1>6. Eq(f)
  BY <1>5
<1>7. FoldLeft(applyToServer, b, ds) = f[1..n]
  BY <1>1 DEF FoldLeft, MapThenFoldSet
<1> HIDE DEF f
<1> DEFINE P == {s \in SUBSET (1..n) : f[s] \in Draft}
<1>8. ASSUME NEW s \in SUBSET (1..n)
      PROVE  f[s] = IF s = {} THEN b ELSE applyToServer(f[s \ {Max(s)}], ds[Max(s)])
  BY <1>1, <1>6
<1>9. {} \in P
  BY <1>8
<1>10. ASSUME NEW s \in SUBSET (1..n), s # {}, s \ {Max(s)} \in P
       PROVE  s \in P
  <2>1. f[s \ {Max(s)}] \in Draft /\ ds[Max(s)] \in Directive
    BY <1>1, <1>2, <1>10
  <2>2. applyToServer(f[s \ {Max(s)}], ds[Max(s)]) \in Draft
    BY <2>1, ApplyToServerType
  <2>3. f[s] = applyToServer(f[s \ {Max(s)}], ds[Max(s)])
    BY <1>8, <1>10
  <2> QED
    BY <2>2, <2>3
<1>11. (1..n) \in P
  <2> HIDE DEF P, n
  <2>1. \A s \in SUBSET (1..n) : s \in P
    BY <1>1, <1>9, <1>10, AllSets
  <2> QED
    BY <2>1
<1> QED
  BY <1>7, <1>11

LEMMA LocationFold ==
    ASSUME NEW b \in LocationConfig, NEW ds \in Seq(Directive)
    PROVE  FoldLeft(applyToLocation, b, ds) \in LocationConfig
<1> DEFINE n  == Len(ds)
           op == [p \in LocationConfig \X Directive |-> applyToLocation(p[1], p[2])]
           Eq(g) == g = [s \in SUBSET DOMAIN ds |->
                            IF s = {} THEN b ELSE applyToLocation(g[s \ {Max(s)}], ds[Max(s)])]
           f == CHOOSE g : Eq(g)
<1>1. n \in Nat /\ DOMAIN ds = 1..n /\ \A i \in 1..n : ds[i] \in Directive
  OBVIOUS
<1>2. ASSUME NEW s \in SUBSET (1..n), s # {}
      PROVE  s \ {Max(s)} \in SUBSET (1..n) /\ Max(s) \in 1..n
  <2>1. Max(s) \in s
    BY <1>1, <1>2, MaxIn
  <2> QED
    BY <2>1
<1>3. op \in [LocationConfig \X Directive -> LocationConfig]
  <2>1. ASSUME NEW p \in LocationConfig \X Directive PROVE applyToLocation(p[1], p[2]) \in LocationConfig
    BY ApplyToLocationType
  <2> QED
    BY <2>1
<1>4. PICK h \in [SUBSET (1..n) -> LocationConfig] : Folds(h, op, b, ds, n)
  <2> HIDE DEF op
  <2> QED
    BY <1>3, FoldsExists
<1>5. Eq(h)
  <2>1. ASSUME NEW s \in SUBSET (1..n)
        PROVE  h[s] = IF s = {} THEN b ELSE applyToLocation(h[s \ {Max(s)}], ds[Max(s)])
    <3>1. h[s] = IF s = {} THEN b ELSE op[<<h[s \ {Max(s)}], ds[Max(s)]>>]
      BY <1>4 DEF Folds
    <3>2. s # {} => <<h[s \ {Max(s)}], ds[Max(s)]>> \in LocationConfig \X Directive
      BY <1>1, <1>2, <1>4
    <3>3. \A x \in LocationConfig, d \in Directive : op[<<x, d>>] = applyToLocation(x, d)
      OBVIOUS
    <3> HIDE DEF op
    <3> QED
      BY <3>1, <3>2, <3>3
  <2>2. h = [s \in SUBSET (1..n) |-> h[s]]
    BY <1>4
  <2> QED
    BY <1>1, <2>1, <2>2
<1>6. Eq(f)
  BY <1>5
<1>7. FoldLeft(applyToLocation, b, ds) = f[1..n]
  BY <1>1 DEF FoldLeft, MapThenFoldSet
<1> HIDE DEF f
<1> DEFINE P == {s \in SUBSET (1..n) : f[s] \in LocationConfig}
<1>8. ASSUME NEW s \in SUBSET (1..n)
      PROVE  f[s] = IF s = {} THEN b ELSE applyToLocation(f[s \ {Max(s)}], ds[Max(s)])
  BY <1>1, <1>6
<1>9. {} \in P
  BY <1>8
<1>10. ASSUME NEW s \in SUBSET (1..n), s # {}, s \ {Max(s)} \in P
       PROVE  s \in P
  <2>1. f[s \ {Max(s)}] \in LocationConfig /\ ds[Max(s)] \in Directive
    BY <1>1, <1>2, <1>10
  <2>2. applyToLocation(f[s \ {Max(s)}], ds[Max(s)]) \in LocationConfig
    BY <2>1, ApplyToLocationType
  <2>3. f[s] = applyToLocation(f[s \ {Max(s)}], ds[Max(s)])
    BY <1>8, <1>10
  <2> QED
    BY <2>2, <2>3
<1>11. (1..n) \in P
  <2> HIDE DEF P, n
  <2>1. \A s \in SUBSET (1..n) : s \in P
    BY <1>1, <1>9, <1>10, AllSets
  <2> QED
    BY <2>1
<1> QED
  BY <1>7, <1>11

\* Children are contexts.
ChildrenAreContexts ==
    \A n \in DOMAIN nodes : \A k \in DOMAIN nodes[n].children :
       nodes[n].children[k] \in (n + 1)..Len(nodes)

LEMMA LocationConfigType ==
    ASSUME nodes \in Seq(Context), NEW n \in DOMAIN nodes
    PROVE  convertToLocationConfig(n) \in LocationConfig
<1>1. /\ nodes[n].options \in Seq(STRING) /\ nodes[n].directives \in Seq(Directive)
      /\ nodes[n].options # <<>> => nodes[n].options[1] \in STRING
  <2>1. nodes[n] \in Context
    OBVIOUS
  <2>2. nodes[n].options \in Seq(STRING) /\ nodes[n].directives \in Seq(Directive)
    BY <2>1 DEF Context
  <2> QED
    BY <2>2
<1> DEFINE p == IF nodes[n].options = <<>> THEN "" ELSE nodes[n].options[1]
<1>2. p \in STRING
  BY <1>1, KeywordTypes
<1>3. noLocation \in LocationConfig
  <2>1. "" \in STRING /\ <<>> \in Seq(STRING) /\ <<>> \in Seq(Nat \X STRING) /\ FALSE \in BOOLEAN
    <3>1. <<>> \in Seq(STRING) /\ <<>> \in Seq(Nat \X STRING) /\ FALSE \in BOOLEAN
      OBVIOUS
    <3>2. "" \in STRING
      BY KeywordTypes
    <3> QED
      BY <3>1, <3>2
  <2> QED
    BY <2>1 DEF noLocation, LocationConfig
<1> HIDE DEF p
<1>4. [noLocation EXCEPT !.pattern = p] \in LocationConfig
  BY <1>2, <1>3 DEF LocationConfig
<1> QED
  BY <1>1, <1>4, LocationFold DEF convertToLocationConfig, p

LEMMA ServerConfigType ==
    ASSUME nodes \in Seq(Context), ChildrenAreContexts, NEW n \in DOMAIN nodes
    PROVE  /\ convertToServerConfig(n) \in Draft
           /\ ~throws(n) => convertToServerConfig(n) \in ServerConfig
<1>1. nodes[n].directives \in Seq(Directive) /\ nodes[n].children \in Seq(Nat)
  <2>1. nodes[n] \in Context
    OBVIOUS
  <2> QED
    BY <2>1 DEF Context
<1>2. newServer \in Draft
  <2>1. "" \in STRING
    BY KeywordTypes
  <2>2. <<>> \in Seq(LocationConfig) /\ {} \in SUBSET (Nat \X STRING) /\ 80 \in Nat
    OBVIOUS
  <2> QED
    BY <2>1, <2>2 DEF newServer, noServer, Draft
<1> DEFINE c  == FoldLeft(applyToServer, newServer, nodes[n].directives)
           ls == [i \in DOMAIN getChild(n) |-> convertToLocationConfig(getChild(n)[i])]
<1>3. c \in Draft
  BY <1>1, <1>2, ServerFold
<1>4. ls \in Seq(LocationConfig)
  <2>1. Len(getChild(n)) \in Nat /\ DOMAIN getChild(n) = 1..Len(getChild(n))
    BY <1>1 DEF getChild
  <2>2. \A i \in DOMAIN getChild(n) : getChild(n)[i] \in DOMAIN nodes
    BY DEF ChildrenAreContexts, getChild
  <2>3. ls \in [1..Len(getChild(n)) -> LocationConfig]
    BY <2>1, <2>2, LocationConfigType
  <2> QED
    BY <2>1, <2>3
<1>5. convertToServerConfig(n) = [c EXCEPT !.locations = ls]
  BY DEF convertToServerConfig
<1> HIDE DEF c, ls
<1>6. convertToServerConfig(n) \in Draft
  BY <1>3, <1>4, <1>5 DEF Draft
<1>7. ASSUME NEW d \in Draft, ~invalid(d) PROVE d \in ServerConfig
  <2>1. /\ d.host \in STRING /\ d.port \in Nat /\ d.serverName \in STRING
        /\ d.clientMaxBodySize \in Nat /\ d.errorPages \in SUBSET (Nat \X STRING)
        /\ d.locations \in Seq(LocationConfig)
        /\ d = [host |-> d.host, port |-> d.port, serverName |-> d.serverName,
                clientMaxBodySize |-> d.clientMaxBodySize, errorPages |-> d.errorPages,
                locations |-> d.locations]
    BY DEF Draft
  <2>2. /\ d.host # "" /\ d.port \in Ports /\ d.serverName # ""
        /\ d.clientMaxBodySize \in Nat \ {0} /\ d.locations # <<>>
    <3>1. /\ d.host # "" /\ d.port \in Ports /\ d.serverName # ""
          /\ ~(d.clientMaxBodySize < 1) /\ d.locations # <<>>
      BY Zenon, <1>7 DEF invalid
    <3>2. \A m \in Nat : ~(m < 1) => m \in Nat \ {0}
      OBVIOUS
    <3> QED
      BY <2>1, <3>1, <3>2
  <2> QED
    BY <2>1, <2>2 DEF ServerConfig
<1> QED
  BY <1>6, <1>7 DEF throws

-----------------------------------------------------------------------------
(* The parser. *)

\* The calls under way, in a tree of m contexts.
FramesOK(calls, m) ==
    /\ calls \in Seq(Frame)
    /\ \A k \in DOMAIN calls : calls[k].node \in 1..m /\ calls[k].at \in 1..(Len(calls[k].toks) + 1)

Calls == FramesOK(stack, Len(nodes)) /\ (up = "loading" /\ pc = "block" => stack # <<>>)
Tree  == nodes \in Seq(Context) /\ Len(nodes) >= 1 /\ ChildrenAreContexts

LEMMA Top ==
    ASSUME Calls, stack # <<>>
    PROVE  /\ Len(stack) \in Nat \ {0} /\ top = stack[Len(stack)] /\ top \in Frame
           /\ Len(stack) \in DOMAIN stack /\ DOMAIN stack = 1..Len(stack)
           /\ top.node \in 1..Len(nodes)
           /\ configTokens \in Seq(Token) /\ Len(configTokens) \in Nat
           /\ currentIter \in 1..(Len(configTokens) + 1)
           /\ \A p \in 1..Len(configTokens) : configTokens[p] \in Token
           /\ rest \subseteq 1..Len(configTokens) /\ rest \subseteq Nat
           /\ \A p \in rest : p \in Nat /\ p > currentIter
<1>1. stack \in Seq(Frame)
  BY DEF Calls, FramesOK
<1>2. Len(stack) \in Nat \ {0} /\ Len(stack) \in DOMAIN stack /\ DOMAIN stack = 1..Len(stack)
  BY <1>1
<1>3. top = stack[Len(stack)] /\ top \in Frame
  BY <1>1, <1>2 DEF top, Last
<1>4. top.node \in 1..Len(nodes) /\ top.at \in 1..(Len(top.toks) + 1)
  BY <1>2, <1>3 DEF Calls, FramesOK
<1>5. configTokens \in Seq(Token) /\ Len(configTokens) \in Nat
  BY <1>3 DEF configTokens, Frame
<1>6. currentIter \in 1..(Len(configTokens) + 1)
  BY <1>4 DEF configTokens, currentIter
<1>7. \A p \in rest : p \in Nat /\ p > currentIter /\ p \in 1..Len(configTokens)
  BY <1>5, <1>6 DEF rest
<1> QED
  BY <1>2, <1>3, <1>4, <1>5, <1>6, <1>7

LEMMA FirstIn ==
    ASSUME NEW S \in SUBSET Nat
    PROVE  S # {} => first(S) \in S
BY MinIn DEF first

\* The parser goes on at another of its words.
LEMMA AdvanceOK ==
    ASSUME Calls, stack # <<>>, NEW to \in 1..(Len(configTokens) + 1)
    PROVE  /\ FramesOK(Advance(to), Len(nodes)) /\ Len(Advance(to)) = Len(stack)
           /\ Last(Advance(to)) = [top EXCEPT !.at = to]
           /\ \A k \in 1..(Len(stack) - 1) : Advance(to)[k] = stack[k]
<1> DEFINE n == Len(stack)
           f == [top EXCEPT !.at = to]
<1>1. /\ n \in Nat \ {0} /\ stack \in Seq(Frame) /\ DOMAIN stack = 1..n /\ top = stack[n]
      /\ top \in Frame /\ top.node \in 1..Len(nodes) /\ Len(configTokens) \in Nat
  BY Top DEF Calls, FramesOK
<1>2. f \in Frame /\ f.node = top.node /\ f.toks = top.toks /\ f.at = to
  <2>1. to \in Nat
    BY <1>1
  <2>2. top = [toks |-> top.toks, at |-> top.at, node |-> top.node] /\ top.toks \in Seq(Token) /\ top.node \in Nat
    BY <1>1 DEF Frame
  <2> QED
    BY <2>1, <2>2 DEF Frame
<1>3. Advance(to) = [stack EXCEPT ![n] = f]
  BY <1>1 DEF Advance
<1> HIDE DEF f
<1>4. /\ Advance(to) \in Seq(Frame) /\ Len(Advance(to)) = n /\ Advance(to)[n] = f
      /\ \A k \in 1..n : k # n => Advance(to)[k] = stack[k]
  BY <1>1, <1>2, <1>3
<1>5. \A k \in 1..n : /\ Advance(to)[k].node \in 1..Len(nodes)
                      /\ Advance(to)[k].at \in 1..(Len(Advance(to)[k].toks) + 1)
  <2>1. \A k \in 1..n : k # n => stack[k].node \in 1..Len(nodes) /\ stack[k].at \in 1..(Len(stack[k].toks) + 1)
    BY <1>1 DEF Calls, FramesOK
  <2>2. f.node \in 1..Len(nodes) /\ f.at \in 1..(Len(f.toks) + 1)
    BY <1>1, <1>2 DEF configTokens
  <2> QED
    BY <1>4, <2>1, <2>2
<1>6. FramesOK(Advance(to), Len(nodes))
  <2> DEFINE a == Advance(to)
  <2>1. a \in Seq(Frame) /\ Len(a) = n
    BY <1>4
  <2>2. a \in Seq(Frame) /\ DOMAIN a = 1..n
    <3> HIDE DEF a, n
    <3> QED
      BY <2>1
  <2>3. \A k \in 1..n : a[k].node \in 1..Len(nodes) /\ a[k].at \in 1..(Len(a[k].toks) + 1)
    BY <1>5
  <2> HIDE DEF a
  <2>4. FramesOK(a, Len(nodes))
    BY <2>2, <2>3 DEF FramesOK
  <2> QED
    BY <2>4 DEF a
<1> QED
  BY <1>1, <1>4, <1>6 DEF Last, f

LEMMA FramesGrow ==
    ASSUME NEW calls, NEW m \in Nat, NEW n \in Nat, m <= n, FramesOK(calls, m)
    PROVE  FramesOK(calls, n)
BY DEF FramesOK

LEMMA FrontOK ==
    ASSUME NEW m \in Nat, NEW calls, FramesOK(calls, m), calls # <<>>
    PROVE  /\ FramesOK(Front(calls), m) /\ Len(Front(calls)) = Len(calls) - 1
           /\ \A k \in 1..(Len(calls) - 1) : Front(calls)[k] = calls[k]
<1>1. calls \in Seq(Frame) /\ Len(calls) \in Nat \ {0}
  BY DEF FramesOK
<1>2. /\ Front(calls) \in Seq(Frame) /\ Len(Front(calls)) = Len(calls) - 1
      /\ \A k \in 1..(Len(calls) - 1) : Front(calls)[k] = calls[k]
  <2> DEFINE n == Len(calls)
  <2>1. n \in Nat \ {0} /\ n - 1 \in Nat /\ n - 1 <= n
    BY <1>1
  <2>2. 1 \in Int /\ n - 1 \in Int /\ \A i \in 1..(n - 1) : calls[i] \in Frame
    BY <1>1, <2>1
  <2>3. /\ SubSeq(calls, 1, n - 1) \in Seq(Frame)
        /\ Len(SubSeq(calls, 1, n - 1)) = IF 1 <= n - 1 THEN (n - 1) - 1 + 1 ELSE 0
        /\ \A i \in 1..(n - 1 - 1 + 1) : SubSeq(calls, 1, n - 1)[i] = calls[1 + i - 1]
    BY <2>2, SubSeqProperties
  <2>4. /\ Len(SubSeq(calls, 1, n - 1)) = n - 1
        /\ \A k \in 1..(n - 1) : SubSeq(calls, 1, n - 1)[k] = calls[k]
    <3> HIDE DEF n
    <3>1. n - 1 - 1 + 1 = n - 1 /\ \A k \in 1..(n - 1) : 1 + k - 1 = k
      BY <2>1
    <3> QED
      BY <2>1, <2>3, <3>1
  <2> QED
    BY <2>3, <2>4 DEF Front
<1> QED
  BY <1>1, <1>2 DEF FramesOK

\* A call for what is between two words.
LEMMA CallOK ==
    ASSUME NEW m \in Nat, NEW n \in 1..m, NEW calls, FramesOK(calls, m), NEW t \in Seq(Token)
    PROVE  FramesOK(Append(calls, [toks |-> t, at |-> 1, node |-> n]), m)
<1> DEFINE f == [toks |-> t, at |-> 1, node |-> n]
<1>1. f \in Frame /\ f.node \in 1..m /\ f.at \in 1..(Len(f.toks) + 1)
  BY DEF Frame
<1> HIDE DEF f
<1>2. calls \in Seq(Frame) /\ Len(calls) \in Nat
  BY DEF FramesOK
<1>3. /\ Append(calls, f) \in Seq(Frame) /\ Len(Append(calls, f)) = Len(calls) + 1
      /\ Append(calls, f)[Len(calls) + 1] = f
      /\ \A k \in 1..Len(calls) : Append(calls, f)[k] = calls[k]
  BY <1>1, <1>2
<1>4. \A k \in 1..(Len(calls) + 1) : k = Len(calls) + 1 \/ k \in 1..Len(calls)
  BY <1>2
<1> QED
  BY <1>1, <1>2, <1>3, <1>4 DEF FramesOK, f

LEMMA WordsType ==
    ASSUME Calls, stack # <<>>, NEW a \in 1..(Len(configTokens) + 1), NEW b \in 0..Len(configTokens)
    PROVE  words(a, b) \in Seq(STRING)
<1>1. configTokens \in Seq(Token) /\ Len(configTokens) \in Nat
  BY Top
<1>2. ASSUME NEW i \in 1..(b - a + 1) PROVE configTokens[a + i - 1].w \in STRING
  <2>1. a + i - 1 \in 1..Len(configTokens)
    BY <1>1
  <2>2. configTokens[a + i - 1] \in Token
    BY <2>1, Top
  <2> QED
    BY <2>2 DEF Token
<1>3. CASE b - a + 1 >= 0
  BY <1>1, <1>2, <1>3 DEF words
<1>4. CASE b - a + 1 < 0
  <2>1. 1..(b - a + 1) = {}
    BY <1>1, <1>4
  <2>2. words(a, b) = <<>>
    BY <2>1 DEF words
  <2> QED
    BY <2>2
<1> QED
  BY <1>1, <1>3, <1>4

\* A context more, attached to the innermost one.
LEMMA NewContext ==
    ASSUME Calls, Tree, stack # <<>>, isContext(token), NEW end \in 0..Len(configTokens),
           currentIter <= Len(configTokens), newContextNode(end)
    PROVE  Tree' /\ Len(nodes)' = Len(nodes) + 1
<1> DEFINE n == top.node
           m == Len(nodes)
           c == [type |-> token.w, options |-> words(currentIter + 1, end),
                 children |-> <<>>, directives |-> <<>>]
           p == [nodes[n] EXCEPT !.children = Append(@, m + 1)]
<1>1. m \in Nat \ {0} /\ n \in 1..m /\ nodes \in Seq(Context) /\ DOMAIN nodes = 1..m
  BY Top DEF Tree
<1>2. c \in Context
  <2>1. token.w \in Contexts
    BY DEF isContext
  <2>2. words(currentIter + 1, end) \in Seq(STRING)
    <3>1. currentIter + 1 \in 1..(Len(configTokens) + 1)
      BY Top
    <3> QED
      BY <3>1, WordsType
  <2>3. <<>> \in Seq(Nat) /\ <<>> \in Seq(Directive)
    OBVIOUS
  <2> QED
    BY <2>1, <2>2, <2>3 DEF Context
<1>3. nodes[n] \in Context
  BY <1>1
<1>4. p \in Context /\ p.children = Append(nodes[n].children, m + 1) /\ nodes[n].children \in Seq(Nat)
  <2>1. nodes[n].children \in Seq(Nat) /\ m + 1 \in Nat
    BY <1>1, <1>3 DEF Context
  <2>2. Append(nodes[n].children, m + 1) \in Seq(Nat)
    BY <2>1
  <2> DEFINE cs == Append(nodes[n].children, m + 1)
  <2>3. p = [nodes[n] EXCEPT !.children = cs]
    OBVIOUS
  <2> HIDE DEF cs, p
  <2>4. p \in Context /\ p.children = cs
    BY <1>3, <2>2, <2>3 DEF Context, cs
  <2> QED
    BY <2>1, <2>4 DEF cs
<1>5. nodes' = Append([nodes EXCEPT ![n] = p], c) /\ c.children = <<>>
  BY DEF newContextNode
<1> HIDE DEF c, p, n
<1>6. [nodes EXCEPT ![n] = p] \in Seq(Context) /\ Len([nodes EXCEPT ![n] = p]) = m
  BY <1>1, <1>4
<1>7. /\ nodes' \in Seq(Context) /\ Len(nodes') = m + 1 /\ nodes'[m + 1] = c
      /\ \A k \in 1..m : nodes'[k] = IF k = n THEN p ELSE nodes[k]
  BY <1>1, <1>2, <1>5, <1>6
<1>8. ASSUME NEW k \in 1..(m + 1), NEW j \in DOMAIN nodes'[k].children
      PROVE  nodes'[k].children[j] \in (k + 1)..(m + 1)
  <2>1. CASE k = m + 1
    <3>1. nodes'[k].children = <<>>
      BY <1>5, <1>7, <2>1
    <3> QED
      BY <3>1, <1>8
  <2>2. CASE k # m + 1 /\ k # n
    <3>1. k \in 1..m /\ nodes'[k] = nodes[k]
      BY <1>1, <1>7, <2>2
    <3>2. nodes[k].children[j] \in (k + 1)..m
      BY <1>1, <3>1, <1>8 DEF Tree, ChildrenAreContexts
    <3> QED
      BY <1>1, <3>1, <3>2
  <2>3. CASE k = n
    <3>1. nodes'[k].children = Append(nodes[n].children, m + 1)
      BY <1>1, <1>4, <1>7, <2>3
    <3>2. j \in 1..(Len(nodes[n].children) + 1) /\ Len(nodes[n].children) \in Nat
      BY <1>4, <1>8, <3>1
    <3>3. CASE j = Len(nodes[n].children) + 1
      BY <1>1, <1>4, <2>3, <3>1, <3>3
    <3>4. CASE j # Len(nodes[n].children) + 1
      <4>1. j \in DOMAIN nodes[n].children /\ nodes'[k].children[j] = nodes[n].children[j]
        BY <1>4, <3>1, <3>2, <3>4
      <4>2. nodes[n].children[j] \in (n + 1)..m
        BY <1>1, <4>1 DEF Tree, ChildrenAreContexts
      <4> QED
        BY <1>1, <2>3, <4>1, <4>2
    <3> QED
      BY <3>3, <3>4
  <2> QED
    BY <2>1, <2>2, <2>3
<1> QED
  BY <1>1, <1>7, <1>8 DEF Tree, ChildrenAreContexts

\* A directive more, of the innermost one.
LEMMA NewDirective ==
    ASSUME Calls, Tree, stack # <<>>, NEW d \in Directive,
           nodes' = [nodes EXCEPT ![top.node].directives = Append(@, d)]
    PROVE  Tree' /\ Len(nodes)' = Len(nodes)
<1> DEFINE n == top.node
           m == Len(nodes)
           p == [nodes[n] EXCEPT !.directives = Append(@, d)]
<1>1. m \in Nat \ {0} /\ n \in 1..m /\ nodes \in Seq(Context) /\ DOMAIN nodes = 1..m
  BY Top DEF Tree
<1>2. nodes[n] \in Context
  BY <1>1
<1>3. p \in Context /\ p.children = nodes[n].children
  <2> DEFINE ds == Append(nodes[n].directives, d)
  <2>1. nodes[n].directives \in Seq(Directive)
    BY <1>2 DEF Context
  <2>2. ds \in Seq(Directive)
    BY <2>1
  <2>3. p = [nodes[n] EXCEPT !.directives = ds]
    OBVIOUS
  <2> HIDE DEF ds, p
  <2> QED
    BY <1>2, <2>2, <2>3 DEF Context
<1>4. nodes' = [nodes EXCEPT ![n] = p]
  BY <1>1
<1> HIDE DEF p, n
<1>5. /\ nodes' \in Seq(Context) /\ Len(nodes') = m /\ DOMAIN nodes' = 1..m
      /\ \A k \in 1..m : nodes'[k].children = nodes[k].children
  <2>1. [nodes EXCEPT ![n] = p] \in Seq(Context) /\ Len([nodes EXCEPT ![n] = p]) = m
    BY <1>1, <1>3
  <2>2. \A k \in 1..m : [nodes EXCEPT ![n] = p][k] = IF k = n THEN p ELSE nodes[k]
    BY <1>1
  <2> QED
    BY <1>1, <1>3, <1>4, <2>1, <2>2
<1>6. ChildrenAreContexts'
  BY <1>1, <1>5 DEF Tree, ChildrenAreContexts
<1> QED
  BY <1>1, <1>5, <1>6 DEF Tree

-----------------------------------------------------------------------------
(* Steps of the parser. *)

\* Reading on in the innermost block leaves the other calls as they are.
LEMMA FrontAdvance ==
    ASSUME Calls, stack # <<>>, NEW to \in 1..(Len(configTokens) + 1)
    PROVE  Front(Advance(to)) = Front(stack)
<1> DEFINE a == Front(Advance(to))
           b == Front(stack)
<1>1. FramesOK(Advance(to), Len(nodes)) /\ Len(nodes) \in Nat /\ Len(stack) \in Nat \ {0}
      /\ Len(Advance(to)) = Len(stack) /\ \A k \in 1..(Len(stack) - 1) : Advance(to)[k] = stack[k]
  BY AdvanceOK, Top
<1>2. Advance(to) # <<>>
  BY <1>1
<1>3. FramesOK(a, Len(nodes)) /\ Len(a) = Len(stack) - 1
      /\ \A k \in 1..(Len(stack) - 1) : a[k] = Advance(to)[k]
  BY <1>1, <1>2, FrontOK
<1>4. FramesOK(b, Len(nodes)) /\ Len(b) = Len(stack) - 1
      /\ \A k \in 1..(Len(stack) - 1) : b[k] = stack[k]
  BY <1>1, FrontOK DEF Calls
<1> HIDE DEF a, b
<1>5. /\ a \in Seq(Frame) /\ b \in Seq(Frame) /\ Len(a) = Len(b)
      /\ \A k \in 1..Len(a) : a[k] = b[k]
  BY <1>1, <1>3, <1>4 DEF FramesOK
<1>6. a = b
  BY <1>5
<1> QED
  BY <1>6 DEF a, b

LEMMA FrontAppend ==
    ASSUME NEW T, NEW a \in Seq(T), NEW x \in T
    PROVE  Front(Append(a, x)) = a /\ Last(Append(a, x)) = x
<1>1. Len(Append(a, x)) = Len(a) + 1 /\ Len(a) \in Nat /\ Append(a, x)[Len(a) + 1] = x
  OBVIOUS
<1>2. SubSeq(Append(a, x), 1, Len(a)) = a
  OBVIOUS
<1> QED
  BY <1>1, <1>2 DEF Front, Last

\* What EachWordOnce says of a step.
Once ==
    stack # <<>> =>
       \/ stack' = <<>> \/ stack' = Front(stack)
       \/ /\ Len(stack') = Len(stack) /\ Front(stack') = Front(stack)
          /\ Unread(Last(stack')) \in 0..(Unread(top) - 1)
       \/ /\ Len(stack') = Len(stack) + 1 /\ Front(Front(stack')) = Front(stack)
          /\ Unread(Last(stack')) + Unread(Last(Front(stack'))) \in 0..(Unread(top) - 1)

\* A step that reads on.
LEMMA ReadOn ==
    ASSUME Calls, stack # <<>>, NEW to \in (currentIter + 1)..(Len(configTokens) + 1),
           stack' = Advance(to), Len(nodes)' \in Nat, Len(nodes)' >= Len(nodes)
    PROVE  Calls' /\ Once
<1>1. /\ Len(stack) \in Nat \ {0} /\ Len(configTokens) \in Nat /\ top \in Frame
      /\ currentIter \in 1..(Len(configTokens) + 1) /\ to \in 1..(Len(configTokens) + 1)
  BY Top
<1>2. /\ FramesOK(stack', Len(nodes)) /\ Len(stack') = Len(stack)
      /\ Last(stack') = [top EXCEPT !.at = to] /\ Front(stack') = Front(stack)
  BY <1>1, AdvanceOK, FrontAdvance
<1>3. stack' # <<>> /\ Len(nodes) \in Nat
  BY <1>1, <1>2, Top
<1>4. Calls'
  BY <1>2, <1>3, FramesGrow DEF Calls
<1>5. Last(stack').toks = top.toks /\ Last(stack').at = to
  BY <1>1, <1>2 DEF Frame
<1>6. Unread(Last(stack')) \in 0..(Unread(top) - 1)
  BY <1>1, <1>5 DEF Unread, configTokens, currentIter
<1> QED
  BY <1>2, <1>4, <1>6 DEF Once

LEMMA ParseContextStep ==
    ASSUME Calls, Tree, parseContext
    PROVE  Calls' /\ Tree' /\ Once
<1>1. /\ stack # <<>> /\ currentIter <= Len(configTokens) /\ isContext(token)
      /\ opening # none /\ newContextNode(opening - 1) /\ stack' = Advance(opening)
  BY DEF parseContext, AtToken
<1>2. opening \in rest
  <2> DEFINE S == {p \in rest : configTokens[p] = Open}
  <2>1. S \in SUBSET Nat
    BY <1>1, Top
  <2>2. S # {}
    BY <1>1 DEF opening, first
  <2> HIDE DEF S
  <2>3. first(S) \in S
    BY <2>1, <2>2, FirstIn
  <2> QED
    BY <2>3 DEF S, opening
<1>3. Len(configTokens) \in Nat /\ opening \in 1..Len(configTokens) /\ opening > currentIter /\ currentIter \in Nat
  BY <1>1, <1>2, Top
<1>4. opening - 1 \in 0..Len(configTokens) /\ opening \in (currentIter + 1)..(Len(configTokens) + 1)
  BY <1>3
<1>5. Tree' /\ Len(nodes)' = Len(nodes) + 1
  BY <1>1, <1>4, NewContext
<1>6. Len(nodes) \in Nat
  BY DEF Tree
<1> QED
  BY <1>1, <1>4, <1>5, <1>6, ReadOn

LEMMA LastValueIn ==
    ASSUME Calls, stack # <<>>, rest # {}
    PROVE  lastValue \in currentIter..Len(configTokens)
<1> DEFINE S == {q \in rest : configTokens[q].semi}
           p == first(S)
<1>1. /\ Len(configTokens) \in Nat /\ currentIter \in Nat /\ rest \subseteq Nat
      /\ \A q \in rest : q \in Nat /\ q > currentIter /\ q \in 1..Len(configTokens)
  BY Top
<1>2. S \in SUBSET Nat
  BY <1>1
<1>3. p = none \/ p \in rest
  <2>1. S = {} => p = none
    BY DEF first
  <2> HIDE DEF S
  <2>2. S # {} => p \in S
    BY <1>2, FirstIn
  <2> QED
    BY <2>1, <2>2 DEF S
<1>4. lastValue = IF p = none THEN Len(configTokens) ELSE IF configTokens[p].w = "" THEN p - 1 ELSE p
  BY DEF lastValue
<1> HIDE DEF p
<1>5. currentIter <= Len(configTokens)
  <2>1. PICK q \in rest : TRUE
    OBVIOUS
  <2>2. q \in Nat /\ q > currentIter /\ q \in 1..Len(configTokens)
    BY <1>1, <2>1
  <2> QED
    BY <1>1, <2>2
<1>6. CASE p = none
  BY <1>1, <1>4, <1>5, <1>6
<1>7. CASE p # none
  <2>1. p \in Nat /\ p > currentIter /\ p \in 1..Len(configTokens)
    BY <1>1, <1>3, <1>7
  <2>2. p - 1 \in currentIter..Len(configTokens) /\ p \in currentIter..Len(configTokens)
    BY <1>1, <2>1
  <2> QED
    BY <1>4, <1>7, <2>2
<1> QED
  BY <1>6, <1>7

LEMMA ParseDirectiveStep ==
    ASSUME Calls, Tree, parseDirective
    PROVE  Calls' /\ Tree' /\ Once
<1> DEFINE d == [name |-> token.w, values |-> words(currentIter + 1, lastValue)]
<1>1. /\ stack # <<>> /\ isDirective(token) /\ rest # {} /\ stack' = Advance(lastValue + 1)
      /\ nodes' = [nodes EXCEPT ![top.node].directives = Append(@, d)]
  BY DEF parseDirective, AtToken
<1>2. lastValue \in currentIter..Len(configTokens) /\ Len(configTokens) \in Nat /\ currentIter \in 1..(Len(configTokens) + 1)
  BY <1>1, LastValueIn, Top
<1>3. d \in Directive
  <2>1. token.w \in Directives
    BY <1>1 DEF isDirective
  <2>2. currentIter + 1 \in 1..(Len(configTokens) + 1) /\ lastValue \in 0..Len(configTokens)
    BY <1>2
  <2>3. words(currentIter + 1, lastValue) \in Seq(STRING)
    BY <1>1, <2>2, WordsType
  <2> QED
    BY <2>1, <2>3 DEF Directive
<1> HIDE DEF d
<1>4. Tree' /\ Len(nodes)' = Len(nodes)
  BY <1>1, <1>3, NewDirective
<1>6. Len(nodes) \in Nat
  BY DEF Tree
<1>5. lastValue + 1 \in (currentIter + 1)..(Len(configTokens) + 1)
  BY <1>2
<1> QED
  BY <1>1, <1>4, <1>5, <1>6, ReadOn

LEMMA ParseBlockStep ==
    ASSUME Calls, Tree, parseBlock
    PROVE  Calls' /\ Tree' /\ Once
<1>1. stack # <<>> /\ nodes' = nodes /\ pc' = "parse"
  BY DEF parseBlock, Parsing, Calls
<1>2. PICK end \in rest :
         stack' = Append(Advance(end + 1), [toks |-> SubSeq(configTokens, currentIter + 1, end - 1),
                                            at |-> 1, node |-> Len(nodes)])
  BY DEF parseBlock
<1> DEFINE t == SubSeq(configTokens, currentIter + 1, end - 1)
           f == [toks |-> t, at |-> 1, node |-> Len(nodes)]
           n == Len(configTokens)
           i == currentIter
<1>3. /\ end \in Nat /\ end > i /\ end \in 1..n /\ n \in Nat /\ i \in 1..(n + 1)
      /\ top \in Frame /\ Len(stack) \in Nat \ {0}
      /\ \A p \in 1..n : configTokens[p] \in Token
  BY <1>1, Top
<1>4. t \in Seq(Token) /\ Len(t) = end - 1 - i
  <2>1. i + 1 \in Int /\ end - 1 \in Int /\ \A p \in (i + 1)..(end - 1) : configTokens[p] \in Token
    BY <1>3
  <2>2. t \in Seq(Token) /\ Len(t) = IF i + 1 <= end - 1 THEN (end - 1) - (i + 1) + 1 ELSE 0
    BY <2>1, SubSeqProperties
  <2> HIDE DEF t, i
  <2> QED
    BY <1>3, <2>2
<1>5. end + 1 \in 1..(n + 1)
  BY <1>3
<1>6. /\ FramesOK(Advance(end + 1), Len(nodes)) /\ Len(Advance(end + 1)) = Len(stack)
      /\ Last(Advance(end + 1)) = [top EXCEPT !.at = end + 1]
      /\ Front(Advance(end + 1)) = Front(stack)
  BY <1>1, <1>5, AdvanceOK, FrontAdvance
<1> HIDE DEF t, n, i
<1>7. Len(nodes) \in Nat /\ Len(nodes) \in 1..Len(nodes)
  BY DEF Tree
<1>8. FramesOK(stack', Len(nodes))
  BY <1>2, <1>4, <1>6, <1>7, CallOK DEF t
<1>9. f \in Frame
  BY <1>4, <1>7 DEF Frame
<1>10. stack' = Append(Advance(end + 1), f) /\ Advance(end + 1) \in Seq(Frame)
  BY <1>2, <1>6 DEF FramesOK, t
<1> HIDE DEF f
<1>11. Front(stack') = Advance(end + 1) /\ Last(stack') = f /\ Len(stack') = Len(stack) + 1
  BY <1>6, <1>9, <1>10, FrontAppend
<1>12. Unread(f) = end - 1 - i
  BY <1>3, <1>4 DEF Unread, f
<1>13. Unread(Last(Advance(end + 1))) = n - end
  <2>1. [top EXCEPT !.at = end + 1].toks = top.toks /\ [top EXCEPT !.at = end + 1].at = end + 1
    BY <1>3 DEF Frame
  <2>2. Unread([top EXCEPT !.at = end + 1]) = Len(top.toks) + 1 - (end + 1)
    BY <2>1 DEF Unread
  <2>3. Len(top.toks) = n
    BY DEF n, configTokens
  <2> QED
    BY <1>3, <1>6, <2>2, <2>3
<1>14. Unread(top) = n + 1 - i
  BY DEF Unread, n, i, configTokens, currentIter
<1>15. Once
  <2>2. Unread(Last(stack')) + Unread(Last(Front(stack'))) \in 0..(Unread(top) - 1)
    <3>1. Unread(Last(stack')) = end - 1 - i /\ Unread(Last(Front(stack'))) = n - end
      BY <1>11, <1>12, <1>13
    <3> DEFINE u == Unread(top)
               a == Unread(Last(stack'))
               b == Unread(Last(Front(stack')))
    <3>2. a = end - 1 - i /\ b = n - end /\ u = n + 1 - i
      BY <1>14, <3>1
    <3> HIDE DEF u, a, b
    <3>3. n \in Int /\ i \in Int /\ end \in Int /\ end > i /\ end <= n
      BY <1>3
    <3>4. a \in Int /\ b \in Int /\ u \in Int /\ a >= 0 /\ b >= 0 /\ a + b <= u - 1
      BY <3>2, <3>3
    <3>5. a + b \in 0..(u - 1)
      BY <3>4
    <3> QED
      BY <3>5 DEF u, a, b
  <2>3. Len(stack') = Len(stack) + 1 /\ Front(Front(stack')) = Front(stack)
    BY <1>6, <1>11
  <2> QED
    BY <2>2, <2>3 DEF Once
<1>16. Tree'
  BY <1>1 DEF Tree, ChildrenAreContexts
<1>17. Calls'
  BY <1>1, <1>8 DEF Calls
<1> QED
  BY <1>15, <1>16, <1>17

LEMMA ReturnStep ==
    ASSUME Calls, Tree, returnFromBlock
    PROVE  Calls' /\ Tree' /\ Once
<1>1. stack # <<>> /\ stack' = Front(stack) /\ nodes' = nodes /\ pc' = pc /\ pc = "parse"
  BY DEF returnFromBlock, Parsing
<1>2. Len(nodes) \in Nat
  BY DEF Tree
<1>3. FramesOK(stack', Len(nodes))
  BY <1>1, <1>2, FrontOK DEF Calls
<1> QED
  BY <1>1, <1>3 DEF Calls, Tree, ChildrenAreContexts, Once

\* An exception ends all the calls.
LEMMA ThrowStep ==
    ASSUME Calls, Tree, noSuchToken \/ noOpeningBrace \/ noClosingBrace
    PROVE  Calls' /\ Tree' /\ Once
<1>1. stack' = <<>> /\ pc' = "deleteTree"
  BY DEF noSuchToken, noOpeningBrace, noClosingBrace, throwSyntaxError
<1>2. Calls' /\ Once
  BY <1>1 DEF Calls, FramesOK, Once
<1>3. CASE nodes' = nodes
  BY <1>2, <1>3 DEF Tree, ChildrenAreContexts
<1>4. CASE noOpeningBrace
  <2>1. /\ stack # <<>> /\ currentIter <= Len(configTokens) /\ isContext(token)
        /\ newContextNode(Len(configTokens))
    BY <1>4 DEF noOpeningBrace, AtToken
  <2>2. Len(configTokens) \in 0..Len(configTokens)
    BY <2>1, Top
  <2> QED
    BY <1>2, <2>1, <2>2, NewContext
<1> QED
  BY <1>3, <1>4 DEF noSuchToken, noClosingBrace

-----------------------------------------------------------------------------
(* The servers. *)

\* What is made of a context depends on the tree only.
LEMMA SameServers ==
    ASSUME nodes' = nodes
    PROVE  /\ serverContexts' = serverContexts /\ getChild(root)' = getChild(root)
           /\ \A n : convertToServerConfig(n)' = convertToServerConfig(n) /\ (throws(n)' <=> throws(n))
<1>1. serverContexts' = serverContexts /\ getChild(root)' = getChild(root)
  BY DEF serverContexts, getChild, root
<1>2. ASSUME NEW n
      PROVE  convertToServerConfig(n)' = convertToServerConfig(n) /\ (throws(n)' <=> throws(n))
  <2>1. convertToServerConfig(n)' = convertToServerConfig(n)
    BY DEF convertToServerConfig, convertToLocationConfig, getChild
  <2>2. stoulThrows(nodes[n].directives)' = stoulThrows(nodes[n].directives)
    BY DEF stoulThrows
  <2> QED
    BY <2>1, <2>2 DEF throws, invalid
<1> QED
  BY <1>1, <1>2

\* The contexts taken for servers are contexts of the tree.
LEMMA ServerContextsIn ==
    ASSUME Tree, getChild(root) # <<>>
    PROVE  /\ serverContexts \in Seq(Nat)
           /\ \A i \in DOMAIN serverContexts : serverContexts[i] \in DOMAIN nodes
<1> DEFINE m == Len(nodes)
           h == nodes[1].children[1]
<1>1. /\ nodes \in Seq(Context) /\ m \in Nat /\ DOMAIN nodes = 1..m /\ m >= 1
      /\ \A n \in 1..m : \A k \in DOMAIN nodes[n].children : nodes[n].children[k] \in (n + 1)..m
  BY DEF Tree, ChildrenAreContexts
<1>2. \A n \in 1..m : nodes[n].children \in Seq(Nat)
  <2>1. \A n \in 1..m : nodes[n] \in Context
    BY <1>1
  <2> QED
    BY <2>1 DEF Context
<1>3. 1 \in DOMAIN nodes[1].children
  <2>1. nodes[1].children \in Seq(Nat) /\ nodes[1].children # <<>>
    BY <1>1, <1>2 DEF getChild, root
  <2> HIDE DEF m
  <2> QED
    BY <2>1
<1>4. h \in 1..m
  <2>1. h \in (1 + 1)..m
    BY <1>1, <1>3
  <2> HIDE DEF h, m
  <2> QED
    BY <1>1, <2>1
<1>5. serverContexts = nodes[h].children
  BY DEF serverContexts, getChild, root
<1> HIDE DEF h
<1>6. ASSUME NEW i \in DOMAIN serverContexts PROVE serverContexts[i] \in 1..m
  <2>1. serverContexts[i] \in (h + 1)..m
    BY <1>1, <1>4, <1>5, <1>6
  <2> HIDE DEF m
  <2> QED
    BY <1>1, <1>4, <2>1
<1> QED
  BY <1>1, <1>2, <1>4, <1>5, <1>6

\* The servers that are made, and the sockets that listen, belong to the contexts of the
\* tree one by one.
Made ==
    /\ configs \in Seq(ServerConfig)
    /\ \A i \in DOMAIN configs :
          ~throws(serverContexts[i]) /\ configs[i] = convertToServerConfig(serverContexts[i])

Sockets ==
    /\ bound \in Seq(STRING \X Ports)
    /\ Len(bound) <= Len(configs)
    /\ \A i \in DOMAIN bound :
          /\ bound[i] = address(configs[i]) /\ bound[i][1] \in Addresses
          /\ \A j \in DOMAIN bound : bound[i] = bound[j] => i = j

\* They are made after parsing, and bound when all of them are made.
InOrder ==
    /\ pc \notin {"parse", "block"} => stack = <<>>
    /\ pc \notin {"convert", "listen"} => configs = <<>>
    /\ pc # "listen" => bound = <<>>
    /\ pc \in {"convert", "listen"} => getChild(root) # <<>> /\ Len(configs) <= Len(serverContexts)
    /\ pc = "listen" => Len(configs) = Len(serverContexts)
    /\ up = "running" => pc = "listen" /\ Len(bound) = Len(configs)

Places ==
    /\ file \in Files /\ slip \in BOOLEAN
    /\ pc \in {"parse", "block", "deleteTree", "nullptr", "convert", "listen"}
    /\ up \in {"loading", "running", "reported", "exit", "undefined"}

IInv == Calls /\ Tree /\ Made /\ Sockets /\ InOrder /\ Places

\* A step after which the tree and the servers are the same.
LEMMA MadeStays ==
    ASSUME Made, nodes' = nodes, configs' = configs
    PROVE  Made'
BY SameServers DEF Made

LEMMA SocketsStay ==
    ASSUME Sockets, bound' = bound, configs' = configs
    PROVE  Sockets'
BY DEF Sockets, address

\* Nothing is made while the text is parsed.
LEMMA NothingMade ==
    ASSUME configs = <<>>, bound = <<>>
    PROVE  Made /\ Sockets
BY DEF Made, Sockets

LEMMA ParserMakesNothing ==
    ASSUME IInv, pc \in {"parse", "block"}, configs' = configs, bound' = bound,
           pc' \in {"parse", "block", "deleteTree"}, pc' = "deleteTree" => stack' = <<>>, up' \in {"loading", "undefined"},
           UNCHANGED <<file, slip>>
    PROVE  Made' /\ Sockets' /\ InOrder' /\ Places'
<1>1. configs' = <<>> /\ bound' = <<>>
  BY DEF IInv, InOrder
<1>2. Made' /\ Sockets'
  BY <1>1 DEF Made, Sockets
<1>3. InOrder'
  BY <1>1 DEF InOrder
<1> QED
  BY <1>2, <1>3 DEF IInv, Places

-----------------------------------------------------------------------------
(* The steps of main. *)

\* A step that changes neither the calls nor the tree.
CallsStay == stack' = stack /\ nodes' = nodes

LEMMA ParsedStays ==
    ASSUME Calls, Tree, CallsStay, pc' # "block" \/ (pc' = pc /\ up = "loading") \/ up' # "loading"
    PROVE  Calls' /\ Tree'
BY DEF Calls, Tree, ChildrenAreContexts, CallsStay

LEMMA AppendIn ==
    ASSUME NEW T, NEW s \in Seq(T), NEW x \in T
    PROVE  /\ Append(s, x) \in Seq(T) /\ Len(Append(s, x)) = Len(s) + 1 /\ Len(s) \in Nat
           /\ DOMAIN s = 1..Len(s) /\ DOMAIN Append(s, x) = 1..(Len(s) + 1)
           /\ \A i \in DOMAIN Append(s, x) :
                 IF i = Len(s) + 1 THEN Append(s, x)[i] = x
                 ELSE i \in DOMAIN s /\ Append(s, x)[i] = s[i]
<1>1. /\ Append(s, x) \in Seq(T) /\ Len(Append(s, x)) = Len(s) + 1 /\ Len(s) \in Nat
      /\ DOMAIN s = 1..Len(s) /\ Append(s, x)[Len(s) + 1] = x
      /\ \A i \in 1..Len(s) : Append(s, x)[i] = s[i]
  OBVIOUS
<1>2. DOMAIN Append(s, x) = 1..(Len(s) + 1)
  BY <1>1
<1>3. \A i \in 1..(Len(s) + 1) : i = Len(s) + 1 \/ i \in 1..Len(s)
  BY <1>1
<1> QED
  BY <1>1, <1>2, <1>3

LEMMA ConvertStep ==
    ASSUME IInv, convert
    PROVE  IInv'
<1> DEFINE c == convertToServerConfig(serverContext)
           k == Len(configs)
<1>1. /\ up = "loading" /\ pc = "convert" /\ k < Len(serverContexts) /\ ~throws(serverContext)
      /\ configs' = Append(configs, c) /\ serverContext = serverContexts[k + 1]
      /\ UNCHANGED <<file, slip, stack, nodes, bound, pc, up>>
  BY DEF convert, Converting, serverContext
<1>2. Calls' /\ Tree' /\ Places'
  BY <1>1, ParsedStays DEF IInv, CallsStay, Places
<1>3. configs \in Seq(ServerConfig) /\ k \in Nat /\ getChild(root) # <<>> /\ bound = <<>>
  BY <1>1 DEF IInv, Made, InOrder
<1>4. serverContexts \in Seq(Nat) /\ Len(serverContexts) \in Nat
      /\ \A i \in DOMAIN serverContexts : serverContexts[i] \in DOMAIN nodes
  BY <1>3, ServerContextsIn DEF IInv
<1>5. c \in ServerConfig
  <2>1. k + 1 \in DOMAIN serverContexts
    BY <1>1, <1>3, <1>4
  <2>2. serverContext \in DOMAIN nodes
    BY <1>1, <1>4, <2>1
  <2> QED
    BY <1>1, <2>2, ServerConfigType DEF IInv, Tree
<1> HIDE DEF c
<1>6. /\ configs' \in Seq(ServerConfig) /\ Len(configs') = k + 1
      /\ \A i \in DOMAIN configs' : IF i = k + 1 THEN configs'[i] = c
                                    ELSE i \in DOMAIN configs /\ configs'[i] = configs[i]
  BY <1>1, <1>3, <1>5, AppendIn
<1>7. Made'
  <2>1. \A i \in DOMAIN configs' :
           ~throws(serverContexts[i]) /\ configs'[i] = convertToServerConfig(serverContexts[i])
    BY <1>1, <1>6 DEF IInv, Made, c
  <2> QED
    BY <1>1, <1>6, <2>1, SameServers DEF Made
<1>8. Sockets'
  BY <1>1, <1>3, <1>6 DEF Sockets
<1>9. InOrder'
  BY <1>1, <1>3, <1>4, <1>6, SameServers DEF IInv, InOrder
<1> QED
  BY <1>2, <1>7, <1>8, <1>9 DEF IInv

LEMMA ListenStep ==
    ASSUME IInv, listenSocket
    PROVE  IInv'
<1> DEFINE k == Len(bound)
           a == address(configs[k + 1])
<1>1. /\ up = "loading" /\ pc = "listen" /\ k < Len(configs) /\ free(a)
      /\ bound' = Append(bound, a)
      /\ UNCHANGED <<file, slip, stack, nodes, configs, pc, up>>
  BY DEF listenSocket, Listening
<1>2. Calls' /\ Tree' /\ Places'
  BY <1>1, ParsedStays DEF IInv, CallsStay, Places
<1>3. configs \in Seq(ServerConfig) /\ bound \in Seq(STRING \X Ports) /\ k \in Nat /\ Len(configs) \in Nat
  BY DEF IInv, Made, Sockets
<1>4. a \in STRING \X Ports
  <2>1. configs[k + 1] \in ServerConfig
    BY <1>1, <1>3
  <2> QED
    BY <2>1 DEF address, ServerConfig
<1>5. a[1] \in Addresses /\ \A i \in DOMAIN bound : bound[i] # a
  BY <1>1 DEF free
<1>6. Made'
  BY <1>1, MadeStays DEF IInv
<1>7. Sockets'
  <2>1. /\ bound' \in Seq(STRING \X Ports) /\ Len(bound') = k + 1
        /\ \A i \in DOMAIN bound' : IF i = k + 1 THEN bound'[i] = a
                                    ELSE i \in DOMAIN bound /\ bound'[i] = bound[i]
    <3> HIDE DEF a
    <3> QED
      BY <1>1, <1>3, <1>4, AppendIn
  <2>2. ASSUME NEW i \in DOMAIN bound'
        PROVE  bound'[i] = address(configs[i]) /\ bound'[i][1] \in Addresses
    <3>1. CASE i = k + 1
      BY <1>5, <2>1, <3>1
    <3>2. CASE i # k + 1
      BY <2>1, <2>2, <3>2 DEF IInv, Sockets
    <3> QED
      BY <3>1, <3>2
  <2>3. ASSUME NEW i \in DOMAIN bound', NEW j \in DOMAIN bound', bound'[i] = bound'[j]
        PROVE  i = j
    <3> HIDE DEF a
    <3>1. CASE i = k + 1 \/ j = k + 1
      BY <1>5, <2>1, <2>3, <3>1
    <3>2. CASE i # k + 1 /\ j # k + 1
      BY <2>1, <2>3, <3>2 DEF IInv, Sockets
    <3> QED
      BY <3>1, <3>2
  <2>4. Len(bound') <= Len(configs)
    BY <1>1, <1>3, <2>1
  <2>5. \A i \in DOMAIN bound' : address(configs[i])' = address(configs'[i])
    BY DEF address
  <2> QED
    BY <1>1, <2>1, <2>2, <2>3, <2>4 DEF Sockets, address
<1>8. InOrder'
  BY <1>1, SameServers DEF IInv, InOrder
<1> QED
  BY <1>2, <1>6, <1>7, <1>8 DEF IInv

\* The other steps of main leave what is made as it is.
LEMMA OtherStep ==
    ASSUME IInv, parsed \/ deleteTree \/ getChildOfNull \/ convertThrows \/ converted
                 \/ bindFails \/ start
    PROVE  IInv'
<1>1. CallsStay /\ configs' = configs /\ bound' = bound /\ up = "loading"
      /\ UNCHANGED <<file, slip>>
  BY DEF parsed, Parsing, deleteTree, getChildOfNull, convertThrows, Converting, converted,
         bindFails, Listening, start, CallsStay
<1>2. pc' \in {"deleteTree", "nullptr", "convert", "listen"}
  BY DEF parsed, deleteTree, getChildOfNull, convertThrows, Converting, converted,
         bindFails, Listening, start
<1>3. up' \in {"loading", "running", "reported", "exit", "undefined"}
  BY <1>1 DEF parsed, deleteTree, getChildOfNull, convertThrows, converted, bindFails, start
<1>4. Calls' /\ Tree' /\ Places'
  BY <1>1, <1>2, <1>3, ParsedStays DEF IInv, Places
<1>5. Made' /\ Sockets'
  BY <1>1, MadeStays, SocketsStay DEF IInv, CallsStay
<1>6. InOrder'
  <2>1. serverContexts' = serverContexts /\ getChild(root)' = getChild(root) /\ stack' = stack
    BY <1>1, SameServers DEF CallsStay
  <2>2. CASE parsed
    <3>1. configs = <<>> /\ bound = <<>> /\ stack = <<>> /\ up' = "loading" /\ pc' \in {"deleteTree", "convert"}
      BY <1>1, <2>2 DEF IInv, InOrder, parsed, Parsing
    <3>2. pc' = "convert" => getChild(root) # <<>>
      BY <2>2 DEF parsed
    <3>3. pc' = "convert" => serverContexts \in Seq(Nat)
      BY <3>2, ServerContextsIn DEF IInv
    <3>4. pc' = "convert" => Len(configs) <= Len(serverContexts)
      BY <3>1, <3>3
    <3> QED
      BY <1>1, <2>1, <3>1, <3>2, <3>4 DEF InOrder
  <2>3. CASE deleteTree \/ getChildOfNull
    BY <1>1, <2>1, <2>3 DEF IInv, InOrder, deleteTree, getChildOfNull
  <2>4. CASE convertThrows
    BY <1>1, <2>1, <2>4 DEF IInv, InOrder, convertThrows, Converting
  <2>5. CASE converted
    BY <1>1, <2>1, <2>5 DEF IInv, InOrder, converted
  <2>6. CASE bindFails
    BY <1>1, <2>1, <2>6 DEF IInv, InOrder, bindFails, Listening
  <2>7. CASE start
    BY <1>1, <2>1, <2>7 DEF IInv, InOrder, start
  <2> QED
    BY <2>2, <2>3, <2>4, <2>5, <2>6, <2>7
<1> QED
  BY <1>4, <1>5, <1>6 DEF IInv

LEMMA ParserStep ==
    ASSUME IInv, parseContext \/ parseBlock \/ parseDirective \/ returnFromBlock
                 \/ noSuchToken \/ noOpeningBrace \/ noClosingBrace
    PROVE  IInv' /\ Once
<1>1. Calls' /\ Tree' /\ Once
  BY ParseContextStep, ParseBlockStep, ParseDirectiveStep, ReturnStep, ThrowStep DEF IInv
<1>2. /\ up = "loading" /\ pc \in {"parse", "block"} /\ configs' = configs /\ bound' = bound
      /\ UNCHANGED <<file, slip>>
  BY DEF parseContext, parseBlock, parseDirective, returnFromBlock, noSuchToken, noOpeningBrace,
         noClosingBrace, AtToken, Parsing
<1>3. /\ pc' \in {"parse", "block", "deleteTree"} /\ up' \in {"loading", "undefined"}
      /\ pc' = "deleteTree" => stack' = <<>>
  BY <1>2 DEF parseContext, parseBlock, parseDirective, returnFromBlock, noSuchToken, noOpeningBrace,
         noClosingBrace, throwSyntaxError
<1> QED
  BY <1>1, <1>2, <1>3, ParserMakesNothing DEF IInv

-----------------------------------------------------------------------------
LEMMA InitInv == Init => IInv
<1> SUFFICES ASSUME Init PROVE IInv
  OBVIOUS
<1>1. PICK t \in {Text(file)} \cup Slips(Text(file)) :
         slip = (t # Text(file)) /\ stack = <<[toks |-> t, at |-> 1, node |-> root]>>
  BY DEF Init
<1>2. t \in Seq(Token)
  <2>1. file \in File
    BY ConfigAssumption DEF Init
  <2>2. Text(file) \in Seq(Token)
    BY <2>1, TextType
  <2> QED
    BY <1>1, <2>2, SlipsType
<1>3. /\ nodes = <<[type |-> "main", options |-> <<>>, children |-> <<>>, directives |-> <<>>]>>
      /\ configs = <<>> /\ bound = <<>> /\ pc = "parse" /\ up = "loading" /\ file \in Files
  BY DEF Init
<1>4. Tree
  <2> DEFINE c == [type |-> "main", options |-> <<>>, children |-> <<>>, directives |-> <<>>]
  <2>1. c \in Context /\ c.children = <<>>
    BY DEF Context, Contexts
  <2> HIDE DEF c
  <2>2. nodes = <<c>>
    BY <1>3 DEF c
  <2>3. nodes \in Seq(Context) /\ Len(nodes) = 1 /\ nodes[1] = c /\ DOMAIN nodes = {1}
    BY <2>1, <2>2
  <2> QED
    BY <2>1, <2>3 DEF Tree, ChildrenAreContexts
<1>5. Calls
  <2> DEFINE f == [toks |-> t, at |-> 1, node |-> root]
  <2>1. f \in Frame /\ f.node = 1 /\ f.at \in 1..(Len(f.toks) + 1)
    BY <1>2 DEF Frame, root
  <2> HIDE DEF f
  <2>2. stack = <<f>>
    BY <1>1 DEF f
  <2>3. stack \in Seq(Frame) /\ DOMAIN stack = {1} /\ stack[1] = f
    BY <2>1, <2>2
  <2>4. 1 \in 1..Len(nodes)
    BY <1>4 DEF Tree
  <2> QED
    BY <1>3, <2>1, <2>3, <2>4 DEF Calls, FramesOK
<1>6. Places
  BY <1>1, <1>3 DEF Places
<1> QED
  BY <1>3, <1>4, <1>5, <1>6, NothingMade DEF IInv, InOrder

LEMMA StepInv == IInv /\ [Next]_vars => IInv'
<1> SUFFICES ASSUME IInv, [Next]_vars PROVE IInv'
  OBVIOUS
<1>1. CASE UNCHANGED vars
  <2>1. /\ UNCHANGED <<file, slip, pc, up>> /\ CallsStay /\ configs' = configs /\ bound' = bound
    BY <1>1 DEF vars, CallsStay
  <2>2. Calls' /\ Tree' /\ Places'
    BY <2>1 DEF IInv, Calls, Tree, ChildrenAreContexts, CallsStay, Places
  <2>3. Made' /\ Sockets' /\ InOrder'
    BY <2>1, MadeStays, SocketsStay, SameServers DEF IInv, InOrder, CallsStay
  <2> QED
    BY <2>2, <2>3 DEF IInv
<1>2. CASE Next
  BY <1>2, ParserStep, ConvertStep, ListenStep, OtherStep DEF Next
<1> QED
  BY <1>1, <1>2

LEMMA InvHolds == Spec => []IInv
BY InitInv, StepInv, PTL DEF Spec

\* Every word of the text, every context and every server has its type; above all, a
\* server that is kept is valid: no field is missing and the port is a port
\* (ConfigParser.cpp:37-142, ConfigAdapter.cpp:4-135, ServerConfig.cpp:21-39).
THEOREM ConfigTypes == Spec => []TypeOK
<1>1. IInv => TypeOK
  BY DEF IInv, Calls, FramesOK, Tree, Made, Sockets, Places, TypeOK
<1> QED
  BY <1>1, InvHolds, PTL

\* No word is read twice, whatever the text (ConfigParser.cpp:48, :54-107, :114-135).
THEOREM WordsReadOnce == Spec => EachWordOnce
<1>1. IInv /\ [Next]_vars => [Once]_vars
  <2> SUFFICES ASSUME IInv, Next PROVE Once
    OBVIOUS
  <2>1. CASE pc \in {"parse", "block"} /\ ~parsed
    <3>1. ~(deleteTree \/ getChildOfNull \/ convert \/ convertThrows \/ converted
            \/ listenSocket \/ bindFails \/ start)
      BY <2>1 DEF deleteTree, getChildOfNull, convert, convertThrows, Converting, converted,
                  listenSocket, bindFails, Listening, start
    <3> QED
      BY <2>1, <3>1, ParserStep DEF Next
  <2>2. CASE parsed \/ pc \notin {"parse", "block"}
    BY <2>2 DEF parsed, IInv, InOrder, Once
  <2> QED
    BY <2>1, <2>2
<1> QED
  BY <1>1, InvHolds, PTL DEF Spec, EachWordOnce, Once

\* Who listens is who is configured, and there are no two on one address
\* (main.cpp:36-71, ConfigAdapter.cpp:4-16, Socket.cpp:12-18).
THEOREM ServersListen == Spec => []ListensAsConfigured
<1>1. IInv => ListensAsConfigured
  <2> SUFFICES ASSUME IInv PROVE ListensAsConfigured
    OBVIOUS
  <2>1. up = "running" => Len(bound) = Len(serverContexts)
    BY DEF IInv, InOrder
  <2>2. DOMAIN bound \subseteq DOMAIN configs
    <3>1. bound \in Seq(STRING \X Ports) /\ configs \in Seq(ServerConfig) /\ Len(bound) <= Len(configs)
      BY DEF IInv, Sockets, Made
    <3> QED
      BY <3>1
  <2> QED
    BY <2>1, <2>2 DEF IInv, Made, Sockets, ListensAsConfigured
<1> QED
  BY <1>1, InvHolds, PTL
================================================================================
