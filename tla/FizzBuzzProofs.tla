--------------------------- MODULE FizzBuzzProofs ---------------------------
(***************************************************************************)
(* A theorem about FizzBuzz: what the programs print is in order and,      *)
(* when they end, complete, for any last number.                           *)
(***************************************************************************)
EXTENDS FizzBuzz, SequenceTheorems, NaturalsInduction, WellFoundedInduction, TLAPS

-----------------------------------------------------------------------------
(* What FlattenSeq computes.                                               *)

\* The order of the natural numbers, as a set of pairs.
Below == {p \in Nat \X Nat : p[1] < p[2]}

\* A set of numbers that is not empty has a least element.
LEMMA Least ==
  ASSUME NEW T, T \subseteq Nat, T # {}
  PROVE  \E n \in T : \A m \in T : n <= m
<1>1. Below = OpToRel(<, Nat)
  BY Zenon DEF Below, OpToRel
<1>2. IsWellFoundedOn(Below, Nat)
  BY <1>1, NatLessThanWellFounded, Zenon
<1>3. PICK n \in T : \A m \in T : ~(<<m, n>> \in Below)
  BY <1>2, WFMin, Zenon
<1>4. ASSUME NEW m \in T PROVE n <= m
  <2>1. n \in Nat /\ m \in Nat /\ ~(<<m, n>> \in Below)
    BY <1>3
  <2> QED
    BY <2>1 DEF Below
<1> QED
  BY <1>4

\* f holds what FlattenSeq makes of the first 1, 2, ..., N sequences of s.
Flattens(f, N, s) == f = [i \in 1..N |-> IF i = 1 THEN s[i] ELSE f[i - 1] \o s[i]]

\* Such an f exists, is the only one, and ends in the flattened sequence.
LEMMA FlattensExists ==
  ASSUME NEW S, NEW N \in Nat, NEW s \in [1..N -> Seq(S)]
  PROVE  \E f \in [1..N -> Seq(S)] : Flattens(f, N, s)
<1> DEFINE good(k) == \E f \in [1..k -> Seq(S)] : Flattens(f, k, s)
           T == {k \in 0..N : ~good(k)}
<1> SUFFICES ASSUME T # {} PROVE FALSE
  <2>1. N \in 0..N
    OBVIOUS
  <2>2. T = {} => good(N)
    <3> HIDE DEF good
    <3> QED
      BY <2>1
  <2> QED
    BY <2>2
<1>1. PICK k \in T : \A m \in T : k <= m
  <2>1. T \subseteq Nat
    OBVIOUS
  <2> HIDE DEF T
  <2> QED
    BY <2>1, Least
<1>2. k \in 0..N /\ ~good(k) /\ k \in Nat
  OBVIOUS
<1>3. CASE k = 0
  <2> DEFINE e == [i \in 1..0 |-> <<>>]
  <2>1. e \in [1..0 -> Seq(S)]
    OBVIOUS
  <2>2. Flattens(e, 0, s)
    BY DEF Flattens
  <2> QED
    BY <1>2, <1>3, <2>1, <2>2
<1>4. CASE k # 0
  <2>1. k - 1 \in 0..N /\ k - 1 < k /\ k \in 1..N
    BY <1>2, <1>4
  <2>2. k - 1 \notin T
    <3> HIDE DEF T
    <3> QED
      BY <1>1, <1>2, <2>1
  <2>3. good(k - 1)
    BY <2>1, <2>2
  <2>4. PICK f \in [1..(k - 1) -> Seq(S)] : Flattens(f, k - 1, s)
    BY <2>3
  <2> DEFINE x == IF k = 1 THEN s[k] ELSE f[k - 1] \o s[k]
             g == [i \in 1..k |-> IF i = k THEN x ELSE f[i]]
  <2>5. x \in Seq(S)
    <3>1. s[k] \in Seq(S)
      BY <2>1
    <3>2. k # 1 => f[k - 1] \in Seq(S)
      BY <1>2, <2>1, <2>4
    <3> QED
      BY <3>1, <3>2, ConcatProperties
  <2>6. \A i \in 1..k : i # k => i \in 1..(k - 1)
    BY <1>2
  <2>7. g \in [1..k -> Seq(S)]
    <3> HIDE DEF x
    <3> QED
      BY <2>4, <2>5, <2>6
  <2>8. ASSUME NEW i \in 1..k
        PROVE  g[i] = IF i = 1 THEN s[i] ELSE g[i - 1] \o s[i]
    <3>0. i # 1 => i - 1 \in 1..k /\ i - 1 # k
      BY <1>2
    <3>1. CASE i = k
      <4>1. g[i] = x
        BY <3>1
      <4>2. i # 1 => g[i - 1] = f[i - 1]
        BY <3>0
      <4> QED
        BY <3>1, <4>1, <4>2
    <3>2. CASE i # k
      <4>1. i \in 1..(k - 1)
        BY <2>6, <3>2
      <4>2. f[i] = IF i = 1 THEN s[i] ELSE f[i - 1] \o s[i]
        BY <2>4, <4>1 DEF Flattens
      <4>3. g[i] = f[i] /\ (i # 1 => g[i - 1] = f[i - 1])
        BY <3>0, <3>2
      <4> HIDE DEF g
      <4> QED
        BY <4>2, <4>3
    <3> QED
      BY <3>1, <3>2
  <2>9. Flattens(g, k, s)
    <3>1. g = [i \in 1..k |-> g[i]]
      OBVIOUS
    <3> HIDE DEF g
    <3> QED
      BY <2>8, <3>1 DEF Flattens
  <2> HIDE DEF g
  <2> QED
    BY <1>2, <2>7, <2>9
<1> QED
  BY <1>3, <1>4

LEMMA FlattensUnique ==
  ASSUME NEW N \in Nat, NEW s, NEW f, NEW g, Flattens(f, N, s), Flattens(g, N, s)
  PROVE  \A i \in 1..N : f[i] = g[i]
<1> DEFINE T == {i \in 1..N : f[i] # g[i]}
<1> SUFFICES ASSUME T # {} PROVE FALSE
  OBVIOUS
<1>1. PICK i \in T : \A m \in T : i <= m
  <2>1. T \subseteq Nat
    OBVIOUS
  <2> HIDE DEF T
  <2> QED
    BY <2>1, Least
<1>2. i \in 1..N /\ f[i] # g[i] /\ i \in Nat
  OBVIOUS
<1>3. /\ f[i] = IF i = 1 THEN s[i] ELSE f[i - 1] \o s[i]
      /\ g[i] = IF i = 1 THEN s[i] ELSE g[i - 1] \o s[i]
  BY <1>2 DEF Flattens
<1>4. i # 1
  BY <1>2, <1>3
<1>5. i - 1 \in 1..N /\ i - 1 < i
  BY <1>2, <1>4
<1>6. i - 1 \notin T
  <2> HIDE DEF T
  <2> QED
    BY <1>1, <1>2, <1>5
<1>7. f[i - 1] = g[i - 1]
  BY <1>5, <1>6
<1> QED
  BY <1>2, <1>3, <1>4, <1>7

LEMMA FlattenIs ==
  ASSUME NEW S, NEW N \in Nat, NEW s \in [1..N -> Seq(S)], N # 0,
         NEW f, Flattens(f, N, s)
  PROVE  FlattenSeq(s) = f[N]
<1> DEFINE flat == CHOOSE g : Flattens(g, N, s)
<1>1. Flattens(flat, N, s)
  OBVIOUS
<1>2. Len(s) = N
  OBVIOUS
<1>3. FlattenSeq(s) = flat[N]
  BY <1>2 DEF FlattenSeq, Flattens
<1>4. N \in 1..N
  OBVIOUS
<1> HIDE DEF flat
<1> QED
  BY <1>1, <1>3, <1>4, FlattensUnique

\* Flattening goes on from one sequence to the next.
LEMMA FlattenStep ==
  ASSUME NEW S, NEW N \in Nat, NEW s \in [1..(N + 1) -> Seq(S)]
  PROVE  LET r == [i \in 1..N |-> s[i]]
         IN  FlattenSeq(r) \in Seq(S) /\ FlattenSeq(s) = FlattenSeq(r) \o s[N + 1]
<1> DEFINE r == [i \in 1..N |-> s[i]]
<1>1. r \in [1..N -> Seq(S)] /\ N + 1 \in Nat /\ N + 1 # 0 /\ s[N + 1] \in Seq(S)
  OBVIOUS
<1>2. PICK f \in [1..(N + 1) -> Seq(S)] : Flattens(f, N + 1, s)
  BY <1>1, FlattensExists
<1>3. FlattenSeq(s) = f[N + 1]
  BY <1>1, <1>2, FlattenIs
<1>4. N + 1 \in 1..(N + 1)
  OBVIOUS
<1>5. f[N + 1] = IF N + 1 = 1 THEN s[N + 1] ELSE f[(N + 1) - 1] \o s[N + 1]
  BY <1>2, <1>4 DEF Flattens
<1>6. CASE N = 0
  <2>1. r = <<>>
    BY <1>6
  <2>3. FlattenSeq(r) = <<>>
    <3> HIDE DEF r
    <3> QED
      BY <2>1, EmptySeq DEF FlattenSeq
  <2>4. <<>> \o s[N + 1] = s[N + 1] /\ <<>> \in Seq(S)
    BY <1>1, ConcatEmptySeq
  <2>5. FlattenSeq(s) = s[N + 1]
    BY <1>3, <1>5, <1>6
  <2> HIDE DEF r
  <2> QED
    BY <2>3, <2>4, <2>5 DEF r
<1>7. CASE N # 0
  <2> DEFINE g == [i \in 1..N |-> f[i]]
  <2>1. ASSUME NEW i \in 1..N
        PROVE  g[i] = IF i = 1 THEN r[i] ELSE g[i - 1] \o r[i]
    <3>1. i \in 1..(N + 1) /\ (i # 1 => i - 1 \in 1..N)
      OBVIOUS
    <3>2. f[i] = IF i = 1 THEN s[i] ELSE f[i - 1] \o s[i]
      BY <1>2, <3>1 DEF Flattens
    <3> QED
      BY <3>1, <3>2
  <2>2. Flattens(g, N, r)
    <3>1. g = [i \in 1..N |-> g[i]]
      OBVIOUS
    <3> HIDE DEF g, r
    <3> QED
      BY <2>1, <3>1 DEF Flattens
  <2>3. FlattenSeq(r) = g[N]
    <3> HIDE DEF r, g
    <3> QED
      BY <1>1, <1>7, <2>2, FlattenIs
  <2>4. g[N] = f[N] /\ f[N] \in Seq(S) /\ (N + 1) - 1 = N /\ N + 1 # 1
    BY <1>2, <1>7
  <2> QED
    BY <1>3, <1>5, <2>3, <2>4
<1> QED
  BY <1>6, <1>7

-----------------------------------------------------------------------------
(* What is to be printed.                                                  *)

Texts == {"Fizz", "Buzz", "FizzBuzz", NoText}
Lines == Nat \X Texts

\* Words, each on a line of its own.
Lined(ws) == [i \in DOMAIN ws |-> Line(0, ws[i])]

\* The lines of a number, and those of the first k numbers.
Chapter(p, n) ==
  IF p \in {"split", "wrapped"} THEN WordLines(n)
  ELSE <<Line(n, NoText)>> \o WordLines(n)
Book(p, k) == FlattenSeq([n \in 1..k |-> Chapter(p, n)])

\* A sequence of one element.
LEMMA OneIsSeq ==
  ASSUME NEW S, NEW x \in S
  PROVE  <<x>> \in Seq(S) /\ Len(<<x>>) = 1 /\ <<x>>[1] = x
OBVIOUS

\* Words on lines of their own, the first of them printed first.
LEMMA LinedIsSeq ==
  ASSUME NEW ws \in Seq(Texts)
  PROVE  Lined(ws) \in Seq(Lines) /\ Len(Lined(ws)) = Len(ws)
<1>1. Len(ws) \in Nat /\ DOMAIN ws = 1..Len(ws) /\ \A i \in 1..Len(ws) : ws[i] \in Texts
  BY LenProperties, ElementOfSeq
<1>2. \A i \in 1..Len(ws) : Line(0, ws[i]) \in Lines
  BY <1>1 DEF Line, Lines
<1> QED
  BY <1>1, <1>2 DEF Lined

LEMMA LinedHead ==
  ASSUME NEW ws \in Seq(Texts), ws # <<>>
  PROVE  /\ Head(ws) \in Texts /\ Tail(ws) \in Seq(Texts)
         /\ Lined(ws) = <<Line(0, Head(ws))>> \o Lined(Tail(ws))
<1> DEFINE h == Head(ws)
           t == Tail(ws)
           n == Len(ws)
           u == <<Line(0, h)>>
           v == Lined(t)
<1>1. n \in Nat /\ n # 0 /\ h = ws[1] /\ DOMAIN ws = 1..n
  <2>1. n \in Nat \ {0} /\ DOMAIN ws = 1..n
    BY EmptySeq, LenProperties
  <2> QED
    BY <2>1
<1>2. /\ h \in Texts /\ t \in Seq(Texts) /\ Len(t) = n - 1
      /\ \A i \in 1..Len(t) : t[i] = ws[i + 1]
  BY HeadTailProperties
<1>3. u \in Seq(Lines) /\ Len(u) = 1 /\ u[1] = Line(0, h)
  <2>1. Line(0, h) \in Lines
    BY <1>2 DEF Lines, Line
  <2> QED
    BY <2>1
<1>4. v \in Seq(Lines) /\ Len(v) = n - 1
  BY <1>2, LinedIsSeq
<1>5. \A i \in 1..(n - 1) : v[i] = Line(0, ws[i + 1])
  <2>1. DOMAIN t = 1..(n - 1)
    BY <1>2, LenProperties
  <2> HIDE DEF t, n
  <2> QED
    BY <1>2, <2>1 DEF Lined
<1>6. Lined(ws) \in Seq(Lines) /\ Len(Lined(ws)) = n
  BY LinedIsSeq
<1>7. \A i \in 1..n : Lined(ws)[i] = Line(0, ws[i])
  BY <1>1 DEF Lined
<1> HIDE DEF u, v, h, t, n
<1>8. /\ u \o v \in Seq(Lines) /\ Len(u \o v) = Len(u) + Len(v)
      /\ \A i \in 1..(Len(u) + Len(v)) :
           (u \o v)[i] = IF i <= Len(u) THEN u[i] ELSE v[i - Len(u)]
  BY <1>3, <1>4, ConcatProperties
<1>9. Len(u) + Len(v) = n
  BY <1>1, <1>3, <1>4
<1>10. ASSUME NEW i \in 1..n PROVE (u \o v)[i] = Line(0, ws[i])
  <2>1. CASE i = 1
    BY <1>1, <1>3, <1>8, <1>9, <2>1
  <2>2. CASE i # 1
    <3>1. ~(i <= 1) /\ i - 1 \in 1..(n - 1) /\ (i - 1) + 1 = i
      BY <1>1, <2>2
    <3> QED
      BY <1>3, <1>5, <1>8, <1>9, <3>1
  <2> QED
    BY <2>1, <2>2
<1>11. Lined(ws) = u \o v
  BY <1>6, <1>7, <1>8, <1>9, <1>10, SeqEqual
<1> QED
  BY <1>2, <1>11 DEF u, v, h, t

\* The words of a number.
LEMMA WordsAreSeq ==
  ASSUME NEW n
  PROVE  /\ Fizz(n) \o Buzz(n) \in Seq(Texts)
         /\ WordLines(n) = Lined(Fizz(n) \o Buzz(n)) /\ WordLines(n) \in Seq(Lines)
<1>1. Fizz(n) \in Seq(Texts) /\ Buzz(n) \in Seq(Texts)
  <2>1. <<"Fizz">> \in Seq(Texts) /\ <<"Buzz">> \in Seq(Texts) /\ <<>> \in Seq(Texts)
    <3>1. "Fizz" \in Texts /\ "Buzz" \in Texts
      BY DEF Texts
    <3> QED
      BY <3>1, OneIsSeq, EmptySeq
  <2> QED
    BY <2>1, Zenon DEF Fizz, Buzz
<1>2. Fizz(n) \o Buzz(n) \in Seq(Texts)
  BY <1>1, ConcatProperties
<1>3. WordLines(n) = Lined(Fizz(n) \o Buzz(n))
  BY DEF WordLines, Lined
<1> QED
  BY <1>2, <1>3, LinedIsSeq

\* Lines, and those of a number.
LEMMA LineIsSeq ==
  ASSUME NEW n \in Nat, NEW text \in Texts
  PROVE  <<Line(n, text)>> \in Seq(Lines)
<1>1. Line(n, text) \in Lines
  BY DEF Line, Lines
<1> QED
  BY <1>1, OneIsSeq

LEMMA ChapterIsSeq ==
  ASSUME NEW p, NEW n \in Nat
  PROVE  Chapter(p, n) \in Seq(Lines)
<1>1. WordLines(n) \in Seq(Lines)
  BY WordsAreSeq
<1>2. <<Line(n, NoText)>> \in Seq(Lines)
  <2>1. NoText \in Texts
    BY DEF Texts
  <2> QED
    BY <2>1, LineIsSeq
<1> QED
  BY <1>1, <1>2, ConcatProperties DEF Chapter

\* The book grows by a chapter, from nothing.
LEMMA BookStep ==
  ASSUME NEW p, NEW k \in Nat
  PROVE  Book(p, k) \in Seq(Lines) /\ Book(p, k + 1) = Book(p, k) \o Chapter(p, k + 1)
<1> DEFINE s == [n \in 1..(k + 1) |-> Chapter(p, n)]
           r == [n \in 1..k |-> s[n]]
<1>1. s \in [1..(k + 1) -> Seq(Lines)]
  BY ChapterIsSeq
<1>2. r = [n \in 1..k |-> Chapter(p, n)] /\ s[k + 1] = Chapter(p, k + 1)
  OBVIOUS
<1> HIDE DEF s
<1>3. FlattenSeq(r) \in Seq(Lines) /\ FlattenSeq(s) = FlattenSeq(r) \o s[k + 1]
  BY <1>1, FlattenStep
<1> HIDE DEF r
<1> QED
  BY <1>2, <1>3 DEF Book, s

LEMMA BookEmpty ==
  ASSUME NEW p
  PROVE  Book(p, 0) = <<>>
<1>1. [n \in 1..0 |-> Chapter(p, n)] = <<>>
  OBVIOUS
<1> QED
  BY <1>1, EmptySeq DEF Book, FlattenSeq

\* Concatenation is associative; a name keeps the sequences apart.
Associates(s, t, u) == (s \o t) \o u = s \o (t \o u)

LEMMA LinesAssociate ==
  ASSUME NEW s \in Seq(Lines), NEW t \in Seq(Lines), NEW u \in Seq(Lines)
  PROVE  Associates(s, t, u)
BY ConcatAssociative DEF Associates

\* A longer book begins with the shorter one.
LEMMA BookGoesOn ==
  ASSUME NEW p, NEW k \in Nat, NEW m \in Nat, k <= m
  PROVE  \E r \in Seq(Lines) : Book(p, m) = Book(p, k) \o r
<1> DEFINE good(j) == \E r \in Seq(Lines) : Book(p, j) = Book(p, k) \o r
           T == {j \in Nat : k <= j /\ ~good(j)}
<1> SUFFICES ASSUME T # {} PROVE FALSE
  <2> HIDE DEF good
  <2>1. T = {} => good(m)
    OBVIOUS
  <2> QED
    BY <2>1 DEF good
<1>1. PICK j \in T : \A i \in T : j <= i
  <2>1. T \subseteq Nat
    OBVIOUS
  <2> HIDE DEF T
  <2> QED
    BY <2>1, Least
<1>2. j \in Nat /\ k <= j /\ ~good(j)
  OBVIOUS
<1>3. j # k
  <2>1. Book(p, k) \o <<>> = Book(p, k) /\ <<>> \in Seq(Lines)
    BY BookStep, ConcatEmptySeq
  <2>2. good(k)
    BY <2>1
  <2> QED
    BY <1>2, <2>2
<1>4. j - 1 \in Nat /\ k <= j - 1 /\ j - 1 < j /\ (j - 1) + 1 = j
  BY <1>2, <1>3
<1>5. j - 1 \notin T
  <2> HIDE DEF T
  <2> QED
    BY <1>1, <1>2, <1>4
<1>6. PICK r \in Seq(Lines) : Book(p, j - 1) = Book(p, k) \o r
  BY <1>4, <1>5
<1>7. Book(p, j) = (Book(p, k) \o r) \o Chapter(p, j)
  BY <1>4, <1>6, BookStep
<1>8. Chapter(p, j) \in Seq(Lines) /\ Book(p, k) \in Seq(Lines)
  BY <1>2, ChapterIsSeq, BookStep
<1>9. r \o Chapter(p, j) \in Seq(Lines)
  BY <1>8, ConcatProperties
<1>10. Associates(Book(p, k), r, Chapter(p, j))
  BY <1>8, LinesAssociate
<1>11. Book(p, j) = Book(p, k) \o (r \o Chapter(p, j))
  BY <1>7, <1>10 DEF Associates
<1>12. good(j)
  BY <1>9, <1>11
<1> QED
  BY <1>2, <1>12

\* A prefix, element by element.
LEMMA PrefixIs ==
  ASSUME NEW S, NEW s \in Seq(S), NEW t \in Seq(S), Len(s) <= Len(t),
         \A i \in 1..Len(s) : s[i] = t[i]
  PROVE  IsPrefix(s, t)
<1> DEFINE n == Len(s)
<1>1. n \in Nat /\ n <= Len(t) /\ (\A i \in 1..n : s[i] = t[i]) /\ n <= Len(s)
      /\ Len(t) \in Nat
  BY LenProperties
<1> HIDE DEF n
<1>2. ASSUME NEW r \in Seq(S), n <= Len(r), Len(r) \in Nat
      PROVE  /\ SubSeq(r, 1, n) \in Seq(S) /\ Len(SubSeq(r, 1, n)) = n
             /\ \A i \in 1..n : SubSeq(r, 1, n)[i] = r[i]
  <2>1. /\ SubSeq(r, 1, n) \in Seq(S) /\ Len(SubSeq(r, 1, n)) = (IF 1 <= n THEN n - 1 + 1 ELSE 0)
        /\ \A i \in 1..(n - 1 + 1) : SubSeq(r, 1, n)[i] = r[1 + i - 1]
    BY <1>1, <1>2, SubSeqProperties
  <2>2. n - 1 + 1 = n /\ (IF 1 <= n THEN n - 1 + 1 ELSE 0) = n
        /\ \A i \in 1..n : 1 + i - 1 = i
    BY <1>1
  <2> QED
    BY <2>1, <2>2
<1>3. SubSeq(s, 1, n) = SubSeq(t, 1, n)
  <2> DEFINE u == SubSeq(s, 1, n)
             v == SubSeq(t, 1, n)
  <2>1. /\ u \in Seq(S) /\ Len(u) = n /\ v \in Seq(S) /\ Len(v) = n
        /\ \A i \in 1..n : u[i] = s[i] /\ v[i] = t[i]
    BY <1>1, <1>2, LenProperties DEF n
  <2> HIDE DEF u, v
  <2>2. u = v
    BY <1>1, <2>1, SeqEqual
  <2> QED
    BY <2>2 DEF u, v
<1> QED
  BY <1>1, <1>3 DEF IsPrefix, n

LEMMA PrefixOfConcat ==
  ASSUME NEW S, NEW s \in Seq(S), NEW r \in Seq(S)
  PROVE  IsPrefix(s, s \o r)
<1>1. /\ s \o r \in Seq(S) /\ Len(s \o r) = Len(s) + Len(r)
      /\ \A i \in 1..(Len(s) + Len(r)) : (s \o r)[i] = IF i <= Len(s) THEN s[i] ELSE r[i - Len(s)]
  BY ConcatProperties
<1>2. Len(s) \in Nat /\ Len(r) \in Nat
  BY LenProperties
<1>3. Len(s) <= Len(s \o r) /\ \A i \in 1..Len(s) : s[i] = (s \o r)[i]
  BY <1>1, <1>2
<1> QED
  BY <1>1, <1>3, PrefixIs

-----------------------------------------------------------------------------
(* The invariant: what is common to the programs, and then what each kind  *)
(* of program adds.                                                        *)

Labels == {"set", "write", "get", "read", "send", "connect", "connectOutput",
           "poll", "register", "parked", "done"}
Items == Nat \cup Texts
Slots == [state : {"EMPTY", "EMPTY_FLUSHED", "FULL"}, item : Items]

TypeInv ==
  /\ program \in Programs
  /\ exch \in [Sides -> Slots]
  /\ words \in Seq(Texts) /\ printed \in Seq(Lines)
  /\ next \in 1..(LastNumber + 1) /\ cell \in Texts
  /\ woken \in BOOLEAN /\ taskDone \in BOOLEAN
  /\ inside \in Actors \cup {Nobody}
  /\ section \in {"out", "user", "tick", "poll"}
  /\ section = "out" <=> inside = Nobody
  /\ pc \in [Actors -> Labels]

\* Only the wrapped program has a Stream and a Sink that move.
Still == stream = "pending" /\ sink = "room"

\* Where the threads of each program can be.
Alone(labels) ==
  pc["main"] \in labels /\ pc["feeder"] = "done" /\ pc["printer"] = "done"

\* minimal and by_mut: the word in the cell is that of the input, unless the task
\* is still to be polled, and when it is read it is that of the last number set.
WordOf(n) ==
  CASE n % 15 = 0 -> "FizzBuzz"
    [] n % 15 \in {3, 6, 9, 12} -> "Fizz"
    [] n % 15 \in {5, 10} -> "Buzz"
    [] OTHER -> NoText
Answered == Input \in registered /\ cell = WordOf(value)
Table(k) == [n \in 1..k |-> Line(n, JoinedWords(n))]

ValuedInv ==
  /\ Still /\ ~taskDone /\ Alone({"set", "write", "get", "done"})
  /\ value \in Nat
  /\ pc["main"] = "write" => section = "user" /\ woken
  /\ pc["main"] = "done" => next = LastNumber + 1
  /\ pc["main"] # "done" => next <= LastNumber
  /\ section \in {"out", "user"} /\ pc["main"] # "write" => ~woken
  /\ woken \/ Polling \/ Answered
  /\ pc["main"] = "get" => value = next
  /\ printed = Table(next - 1)

\* io and wrapped: the lines of the numbers read are printed, but for the words
\* that the task still holds; a task that has failed may have lost one.
PortsRight ==
  /\ program = "io" => Still
  /\ Alone({"connect", "connectOutput", "poll", "register", "parked", "done"})
  /\ stream \in {"pending", "item", "error", "end", "closed"}
  /\ sink \in {"pending", "room", "not ready", "refuses"}
  /\ taskDone => ~Polling
  /\ pc["main"] = "done" => taskDone
  /\ stream = "item" => next <= LastNumber
  /\ stream \in {"end", "closed"} /\ ~taskDone => next = LastNumber + 1
  /\ taskDone /\ ~Failed => next = LastNumber + 1 /\ words = <<>>
PortAccount ==
  \E rest \in Seq(Lines) : /\ printed \o rest = Book(program, next - 1)
                           /\ ~(taskDone /\ Failed) => rest = Lined(words)
PortedInv == PortsRight /\ PortAccount

\* sans_io and split: the lines of the numbers fed are printed, but for the word
\* in the output, the words that the task holds and those of the number in the
\* input, in this order.
OutLines == IF Full("output") THEN <<Line(0, exch["output"].item)>> ELSE <<>>
InLines == IF Full("input") THEN WordLines(exch["input"].item) ELSE <<>>
ItemsRight ==
  /\ Full("input") => exch["input"].item \in Nat
  /\ Full("output") => exch["output"].item \in Texts
ThreadsRight ==
  /\ program = "sans_io" => Alone({"read", "send", "parked", "done"})
  /\ program = "split" => /\ pc["main"] = "done"
                          /\ pc["feeder"] \in {"send", "parked", "done"}
                          /\ pc["printer"] \in {"read", "parked"}
Account ==
  printed \o (OutLines \o (Lined(words) \o InLines)) = Book(program, next - 1)
ExchangedInv == Still /\ ~taskDone /\ ItemsRight /\ ThreadsRight /\ Account

\* sans_io: a task that need not be polled waits for room in the output, with a
\* word in its hands, or for a number, with nothing left.
Idle == words = <<>> /\ ~Full("input") /\ ~Full("output")
Waiting ==
  IF words = <<>> THEN ~Full("input") /\ Reader("input") \in registered
  ELSE Full("output") /\ Writer("output") \in registered
QuietInv ==
  /\ Writer("output") \in registered => Full("output") /\ words # <<>>
  /\ section \in {"out", "user"} => ~woken
  /\ woken \/ Polling \/ Waiting
  /\ pc["main"] = "send" => section = "user" /\ Idle
  /\ pc["main"] = "done" => Idle /\ next = LastNumber + 1 /\ ~woken /\ ~Polling

IInv ==
  /\ TypeInv
  /\ program \in Valued => ValuedInv
  /\ program \in Ported => PortedInv
  /\ program \in Exchanged => ExchangedInv
  /\ program = "sans_io" => QuietInv

-----------------------------------------------------------------------------
(* minimal and by_mut.                                                     *)

\* The minimal task computes the words of its number.
LEMMA WordIsJoined ==
  ASSUME NEW n \in Nat
  PROVE  WordOf(n) = JoinedWords(n) /\ WordOf(n) \in Texts
<1>1. n % 15 \in 0..14 /\ n % 3 \in 0..2 /\ n % 5 \in 0..4
  OBVIOUS
<1>2. /\ n % 3 = 0 <=> n % 15 \in {0, 3, 6, 9, 12}
      /\ n % 5 = 0 <=> n % 15 \in {0, 5, 10}
  OBVIOUS
<1>3. n % 15 \notin {0, 3, 6, 9, 12} \/ n % 15 \notin {5, 10}
  OBVIOUS
<1> QED
  BY <1>1, <1>2, <1>3 DEF WordOf, JoinedWords, Texts

\* The table grows by a line.
LEMMA TableStep ==
  ASSUME NEW k \in Nat
  PROVE  /\ Table(k) \in Seq(Lines)
         /\ Append(Table(k), Line(k + 1, JoinedWords(k + 1))) = Table(k + 1)
<1>1. \A n \in Nat : Line(n, JoinedWords(n)) \in Lines
  BY WordIsJoined DEF Line, Lines
<1>2. Table(k) \in Seq(Lines) /\ Len(Table(k)) = k
  BY <1>1 DEF Table
<1>3. Table(k + 1) \in Seq(Lines) /\ Len(Table(k + 1)) = k + 1
  BY <1>1 DEF Table
<1> DEFINE e == Line(k + 1, JoinedWords(k + 1))
<1>4. e \in Lines
  BY <1>1
<1> HIDE DEF e
<1>5. /\ Append(Table(k), e) \in Seq(Lines) /\ Len(Append(Table(k), e)) = k + 1
      /\ \A i \in 1..k : Append(Table(k), e)[i] = Table(k)[i]
      /\ Append(Table(k), e)[k + 1] = e
  BY <1>2, <1>4, AppendProperties
<1>6. ASSUME NEW i \in 1..(k + 1) PROVE Append(Table(k), e)[i] = Table(k + 1)[i]
  <2>1. CASE i = k + 1
    BY <1>5, <2>1 DEF Table, e
  <2>2. CASE i # k + 1
    <3>1. i \in 1..k
      BY <2>2
    <3> QED
      BY <1>5, <3>1 DEF Table
  <2> QED
    BY <2>1, <2>2
<1>7. Append(Table(k), e) = Table(k + 1)
  BY <1>3, <1>5, <1>6, SeqEqual
<1> QED
  BY <1>2, <1>7 DEF e

\* The steps that a minimal program can take.
LEMMA ValuedSteps ==
  ASSUME TypeInv, program \in Valued, ValuedInv, Next
  PROVE  \/ TaskReadsValue \/ TickPoll \/ TickEnd
         \/ SetInput \/ AsMut \/ WriteInput \/ GetOutput
         \/ \E a \in Actors : Lock(a)
<1>1. /\ program \notin Exchanged /\ program \notin Ported /\ program # "io" /\ program # "wrapped"
  BY DEF Valued, Exchanged, Ported
<1>2. \A a \in Actors : pc[a] \notin {"read", "send", "connect", "connectOutput", "register", "parked"}
  BY DEF ValuedInv, Alone, Actors
<1>3. ~TaskSends /\ ~TaskReads /\ (\A x \in Sides : ~TaskWaitsForPort(x))
      /\ ~TaskSendsToSink /\ ~TaskReadsSource /\ ~TaskSendsWrapped /\ ~TaskReadsStream
  BY <1>1 DEF TaskSends, TaskReads, TaskWaitsForPort, TaskSendsToSink, TaskReadsSource,
              TaskSendsWrapped, TaskReadsStream
<1>4. ~TaskCloses
  BY DEF TaskCloses, SinkPolled, Sending, ValuedInv, Still
<1>5. ~ExtRegister /\ ~StreamMoves /\ ~SinkMoves
      /\ ~Connect("input", "connect", "connectOutput") /\ ~Connect("output", "connectOutput", "poll")
      /\ \A a \in Actors : ~Resume(a)
  BY <1>1, <1>2 DEF ExtRegister, StreamMoves, SinkMoves, Connect, InSection, Resume, Actors
<1>6. \A a \in Actors : ~DriverPrints(a) /\ ~DriverFindsNone(a) /\ ~DriverFeeds(a)
                        /\ ~DriverWaits(a) /\ ~DriverStops(a)
  BY <1>2 DEF DriverPrints, DriverFindsNone, DriverFeeds, DriverWaits, DriverStops, InSection
<1> QED
  BY <1>3, <1>4, <1>5, <1>6 DEF Next, TaskStep, Outside

\* Who is woken when the input is set.
LEMMA InputWakes ==
  ASSUME Ring({Input}), woken \in BOOLEAN
  PROVE  woken' = (woken \/ Input \in registered)
<1>1. Owner(Input) = "task"
  BY DEF Owner, Input, Writer, Reader
<1>2. "task" \in Owners({Input}) <=> Input \in registered
  BY <1>1 DEF Owners
<1> QED
  BY <1>2 DEF Ring, Wakes

\* Between a number set and its word read, a critical section has ended, which has
\* polled the task.
LEMMA ValuedKeeps ==
  ASSUME TypeInv, program \in Valued, ValuedInv, Next
  PROVE  program' = program /\ TypeInv' /\ ValuedInv'
<1> DEFINE Goal == program' = program /\ TypeInv' /\ ValuedInv'
<1> USE LastAssumption
<1>1. /\ "main" \in Actors /\ Nobody \notin Actors /\ next \in Nat /\ LastNumber \in Nat
      /\ inside # Nobody => inside \in Actors
  BY DEF TypeInv, Actors, Nobody
<1>2. CASE TaskReadsValue
  <2>1. cell' = WordOf(value) /\ cell' \in Texts
    BY <1>2, WordIsJoined DEF TaskReadsValue, WordOf, ValuedInv
  <2>2. registered' = (registered \ {}) \cup {Input} /\ woken' = (woken \/ "task" \in Owners({}))
    BY <1>2, Zenon DEF TaskReadsValue, RingAndSet, Wakes
  <2>3. woken' = woken
    BY <2>2 DEF Owners, TypeInv
  <2> QED
    BY <1>1, <1>2, <2>1, <2>2, <2>3
    DEF TaskReadsValue, TaskWaits, TaskPart, outer, task, Polling, TypeInv, ValuedInv,
        Still, Alone, Answered, Labels
<1>3. CASE TickPoll
  BY <1>1, <1>3 DEF TickPoll, MachinePart, objects, outer, task, Polling, TypeInv, ValuedInv,
                    Still, Alone, Answered
<1>4. CASE TickEnd
  <2>1. UNCHANGED pc
    BY <1>1, <1>4 DEF TickEnd, TypeInv, ValuedInv, Alone, Actors
  <2> QED
    BY <1>1, <1>4, <2>1
    DEF TickEnd, MachinePart, objects, outer, task, Polling, TypeInv, ValuedInv,
        Still, Alone, Answered
<1>5. CASE SetInput
  <2>1. woken' = (woken \/ Input \in registered)
    BY <1>5, InputWakes DEF SetInput, TypeInv
  <2> QED
    BY <1>1, <1>5, <2>1
    DEF SetInput, InSection, DropGuard, Goto, outer, task, Polling, TypeInv, ValuedInv,
        Still, Alone, Answered, Labels, Actors
<1>6. CASE AsMut
  <2>1. woken' = (woken \/ Input \in registered)
    BY <1>6, InputWakes DEF AsMut, TypeInv
  <2> QED
    BY <1>1, <1>6, <2>1
    DEF AsMut, InSection, Goto, objects, outer, task, Polling, TypeInv, ValuedInv,
        Still, Alone, Answered, Labels, Actors
<1>7. CASE WriteInput
  BY <1>1, <1>7
  DEF WriteInput, InSection, DropGuard, Goto, outer, task, wakers, Polling, TypeInv, ValuedInv,
      Still, Alone, Answered, Labels, Actors
<1>8. CASE GetOutput
  <2>1. next <= LastNumber /\ ~woken /\ Answered /\ value = next /\ section = "user" /\ pc["main"] = "get"
    BY <1>8 DEF GetOutput, InSection, ValuedInv, Polling
  <2>2. next - 1 \in Nat /\ (next - 1) + 1 = next /\ (next + 1) - 1 = next /\ next + 1 \in 1..(LastNumber + 1)
    BY <1>1, <2>1 DEF TypeInv
  <2>3. cell = JoinedWords(next)
    BY <1>1, <2>1, WordIsJoined DEF Answered
  <2>4. printed' = Table(next) /\ printed' \in Seq(Lines)
    <3>1. printed' = Append(Table(next - 1), Line(next, JoinedWords(next)))
      BY <1>8, <2>3 DEF GetOutput, PrintLine, ValuedInv
    <3> QED
      BY <1>1, <2>2, <3>1, TableStep
  <2>0. next' = next + 1
    BY <1>8 DEF GetOutput
  <2>5. /\ section' = "tick" /\ UNCHANGED <<inside, program, objects, task, wakers>>
        /\ pc' = [pc EXCEPT !["main"] = IF next = LastNumber THEN "done" ELSE "set"]
    BY <1>8 DEF GetOutput, DropGuard, Goto
  <2>6. /\ pc' \in [Actors -> Labels] /\ pc'["feeder"] = "done" /\ pc'["printer"] = "done"
        /\ pc'["main"] # "write" /\ pc'["main"] # "get"
        /\ next = LastNumber => pc'["main"] = "done"
        /\ next # LastNumber => pc'["main"] = "set"
    BY <1>1, <2>5 DEF TypeInv, ValuedInv, Alone, Actors, Labels
  <2>7. program' = program /\ TypeInv'
    <3>1. next' \in 1..(LastNumber + 1) /\ printed' \in Seq(Lines) /\ pc' \in [Actors -> Labels]
      BY <2>0, <2>2, <2>4, <2>6
    <3>2. inside' \in Actors \cup {Nobody} /\ section' = "tick" /\ inside' # Nobody
      BY <2>1, <2>5 DEF TypeInv
    <3>3. UNCHANGED <<program, exch, words, cell, woken, taskDone>>
      BY <2>5 DEF objects, task, wakers
    <3> QED
      BY <3>1, <3>2, <3>3 DEF TypeInv
  <2>8. printed' = Table(next' - 1)
    BY <2>0, <2>2, <2>4
  <2>9. /\ pc'["main"] = "done" => next' = LastNumber + 1
        /\ pc'["main"] # "done" => next' <= LastNumber
    <3>1. next # LastNumber => next + 1 <= LastNumber
      BY <1>1, <2>1
    <3> QED
      BY <2>0, <2>6, <3>1
  <2>10. Still' /\ ~taskDone' /\ value' \in Nat /\ Answered'
    BY <2>1, <2>5 DEF objects, outer, task, wakers, ValuedInv, Still, Answered
  <2> QED
    BY <2>5, <2>6, <2>7, <2>8, <2>9, <2>10 DEF ValuedInv, Alone
<1>9. ASSUME NEW a \in Actors, Lock(a) PROVE Goal
  <2>1. inside' = a /\ section' \in {"user"} /\ section = "out" /\ pc[a] \notin {"poll", "write"} /\ a = "main"
    BY <1>9 DEF Lock, TypeInv, ValuedInv, Alone, Actors
  <2> QED
    BY <1>1, <1>9, <2>1
    DEF Lock, MachinePart, objects, outer, task, Polling, TypeInv, ValuedInv, Still, Alone, Answered, Actors
<1> QED
  BY <1>2, <1>3, <1>4, <1>5, <1>6, <1>7, <1>8, <1>9, ValuedSteps

-----------------------------------------------------------------------------
(* sans_io and split.                                                      *)

\* What the calls of an IoExchange do to its slots.
LEMMA Exchanges ==
  ASSUME exch \in [Sides -> Slots], NEW x \in Sides, NEW y \in Sides
  PROVE  /\ \A me : TakeItem(x, me) =>
              /\ exch' \in [Sides -> Slots]
              /\ exch[x].state = "FULL" /\ exch'[x].state = "EMPTY"
              /\ y # x => exch'[y] = exch[y]
         /\ \A what \in Items : SendItem(x, what) =>
              /\ exch' \in [Sides -> Slots]
              /\ exch[x].state # "FULL" /\ exch'[x].state = "FULL" /\ exch'[x].item = what
              /\ y # x => exch'[y] = exch[y]
         /\ ReadPending(x) =>
              /\ exch' \in [Sides -> Slots]
              /\ exch[x].state # "FULL" /\ exch'[x].state # "FULL"
              /\ y # x => exch'[y] = exch[y]
<1>1. NoItem \in Items
  BY DEF NoItem, Items
<1>2. ASSUME NEW me, TakeItem(x, me)
      PROVE  /\ exch' \in [Sides -> Slots]
             /\ exch[x].state = "FULL" /\ exch'[x].state = "EMPTY"
             /\ y # x => exch'[y] = exch[y]
  BY <1>1, <1>2 DEF TakeItem, Full, Slots
<1>3. ASSUME NEW what \in Items, SendItem(x, what)
      PROVE  /\ exch' \in [Sides -> Slots]
             /\ exch[x].state # "FULL" /\ exch'[x].state = "FULL" /\ exch'[x].item = what
             /\ y # x => exch'[y] = exch[y]
  BY <1>3 DEF SendItem, Put, Full, Slots
<1>4. ASSUME ReadPending(x)
      PROVE  /\ exch' \in [Sides -> Slots]
             /\ exch[x].state # "FULL" /\ exch'[x].state # "FULL"
             /\ y # x => exch'[y] = exch[y]
  BY <1>4 DEF ReadPending, Full, Slots
<1> QED
  BY <1>2, <1>3, <1>4

\* The steps that these programs can take.
LEMMA ExchangedSteps ==
  ASSUME TypeInv, program \in Exchanged, ExchangedInv, Next
  PROVE  \/ TaskSends \/ TaskReads \/ TickPoll \/ TickEnd
         \/ \E a \in Actors :
              \/ DriverPrints(a) \/ DriverFindsNone(a)
              \/ DriverFeeds(a) \/ DriverWaits(a) \/ DriverStops(a)
              \/ Lock(a) \/ Resume(a)
<1>1. /\ program \notin Valued /\ program \notin Ported /\ program \notin {"io", "wrapped", "minimal", "by_mut"}
      /\ program \in {"sans_io", "split"}
  BY DEF Valued, Exchanged, Ported
<1>2. \A a \in Actors : pc[a] \notin {"set", "write", "get", "connect", "connectOutput", "poll", "register"}
  BY <1>1 DEF ExchangedInv, ThreadsRight, Alone, Actors
<1>3. /\ \A x \in Sides : ~TaskWaitsForPort(x)
      /\ ~TaskSendsToSink /\ ~TaskReadsSource /\ ~TaskSendsWrapped /\ ~TaskReadsStream
      /\ ~TaskReadsValue /\ ~StreamMoves /\ ~SinkMoves
  BY <1>1 DEF TaskReadsValue, TaskWaitsForPort, TaskSendsToSink, TaskReadsSource,
              TaskSendsWrapped, TaskReadsStream, StreamMoves, SinkMoves
<1>4. ~TaskCloses
  BY DEF TaskCloses, SinkPolled, Sending, ExchangedInv, Still
<1>5. /\ ~ExtRegister /\ ~SetInput /\ ~AsMut /\ ~WriteInput /\ ~GetOutput
      /\ ~Connect("input", "connect", "connectOutput") /\ ~Connect("output", "connectOutput", "poll")
  BY <1>2 DEF ExtRegister, SetInput, AsMut, WriteInput, GetOutput, Connect, InSection, Actors
<1> QED
  BY <1>3, <1>4, <1>5 DEF Next, TaskStep, Outside

\* The task's bit after some tasks were woken.
LEMMA WakesTyped ==
  ASSUME NEW who, Wakes(who), woken \in BOOLEAN
  PROVE  woken' \in BOOLEAN /\ woken' = (woken \/ "task" \in who)
BY DEF Wakes

\* The slots hold what they should, and the threads are where they can be.
LEMMA ExchangedTyped ==
  ASSUME TypeInv, program \in Exchanged, ExchangedInv, Next
  PROVE  program' = program /\ TypeInv' /\ Still' /\ ~taskDone' /\ ItemsRight' /\ ThreadsRight'
<1> DEFINE Goal == program' = program /\ TypeInv' /\ Still' /\ ~taskDone' /\ ItemsRight' /\ ThreadsRight'
<1> USE LastAssumption DEF ExchangedInv
<1>1. /\ program \in {"sans_io", "split"} /\ "input" \in Sides /\ "output" \in Sides
      /\ {"main", "feeder", "printer"} = Actors /\ Nobody \notin Actors
      /\ inside # Nobody => inside \in Actors
      /\ {"read", "send", "parked", "done"} \subseteq Labels
      /\ Nat \subseteq Items /\ Texts \subseteq Items
      /\ next \in Nat /\ LastNumber \in Nat
  BY DEF Exchanged, TypeInv, Actors, Nobody, Labels, Items, Sides
<1>2. CASE TaskSends
  <2>1. /\ program' = program /\ UNCHANGED <<inside, pc, cell, stream, sink, taskDone, next, printed>>
        /\ section = "poll" /\ section' \in {"poll", "tick"} /\ words # <<>>
    BY <1>2 DEF TaskSends, TaskPart, outer, Polling, Again, TaskWaits
  <2>2. Head(words) \in Texts /\ Tail(words) \in Seq(Texts)
    BY <2>1, LinedHead DEF TypeInv
  <2>3. /\ words' \in Seq(Texts) /\ woken' \in BOOLEAN
        /\ exch' \in [Sides -> Slots] /\ exch'["input"] = exch["input"]
        /\ exch'["output"].state = "FULL" => exch'["output"].item \in Texts
    <3>1. CASE SendItem("output", Head(words)) /\ words' = Tail(words)
      <4>1. woken' \in BOOLEAN
        BY <3>1, WakesTyped DEF SendItem, Ring, TypeInv
      <4> QED
        BY <1>1, <2>2, <3>1, <4>1, Exchanges DEF TypeInv
    <3>2. CASE SendPending("output") /\ words' = words
      <4>1. woken' \in BOOLEAN
        BY <3>2, WakesTyped DEF SendPending, RingAndSet, TypeInv
      <4> QED
        BY <3>2, <4>1 DEF SendPending, TypeInv, ItemsRight, Full
    <3> QED
      BY <1>2, <3>1, <3>2 DEF TaskSends
  <2> QED
    BY <1>1, <2>1, <2>3 DEF TypeInv, Still, ItemsRight, ThreadsRight, Alone, Full
<1>3. CASE TaskReads
  <2>1. /\ program' = program /\ UNCHANGED <<inside, pc, cell, stream, sink, taskDone, next, printed>>
        /\ section = "poll" /\ section' \in {"poll", "tick"} /\ words = <<>>
    BY <1>3 DEF TaskReads, TaskPart, outer, Polling, Again, TaskWaits
  <2>3. /\ words' \in Seq(Texts) /\ woken' \in BOOLEAN
        /\ exch' \in [Sides -> Slots] /\ exch'["output"] = exch["output"]
        /\ exch'["input"].state # "FULL"
    <3>1. CASE TakeItem("input", "task") /\ words' = Fizz(exch["input"].item) \o Buzz(exch["input"].item)
      <4>1. woken' \in BOOLEAN
        BY <3>1, WakesTyped DEF TakeItem, TypeInv
      <4>2. words' \in Seq(Texts)
        BY <3>1, WordsAreSeq
      <4> QED
        BY <1>1, <3>1, <4>1, <4>2, Exchanges DEF TypeInv
    <3>2. CASE ReadPending("input") /\ words' = words
      <4>1. woken' \in BOOLEAN
        BY <3>2, WakesTyped DEF ReadPending, RingAndSet, TypeInv
      <4> QED
        BY <1>1, <3>2, <4>1, Exchanges DEF TypeInv
    <3> QED
      BY <1>3, <3>1, <3>2 DEF TaskReads
  <2> QED
    BY <1>1, <2>1, <2>3 DEF TypeInv, Still, ItemsRight, ThreadsRight, Alone, Full
<1>4. CASE TickPoll
  BY <1>1, <1>4 DEF TickPoll, MachinePart, objects, outer, task, TypeInv, Still, ItemsRight, Full,
                    ThreadsRight, Alone
<1>5. CASE TickEnd
  <2>1. UNCHANGED pc
    BY <1>1, <1>5 DEF TickEnd, TypeInv, ThreadsRight, Alone
  <2> QED
    BY <1>1, <1>5, <2>1
    DEF TickEnd, MachinePart, objects, outer, task, TypeInv, Still, ItemsRight, Full, ThreadsRight, Alone
<1>6. ASSUME NEW a \in Actors, DriverPrints(a) PROVE Goal
  <2>1. /\ TakeItem("output", a) /\ section' = "tick" /\ inside = a
        /\ UNCHANGED <<program, inside, pc, cell, stream, sink, words, taskDone, next>>
        /\ printed' = Append(printed, Line(0, exch["output"].item))
    BY <1>6 DEF DriverPrints, InSection, DropGuard, OutsidePart, outer, task, PrintLine
  <2>2. woken' \in BOOLEAN
    BY <2>1, WakesTyped DEF TakeItem, TypeInv
  <2>3. /\ exch' \in [Sides -> Slots] /\ exch'["input"] = exch["input"]
        /\ exch["output"].state = "FULL" /\ exch'["output"].state # "FULL"
    BY <1>1, <2>1, Exchanges DEF TypeInv
  <2>4. printed' \in Seq(Lines)
    <3>1. Line(0, exch["output"].item) \in Lines
      BY <2>3 DEF ItemsRight, Full, Line, Lines
    <3> QED
      BY <2>1, <3>1, AppendProperties DEF TypeInv
  <2> QED
    BY <1>1, <2>1, <2>2, <2>3, <2>4 DEF TypeInv, Still, ItemsRight, ThreadsRight, Alone, Full
<1>7. ASSUME NEW a \in Actors, DriverFindsNone(a) PROVE Goal
  <2>1. /\ ReadPending("output") /\ pc[a] = "read" /\ inside = a /\ inside' = a
        /\ section' \in {"user", "tick"}
        /\ UNCHANGED <<program, cell, stream, sink, words, taskDone, next, printed>>
        /\ pc' = [pc EXCEPT ![a] = IF a = "main" THEN "send" ELSE "parked"]
    BY <1>7 DEF DriverFindsNone, InSection, DropGuard, OutsidePart, outer, task, Goto
  <2>2. woken' \in BOOLEAN
    BY <2>1, WakesTyped DEF ReadPending, RingAndSet, TypeInv
  <2>3. /\ exch' \in [Sides -> Slots] /\ exch'["input"] = exch["input"]
        /\ exch'["output"].state # "FULL"
    BY <1>1, <2>1, Exchanges DEF TypeInv
  <2>4. pc' \in [Actors -> Labels] /\ ThreadsRight'
    BY <1>1, <2>1 DEF TypeInv, ThreadsRight, Alone
  <2> QED
    BY <1>1, <2>1, <2>2, <2>3, <2>4 DEF TypeInv, Still, ItemsRight, Full
<1>8. ASSUME NEW a \in Actors, DriverFeeds(a) PROVE Goal
  <2>1. /\ SendItem("input", next) /\ next <= LastNumber /\ inside = a /\ pc[a] = "send"
        /\ section' = "tick"
        /\ UNCHANGED <<program, inside, cell, stream, sink, words, taskDone>>
        /\ next' = next + 1 /\ pc' = [pc EXCEPT ![a] = Entry(a)]
        /\ printed' = IF a = "main" THEN Append(printed, Line(next, NoText)) ELSE printed
    BY <1>8 DEF DriverFeeds, InSection, DropGuard, OutsidePart, outer, task, Goto, PrintLine
  <2>2. woken' \in BOOLEAN
    BY <2>1, WakesTyped DEF SendItem, Ring, TypeInv
  <2>3. /\ exch' \in [Sides -> Slots] /\ exch'["output"] = exch["output"]
        /\ exch'["input"].item = next
    BY <1>1, <2>1, Exchanges DEF TypeInv
  <2>4. printed' \in Seq(Lines)
    <3>1. Line(next, NoText) \in Lines
      BY <1>1 DEF Line, Lines, Texts
    <3> QED
      BY <2>1, <3>1, AppendProperties DEF TypeInv
  <2>5. pc' \in [Actors -> Labels] /\ ThreadsRight'
    <3>1. Entry(a) \in {"read", "send"}
      BY <1>1, <2>1 DEF ThreadsRight, Alone, Entry, Valued, Ported
    <3>2. program = "split" => a = "feeder" /\ Entry(a) = "send"
      BY <1>1, <2>1 DEF ThreadsRight, Entry, Valued, Ported
    <3>3. program = "sans_io" => a = "main"
      BY <1>1, <2>1 DEF ThreadsRight, Alone
    <3> QED
      BY <1>1, <2>1, <3>1, <3>2, <3>3 DEF TypeInv, ThreadsRight, Alone
  <2> QED
    BY <1>1, <2>1, <2>2, <2>3, <2>4, <2>5 DEF TypeInv, Still, ItemsRight, Full
<1>9. ASSUME NEW a \in Actors, DriverWaits(a) PROVE Goal
  <2>1. /\ SendPending("input") /\ inside = a /\ pc[a] = "send" /\ section' = "tick"
        /\ UNCHANGED <<program, inside, exch, cell, stream, sink, words, taskDone, next, printed>>
        /\ pc' = [pc EXCEPT ![a] = "parked"]
    BY <1>9 DEF DriverWaits, SendPending, InSection, DropGuard, OutsidePart, outer, task, Goto
  <2>2. woken' \in BOOLEAN
    BY <2>1, WakesTyped DEF SendPending, RingAndSet, TypeInv
  <2> QED
    BY <1>1, <2>1, <2>2 DEF TypeInv, Still, ItemsRight, Full, ThreadsRight, Alone
<1>10. ASSUME NEW a \in Actors, DriverStops(a) \/ Lock(a) \/ Resume(a) PROVE Goal
  <2>1. /\ UNCHANGED <<program, exch, cell, stream, sink, words, taskDone, next, printed, woken>>
        /\ inside' \in Actors \cup {Nobody} /\ section' \in {"out", "user", "tick", "poll"}
        /\ section' = "out" <=> inside' = Nobody
    BY <1>1, <1>10 DEF DriverStops, Lock, Resume, InSection, DropGuard, OutsidePart, MachinePart,
                       objects, outer, task, wakers, TypeInv
  <2>2. pc' = pc \/ (pc[a] = "send" /\ pc' = [pc EXCEPT ![a] = "done"])
                 \/ (pc[a] = "parked" /\ pc' = [pc EXCEPT ![a] = Restart(a)])
    BY <1>10 DEF DriverStops, Lock, Resume, InSection, Goto
  <2>3. pc[a] = "parked" =>
          /\ program = "sans_io" => a = "main" /\ Restart(a) = "read"
          /\ program = "split" => \/ a = "feeder" /\ Restart(a) = "send"
                                  \/ a = "printer" /\ Restart(a) = "read"
    BY <1>1 DEF ThreadsRight, Alone, Restart, Entry, Valued, Ported
  <2>4. pc' \in [Actors -> Labels] /\ ThreadsRight'
    BY <1>1, <2>1, <2>2, <2>3 DEF TypeInv, ThreadsRight, Alone
  <2> QED
    BY <1>1, <2>1, <2>4 DEF TypeInv, Still, ItemsRight, Full
<1> QED
  BY <1>2, <1>3, <1>4, <1>5, <1>6, <1>7, <1>8, <1>9, <1>10, ExchangedSteps

\* What the library says of concatenation, for lines.
LEMMA LinesJoin ==
  ASSUME NEW s \in Seq(Lines), NEW t \in Seq(Lines)
  PROVE  s \o t \in Seq(Lines) /\ <<>> \o s = s /\ s \o <<>> = s
BY ConcatProperties, ConcatEmptySeq

\* The lines still to come out are lines.
LEMMA LinesLeft ==
  ASSUME TypeInv, ItemsRight
  PROVE  OutLines \in Seq(Lines) /\ InLines \in Seq(Lines) /\ Lined(words) \in Seq(Lines)
<1>1. <<>> \in Seq(Lines)
  BY EmptySeq
<1>2. Full("output") => <<Line(0, exch["output"].item)>> \in Seq(Lines)
  BY LineIsSeq DEF ItemsRight
<1>3. Full("input") => WordLines(exch["input"].item) \in Seq(Lines)
  BY WordsAreSeq
<1> QED
  BY <1>1, <1>2, <1>3, LinedIsSeq DEF TypeInv, OutLines, InLines

\* The book so far, and with the next number.
LEMMA BookNext ==
  ASSUME TypeInv, next \in Nat
  PROVE  /\ Book(program, next - 1) \in Seq(Lines)
         /\ Book(program, (next + 1) - 1) = Book(program, next - 1) \o Chapter(program, next)
<1>1. next - 1 \in Nat /\ (next - 1) + 1 = next /\ (next + 1) - 1 = next
  BY LastAssumption DEF TypeInv
<1> QED
  BY <1>1, BookStep

\* Every step of the task and of the threads moves lines along, in order.
LEMMA AccountKeeps ==
  ASSUME TypeInv, program \in Exchanged, ExchangedInv, Next, program = "sans_io" => QuietInv
  PROVE  Account'
<1> DEFINE o == OutLines
           w == Lined(words)
           i == InLines
           book == Book(program, next - 1)
<1>1. /\ o \in Seq(Lines) /\ w \in Seq(Lines) /\ i \in Seq(Lines) /\ <<>> \in Seq(Lines)
      /\ printed \in Seq(Lines)
  BY LinesLeft, EmptySeq DEF ExchangedInv, TypeInv
<1>0. printed \o (o \o (w \o i)) = book
  BY DEF ExchangedInv, Account
<1>2. /\ "input" \in Sides /\ "output" \in Sides /\ program' = program /\ TypeInv' /\ ItemsRight'
      /\ exch \in [Sides -> Slots] /\ ItemsRight
      /\ next \in Nat /\ Nat \subseteq Items /\ Texts \subseteq Items
      /\ program \in {"sans_io", "split"}
  BY ExchangedTyped DEF Sides, TypeInv, ExchangedInv, Items, Exchanged
<1>3. /\ o = IF exch["output"].state = "FULL" THEN <<Line(0, exch["output"].item)>> ELSE <<>>
      /\ i = IF exch["input"].state = "FULL" THEN WordLines(exch["input"].item) ELSE <<>>
      /\ OutLines' = IF exch'["output"].state = "FULL" THEN <<Line(0, exch'["output"].item)>> ELSE <<>>
      /\ InLines' = IF exch'["input"].state = "FULL" THEN WordLines(exch'["input"].item) ELSE <<>>
  BY DEF OutLines, InLines, Full
<1>4. /\ Account' <=> printed' \o (OutLines' \o (Lined(words') \o InLines')) = Book(program, next' - 1)
  BY <1>2 DEF Account
<1>5. Lined(<<>>) = <<>>
  BY EmptySeq DEF Lined
<1> HIDE DEF o, w, i, book
<1>6. ASSUME UNCHANGED <<printed, words, next>>, OutLines' = OutLines, InLines' = InLines
      PROVE  Account'
  BY <1>0, <1>1, <1>4, <1>6 DEF o, w, i, book
<1>7. CASE TaskSends
  <2>1. UNCHANGED <<next, printed>> /\ words # <<>>
    BY <1>7 DEF TaskSends
  <2>2. CASE SendItem("output", Head(words)) /\ words' = Tail(words)
    <3>1. /\ Head(words) \in Texts /\ Tail(words) \in Seq(Texts)
          /\ w = <<Line(0, Head(words))>> \o Lined(Tail(words))
      BY <2>1, LinedHead DEF TypeInv, w
    <3> DEFINE h == <<Line(0, Head(words))>>
               t == Lined(Tail(words))
    <3>2. h \in Seq(Lines) /\ t \in Seq(Lines)
      BY <3>1, LineIsSeq, LinedIsSeq
    <3>3. o = <<>> /\ OutLines' = h /\ InLines' = i
      BY <1>2, <1>3, <2>2, <3>1, Exchanges
    <3>4. w = h \o t /\ Lined(words') = t
      BY <2>2, <3>1
    <3> HIDE DEF h, t
    <3>5. o \o (w \o i) = h \o (t \o i)
      <4>1. (h \o t) \o i = h \o (t \o i)
        <5>1. Associates(h, t, i)
          BY <1>1, <3>2, LinesAssociate
        <5> QED
          BY <5>1 DEF Associates
      <4>2. h \o (t \o i) \in Seq(Lines)
        BY <1>1, <3>2, ConcatProperties
      <4> QED
        BY <3>3, <3>4, <4>1, <4>2, ConcatEmptySeq
    <3> QED
      BY <1>0, <1>1, <1>4, <2>1, <3>3, <3>4, <3>5 DEF book
  <2>3. CASE SendPending("output") /\ words' = words
    <3>1. exch' = exch
      BY <2>3 DEF SendPending
    <3> QED
      BY <1>3, <1>6, <2>1, <2>3, <3>1 DEF o, i
  <2> QED
    BY <1>7, <2>2, <2>3 DEF TaskSends
<1>8. CASE TaskReads
  <2>1. UNCHANGED <<next, printed>> /\ words = <<>>
    BY <1>8 DEF TaskReads
  <2>2. CASE TakeItem("input", "task") /\ words' = Fizz(exch["input"].item) \o Buzz(exch["input"].item)
    <3>1. /\ exch["input"].state = "FULL" /\ exch'["input"].state # "FULL" /\ OutLines' = o
      BY <1>2, <1>3, <2>2, Exchanges
    <3>2. w = <<>> /\ i = WordLines(exch["input"].item) /\ InLines' = <<>>
      BY <1>3, <1>5, <2>1, <3>1 DEF w
    <3>3. Lined(words') = i
      BY <2>2, <3>2, WordsAreSeq
    <3>4. w \o i = i /\ i \o <<>> = i
      BY <1>1, <3>2, ConcatEmptySeq
    <3> QED
      BY <1>0, <1>1, <1>4, <2>1, <3>1, <3>2, <3>3, <3>4 DEF book
  <2>3. CASE ReadPending("input") /\ words' = words
    <3>1. OutLines' = o /\ InLines' = i
      BY <1>2, <1>3, <2>3, Exchanges
    <3> QED
      BY <1>6, <2>1, <2>3, <3>1 DEF o, i
  <2> QED
    BY <1>8, <2>2, <2>3 DEF TaskReads
<1>9. ASSUME NEW a \in Actors, DriverPrints(a) PROVE Account'
  <2>1. /\ UNCHANGED <<words, next>> /\ TakeItem("output", a)
        /\ printed' = Append(printed, Line(0, exch["output"].item))
    BY <1>9 DEF DriverPrints, OutsidePart, task, PrintLine
  <2>2. /\ exch["output"].state = "FULL" /\ OutLines' = <<>> /\ InLines' = i
        /\ o = <<Line(0, exch["output"].item)>>
    BY <1>2, <1>3, <2>1, Exchanges
  <2>3. printed' = printed \o o
    <3>1. Line(0, exch["output"].item) \in Lines
      BY <1>2, <2>2 DEF ItemsRight, Full, Line, Lines
    <3> QED
      BY <1>1, <2>1, <2>2, <3>1, AppendIsConcat
  <2>4. w \o i \in Seq(Lines) /\ <<>> \o (w \o i) = w \o i
    <3>1. w \o i \in Seq(Lines)
      BY <1>1, LinesJoin
    <3> QED
      BY <3>1, LinesJoin
  <2>5. (printed \o o) \o (w \o i) = printed \o (o \o (w \o i))
    <3>1. Associates(printed, o, w \o i)
      BY <1>1, <2>4, LinesAssociate
    <3> QED
      BY <3>1 DEF Associates
  <2> QED
    BY <1>0, <1>1, <1>4, <2>1, <2>2, <2>3, <2>4, <2>5 DEF book, w
<1>10. ASSUME NEW a \in Actors, DriverFindsNone(a) PROVE Account'
  <2>1. UNCHANGED <<words, next, printed>> /\ ReadPending("output")
    BY <1>10 DEF DriverFindsNone, OutsidePart, task
  <2>2. OutLines' = o /\ InLines' = i
    BY <1>2, <1>3, <2>1, Exchanges
  <2> QED
    BY <1>6, <2>1, <2>2 DEF o, i
<1>11. ASSUME NEW a \in Actors, DriverFeeds(a) PROVE Account'
  <2>1. /\ UNCHANGED words /\ SendItem("input", next) /\ next' = next + 1
        /\ pc[a] = "send"
        /\ printed' = IF a = "main" THEN Append(printed, Line(next, NoText)) ELSE printed
    BY <1>11 DEF DriverFeeds, InSection, OutsidePart, task, PrintLine
  <2>2. i = <<>> /\ OutLines' = o /\ InLines' = WordLines(next)
    BY <1>2, <1>3, <2>1, Exchanges
  <2> DEFINE x == WordLines(next)
  <2>3. x \in Seq(Lines)
    BY WordsAreSeq
  <2>4. Book(program, next' - 1) = book \o Chapter(program, next)
    BY <1>2, <2>1, BookNext DEF book
  <2>5. w \o i = w /\ o \o w \in Seq(Lines)
    BY <1>1, <2>2, ConcatEmptySeq, ConcatProperties
  <2>6. CASE program = "split"
    <3>1. printed' = printed /\ Chapter(program, next) = x
      BY <1>2, <2>1, <2>6 DEF ExchangedInv, ThreadsRight, Chapter
    <3> HIDE DEF x
    <3>2. o \o (w \o x) = (o \o w) \o x
      <4>1. Associates(o, w, x)
        BY <1>1, <2>3, LinesAssociate
      <4> QED
        BY <4>1 DEF Associates
    <3>3. printed \o ((o \o w) \o x) = (printed \o (o \o w)) \o x
      <4>1. Associates(printed, o \o w, x)
        BY <1>1, <2>3, <2>5, LinesAssociate
      <4> QED
        BY <4>1 DEF Associates
    <3> QED
      BY <1>0, <1>1, <1>4, <2>1, <2>2, <2>4, <2>5, <3>1, <3>2, <3>3 DEF w, x
  <2>7. CASE program = "sans_io"
    <3> DEFINE l == <<Line(next, NoText)>>
    <3>1. a = "main" /\ words = <<>> /\ o = <<>>
      BY <1>3, <2>1, <2>7 DEF ExchangedInv, ThreadsRight, Alone, QuietInv, Idle, Actors, Full
    <3>2. l \in Seq(Lines) /\ Chapter(program, next) = l \o x
      <4>1. NoText \in Texts
        BY DEF Texts
      <4> QED
        BY <1>2, <2>7, <4>1, LineIsSeq DEF Chapter
    <3>3. printed' = printed \o l
      <4>1. Line(next, NoText) \in Lines
        BY <1>2 DEF Line, Lines, Texts
      <4> QED
        BY <1>1, <2>1, <3>1, <4>1, AppendIsConcat
    <3>4. w = <<>> /\ printed = book
      <4>1. w = <<>>
        BY <1>5, <3>1 DEF w
      <4>2. <<>> \o <<>> = <<>> /\ printed \o <<>> = printed
        BY <1>1, ConcatEmptySeq
      <4> QED
        BY <1>0, <2>2, <3>1, <4>1, <4>2
    <3> HIDE DEF l, x
    <3>5. <<>> \o x = x
      BY <2>3, LinesJoin
    <3>6. (printed \o l) \o x = printed \o (l \o x)
      <4>1. Associates(printed, l, x)
        BY <1>1, <2>3, <3>2, LinesAssociate
      <4> QED
        BY <4>1 DEF Associates
    <3> QED
      BY <1>4, <2>1, <2>2, <2>4, <3>1, <3>2, <3>3, <3>4, <3>5, <3>6 DEF w, x
  <2> QED
    BY <1>2, <2>6, <2>7
<1>12. ASSUME \/ TickPoll \/ TickEnd
              \/ \E a \in Actors : DriverWaits(a) \/ DriverStops(a) \/ Lock(a) \/ Resume(a)
       PROVE  Account'
  <2>1. UNCHANGED <<exch, words, next, printed>>
    BY <1>12 DEF TickPoll, TickEnd, DriverWaits, SendPending, DriverStops, Lock, Resume, MachinePart,
                 OutsidePart, objects, task
  <2> QED
    BY <1>3, <1>6, <2>1 DEF o, i
<1> QED
  BY <1>7, <1>8, <1>9, <1>10, <1>11, <1>12, ExchangedSteps

-----------------------------------------------------------------------------
(* sans_io: what the driver finds.                                         *)

\* Whom the slots belong to: the task writes the output and reads the input.
LEMMA OwnersAre ==
  ASSUME program = "sans_io"
  PROVE  /\ "task" \in Owners({Writer("output")}) <=> Writer("output") \in registered
         /\ "task" \in Owners({Reader("input")}) <=> Reader("input") \in registered
         /\ "task" \notin Owners({Reader("output")})
         /\ "task" \notin Owners({Writer("input")})
         /\ "task" \notin Owners({})
<1>1. /\ Owner(Writer("output")) = "task" /\ Owner(Reader("input")) = "task"
      /\ Owner(Reader("output")) = "main" /\ Owner(Writer("input")) = "main"
  BY DEF Owner, Writer, Reader
<1>2. \A w : "task" \in Owners({w}) <=> w \in registered /\ Owner(w) = "task"
  BY DEF Owners
<1>3. Owners({}) = {}
  BY DEF Owners
<1> QED
  BY <1>1, <1>2, <1>3

LEMMA SlotsApart ==
  /\ Reader("input") # Writer("input") /\ Reader("input") # Reader("output")
  /\ Reader("input") # Writer("output") /\ Writer("output") # Reader("output")
  /\ Writer("output") # Writer("input")
BY DEF Reader, Writer

\* A critical section ends with the task waiting, and what it waits for makes the
\* driver wake it: so an empty output means that the task is through with its words.
LEMMA QuietKeeps ==
  ASSUME TypeInv, program = "sans_io", ExchangedInv, QuietInv, Next
  PROVE  QuietInv'
<1> DEFINE out == Writer("output")
           in == Reader("input")
<1>1. /\ program \in Exchanged /\ program' = program /\ TypeInv' /\ Still' /\ ~taskDone' /\ ThreadsRight'
  <2>1. program \in Exchanged
    BY DEF Exchanged
  <2> QED
    BY <2>1, ExchangedTyped
<1>2. /\ "input" \in Sides /\ "output" \in Sides /\ exch \in [Sides -> Slots] /\ woken \in BOOLEAN
      /\ next \in Nat /\ Nat \subseteq Items /\ Texts \subseteq Items /\ words \in Seq(Texts)
      /\ ~taskDone
  BY DEF Sides, TypeInv, Items, ExchangedInv
<1>3. \A x \in Sides : Full(x) <=> exch[x].state = "FULL"
  BY DEF Full
<1>4. QuietInv' <=>
        /\ out \in registered' => exch'["output"].state = "FULL" /\ words' # <<>>
        /\ section' \in {"out", "user"} => ~woken'
        /\ \/ woken' \/ section' = "poll"
           \/ IF words' = <<>> THEN exch'["input"].state # "FULL" /\ in \in registered'
              ELSE exch'["output"].state = "FULL" /\ out \in registered'
        /\ pc'["main"] = "send" => /\ section' = "user"
                                   /\ words' = <<>> /\ exch'["input"].state # "FULL"
                                   /\ exch'["output"].state # "FULL"
        /\ pc'["main"] = "done" => /\ words' = <<>> /\ exch'["input"].state # "FULL"
                                   /\ exch'["output"].state # "FULL"
                                   /\ next' = LastNumber + 1 /\ ~woken' /\ section' # "poll"
  BY DEF QuietInv, Full, Polling, Waiting, Idle, Reader, Writer
<1>5. /\ out \in registered => exch["output"].state = "FULL" /\ words # <<>>
      /\ section \in {"out", "user"} => ~woken
      /\ \/ woken \/ section = "poll"
         \/ IF words = <<>> THEN exch["input"].state # "FULL" /\ in \in registered
            ELSE exch["output"].state = "FULL" /\ out \in registered
      /\ pc["main"] = "send" => /\ section = "user"
                                /\ words = <<>> /\ exch["input"].state # "FULL"
                                /\ exch["output"].state # "FULL"
      /\ pc["main"] = "done" => /\ words = <<>> /\ exch["input"].state # "FULL"
                                /\ exch["output"].state # "FULL"
                                /\ next = LastNumber + 1 /\ ~woken /\ section # "poll"
  BY DEF QuietInv, Full, Polling, Waiting, Idle
<1>6. /\ in # Writer("input") /\ in # Reader("output") /\ in # out
      /\ out # Reader("output") /\ out # Writer("input")
  BY SlotsApart
<1>7. /\ "task" \in Owners({out}) <=> out \in registered
      /\ "task" \in Owners({in}) <=> in \in registered
      /\ "task" \notin Owners({Reader("output")})
      /\ "task" \notin Owners({Writer("input")})
      /\ "task" \notin Owners({})
  BY OwnersAre
<1> HIDE DEF out, in
<1>8. CASE TaskSends
  <2>1. section = "poll" /\ words # <<>> /\ UNCHANGED <<pc, next>>
    BY <1>8 DEF TaskSends, TaskPart, Polling
  <2>2. CASE SendItem("output", Head(words)) /\ section' = "poll"
    <3>1. Head(words) \in Items
      BY <1>2, <2>1, LinedHead
    <3>2. exch["output"].state # "FULL" /\ registered' = registered \ {Reader("output")}
      BY <1>2, <2>2, <3>1, Exchanges DEF SendItem, Ring
    <3> QED
      BY <1>4, <1>5, <2>1, <2>2, <3>2
  <2>3. CASE SendPending("output") /\ section' = "tick" /\ words' = words
    <3>1. exch' = exch /\ exch["output"].state = "FULL" /\ registered' = registered \cup {out}
      BY <1>2, <1>3, <2>3 DEF SendPending, RingAndSet, out
    <3> QED
      BY <1>4, <1>5, <2>1, <2>3, <3>1
  <2> QED
    BY <1>8, <2>2, <2>3 DEF TaskSends, Again, TaskWaits
<1>9. CASE TaskReads
  <2>1. section = "poll" /\ words = <<>> /\ UNCHANGED <<pc, next>>
    BY <1>9 DEF TaskReads, TaskPart, Polling
  <2>2. CASE TakeItem("input", "task") /\ section' = "poll"
    <3>1. registered' = registered \ {Writer("input")}
      BY <2>2 DEF TakeItem
    <3> QED
      BY <1>4, <1>5, <2>1, <2>2, <3>1
  <2>3. CASE ReadPending("input") /\ section' = "tick" /\ words' = words
    <3>1. /\ exch["input"].state # "FULL" /\ exch'["input"].state # "FULL"
          /\ exch'["output"] = exch["output"]
      BY <1>2, <2>3, Exchanges
    <3>2. in \in registered' /\ out \notin registered'
      BY <1>5, <1>6, <2>1, <2>3 DEF ReadPending, RingAndSet, in
    <3> QED
      BY <1>4, <1>5, <2>1, <2>3, <3>1, <3>2
  <2> QED
    BY <1>9, <2>2, <2>3 DEF TaskReads, Again, TaskWaits
<1>10. CASE TickPoll
  BY <1>4, <1>5, <1>10 DEF TickPoll, MachinePart, objects, task
<1>11. CASE TickEnd
  <2>1. UNCHANGED <<exch, words, next, registered>> /\ section = "tick" /\ ~woken /\ ~woken' /\ section' = "out"
    BY <1>2, <1>11 DEF TickEnd, MachinePart, objects, task
  <2>2. UNCHANGED pc
    <3>1. inside \in Actors /\ pc[inside] # "poll"
      BY <2>1 DEF TypeInv, ExchangedInv, ThreadsRight, Alone, Actors
    <3> QED
      BY <1>11, <3>1 DEF TickEnd
  <2> QED
    BY <1>4, <1>5, <2>1, <2>2
<1>12. ASSUME NEW a \in Actors, DriverPrints(a) PROVE QuietInv'
  <2>1. /\ TakeItem("output", a) /\ section = "user" /\ section' = "tick" /\ pc[a] = "read"
        /\ UNCHANGED <<words, pc, next>>
    BY <1>12 DEF DriverPrints, InSection, DropGuard, OutsidePart, task
  <2>2. a = "main"
    BY <1>12, <2>1 DEF ExchangedInv, ThreadsRight, Alone, Actors
  <2>3. /\ exch["output"].state = "FULL" /\ exch'["output"].state # "FULL"
        /\ exch'["input"] = exch["input"]
    BY <1>2, <2>1, Exchanges
  <2>4. /\ registered' = registered \ {out}
        /\ woken' = (woken \/ "task" \in Owners({out}) \cup {a})
    BY <2>1 DEF TakeItem, Wakes, out
  <2>5. woken' <=> out \in registered
    BY <1>5, <1>7, <2>1, <2>2, <2>4
  <2> QED
    BY <1>4, <1>5, <1>6, <2>1, <2>2, <2>3, <2>4, <2>5
<1>13. ASSUME NEW a \in Actors, DriverFindsNone(a) PROVE QuietInv'
  <2>1. /\ ReadPending("output") /\ section = "user" /\ pc[a] = "read"
        /\ UNCHANGED <<words, next>>
    BY <1>13 DEF DriverFindsNone, InSection, OutsidePart, task
  <2>2. a = "main"
    BY <1>13, <2>1 DEF ExchangedInv, ThreadsRight, Alone, Actors
  <2>3. pc' = [pc EXCEPT !["main"] = "send"] /\ section' = "user"
    BY <1>13, <2>1, <2>2 DEF DriverFindsNone, Goto
  <2>4. /\ exch["output"].state # "FULL" /\ exch'["output"].state # "FULL"
        /\ exch'["input"] = exch["input"]
    BY <1>2, <2>1, Exchanges
  <2>5. /\ ~woken /\ out \notin registered /\ words = <<>> /\ exch["input"].state # "FULL"
        /\ in \in registered
    BY <1>5, <2>1, <2>4
  <2>6. out \notin registered' /\ in \in registered' /\ ~woken'
    <3>1. \E ws \in {{out}, {}} : /\ registered' = (registered \ ws) \cup {Reader("output")}
                                  /\ Wakes(Owners(ws))
      BY <2>1 DEF ReadPending, RingAndSet, out
    <3> QED
      BY <1>2, <1>6, <1>7, <2>5, <3>1, WakesTyped
  <2>7. pc'["main"] = "send"
    BY <1>13, <2>2, <2>3 DEF TypeInv
  <2> QED
    BY <1>4, <2>1, <2>3, <2>4, <2>5, <2>6, <2>7
<1>14. ASSUME NEW a \in Actors, DriverFeeds(a) PROVE QuietInv'
  <2>1. /\ SendItem("input", next) /\ pc[a] = "send" /\ section' = "tick" /\ words' = words
        /\ pc' = [pc EXCEPT ![a] = Entry(a)]
    BY <1>14 DEF DriverFeeds, InSection, DropGuard, OutsidePart, task, Goto
  <2>2. a = "main"
    BY <1>14, <2>1 DEF ExchangedInv, ThreadsRight, Alone, Actors
  <2>3. pc'["main"] = "read"
    <3>1. Entry("main") = "read"
      BY DEF Entry, Valued, Ported
    <3> QED
      BY <1>14, <2>1, <2>2, <3>1 DEF TypeInv
  <2>4. out \notin registered /\ in \in registered
    BY <1>5, <2>1, <2>2
  <2>5. out \notin registered' /\ woken'
    BY <1>2, <1>7, <2>1, <2>4, WakesTyped DEF SendItem, Ring, in
  <2> QED
    BY <1>4, <2>1, <2>3, <2>5
<1>15. ASSUME NEW a \in Actors, DriverWaits(a) PROVE QuietInv'
  <2>1. /\ SendPending("input") /\ pc[a] = "send"
    BY <1>15 DEF DriverWaits, InSection
  <2>2. a = "main"
    BY <1>15, <2>1 DEF ExchangedInv, ThreadsRight, Alone, Actors
  <2>3. FALSE
    BY <1>2, <1>3, <1>5, <2>1, <2>2 DEF SendPending
  <2> QED
    BY <2>3
<1>16. ASSUME NEW a \in Actors, DriverStops(a) PROVE QuietInv'
  <2>1. /\ pc[a] = "send" /\ section = "user" /\ section' = "tick" /\ next > LastNumber
        /\ UNCHANGED <<exch, words, next, registered, woken>>
        /\ pc' = [pc EXCEPT ![a] = "done"]
    BY <1>16 DEF DriverStops, InSection, DropGuard, OutsidePart, task, wakers, Goto
  <2>2. a = "main"
    BY <1>16, <2>1 DEF ExchangedInv, ThreadsRight, Alone, Actors
  <2>3. next = LastNumber + 1
    BY <2>1, LastAssumption DEF TypeInv
  <2>4. pc'["main"] = "done"
    BY <1>16, <2>1, <2>2 DEF TypeInv
  <2> QED
    BY <1>4, <1>5, <2>1, <2>2, <2>3, <2>4
<1>17. ASSUME NEW a \in Actors, Lock(a) PROVE QuietInv'
  <2>1. /\ section = "out" /\ UNCHANGED <<exch, words, next, registered, woken, pc>>
        /\ section' \in {"user", "tick"}
    BY <1>17 DEF Lock, MachinePart, objects, task, TypeInv
  <2> QED
    BY <1>4, <1>5, <2>1
<1>18. ASSUME NEW a \in Actors, Resume(a) PROVE QuietInv'
  <2>1. /\ pc[a] = "parked" /\ pc' = [pc EXCEPT ![a] = Restart(a)]
        /\ UNCHANGED <<exch, words, next, registered, woken, section>>
    BY <1>18 DEF Resume, MachinePart, objects, task, Goto
  <2>2. a = "main" /\ Restart(a) = "read"
    BY <1>18, <2>1 DEF ExchangedInv, ThreadsRight, Alone, Actors, Restart, Entry, Valued, Ported
  <2>3. pc'["main"] = "read"
    BY <1>18, <2>1, <2>2 DEF TypeInv
  <2> QED
    BY <1>4, <1>5, <2>1, <2>3
<1> QED
  BY <1>1, <1>8, <1>9, <1>10, <1>11, <1>12, <1>13, <1>14, <1>15, <1>16, <1>17, <1>18, ExchangedSteps

-----------------------------------------------------------------------------
(* io and wrapped.                                                         *)

\* The steps that these programs can take.
LEMMA PortedSteps ==
  ASSUME TypeInv, program \in Ported, PortsRight, Next
  PROVE  \/ \E x \in Sides : TaskWaitsForPort(x)
         \/ TaskSendsToSink \/ TaskReadsSource
         \/ TaskSendsWrapped \/ TaskReadsStream \/ TaskCloses
         \/ TickPoll \/ TickEnd \/ ExtRegister
         \/ Connect("input", "connect", "connectOutput")
         \/ Connect("output", "connectOutput", "poll")
         \/ StreamMoves \/ SinkMoves
         \/ \E a \in Actors : Lock(a) \/ Resume(a)
<1>1. program \notin Valued /\ program \notin Exchanged
  BY DEF Valued, Exchanged, Ported
<1>2. \A a \in Actors : pc[a] \notin {"set", "write", "get", "read", "send"}
  BY DEF PortsRight, Alone, Actors
<1>3. ~TaskSends /\ ~TaskReads /\ ~TaskReadsValue
  BY <1>1 DEF TaskSends, TaskReads, TaskReadsValue
<1>4. /\ ~SetInput /\ ~AsMut /\ ~WriteInput /\ ~GetOutput
      /\ \A a \in Actors : /\ ~DriverPrints(a) /\ ~DriverFindsNone(a) /\ ~DriverFeeds(a)
                           /\ ~DriverWaits(a) /\ ~DriverStops(a)
  BY <1>2 DEF SetInput, AsMut, WriteInput, GetOutput, DriverPrints, DriverFindsNone, DriverFeeds,
              DriverWaits, DriverStops, InSection, Actors
<1> QED
  BY <1>3, <1>4 DEF Next, TaskStep, Outside

\* The first word of the task, printed.
LEMMA WordPrinted ==
  ASSUME TypeInv, words # <<>>, printed' = Append(printed, Line(0, Head(words))), words' = Tail(words)
  PROVE  /\ words' \in Seq(Texts) /\ printed' \in Seq(Lines)
         /\ printed' \o Lined(words') = printed \o Lined(words)
<1> DEFINE h == <<Line(0, Head(words))>>
           t == Lined(Tail(words))
<1>1. /\ Head(words) \in Texts /\ Tail(words) \in Seq(Texts) /\ Lined(words) = h \o t
  BY LinedHead DEF TypeInv
<1>2. h \in Seq(Lines) /\ t \in Seq(Lines) /\ Line(0, Head(words)) \in Lines
  BY <1>1, LineIsSeq, LinedIsSeq DEF Line, Lines
<1>3. printed' = printed \o h /\ printed \in Seq(Lines) /\ printed' \in Seq(Lines)
  BY <1>2, AppendIsConcat, AppendProperties DEF TypeInv
<1> HIDE DEF h, t
<1>4. (printed \o h) \o t = printed \o (h \o t)
  <2>1. Associates(printed, h, t)
    BY <1>2, <1>3, LinesAssociate
  <2> QED
    BY <2>1 DEF Associates
<1>5. Lined(words') = t
  BY DEF t
<1> QED
  BY <1>1, <1>3, <1>4, <1>5

\* A number read from the source, with nothing left of the one before.
LEMMA NumberRead ==
  ASSUME TypeInv, words = <<>>, printed = Book(program, next - 1), next <= LastNumber,
         next' = next + 1, words' = Fizz(next) \o Buzz(next), program \in Ported,
         printed' = IF program = "io" THEN Append(printed, Line(next, NoText)) ELSE printed
  PROVE  /\ words' \in Seq(Texts) /\ printed' \in Seq(Lines) /\ next' \in 1..(LastNumber + 1)
         /\ Lined(words') \in Seq(Lines) /\ printed' \o Lined(words') = Book(program, next' - 1)
<1> DEFINE x == WordLines(next)
           l == <<Line(next, NoText)>>
<1>1. next \in Nat /\ next' \in 1..(LastNumber + 1) /\ printed \in Seq(Lines)
  BY LastAssumption DEF TypeInv
<1>2. words' \in Seq(Texts) /\ Lined(words') = x /\ x \in Seq(Lines)
  BY WordsAreSeq
<1>3. Book(program, next' - 1) = printed \o Chapter(program, next)
  BY <1>1, BookNext
<1>4. CASE program = "io"
  <2>1. l \in Seq(Lines) /\ Line(next, NoText) \in Lines
    <3>1. NoText \in Texts
      BY DEF Texts
    <3> QED
      BY <1>1, <3>1, LineIsSeq DEF Line, Lines
  <2>2. Chapter(program, next) = l \o x
    BY <1>4 DEF Chapter
  <2>3. printed' = printed \o l /\ printed' \in Seq(Lines)
    BY <1>1, <1>4, <2>1, AppendIsConcat, AppendProperties
  <2> HIDE DEF x, l
  <2>4. (printed \o l) \o x = printed \o (l \o x)
    <3>1. Associates(printed, l, x)
      BY <1>1, <1>2, <2>1, LinesAssociate
    <3> QED
      BY <3>1 DEF Associates
  <2> QED
    BY <1>1, <1>2, <1>3, <2>2, <2>3, <2>4
<1>5. CASE program # "io"
  <2>1. Chapter(program, next) = x
    BY <1>5 DEF Chapter, Ported
  <2> HIDE DEF x
  <2> QED
    BY <1>1, <1>2, <1>3, <1>5, <2>1
<1> QED
  BY <1>4, <1>5

\* Nothing is printed but what was read, in order, and the task returns with nothing
\* left to do, unless its Stream or Sink fails.
LEMMA PortedKeeps ==
  ASSUME TypeInv, program \in Ported, PortedInv, Next
  PROVE  program' = program /\ TypeInv' /\ PortedInv'
<1> DEFINE Goal == program' = program /\ TypeInv' /\ PortedInv'
<1> USE LastAssumption DEF PortedInv
<1>1. /\ "main" \in Actors /\ Nobody \notin Actors /\ next \in Nat /\ LastNumber \in Nat
      /\ inside # Nobody => inside \in Actors
      /\ woken \in BOOLEAN /\ printed \in Seq(Lines) /\ words \in Seq(Texts)
      /\ program \in {"io", "wrapped"}
  BY DEF TypeInv, Actors, Nobody, Ported
<1>2. PICK rest \in Seq(Lines) :
        /\ printed \o rest = Book(program, next - 1)
        /\ ~(taskDone /\ Failed) => rest = Lined(words)
  BY DEF PortAccount
<1>3. Lined(<<>>) = <<>>
  BY EmptySeq DEF Lined
\* A step that prints nothing and leaves the words alone.
<1>4. ASSUME UNCHANGED <<program, words, next, printed>>,
             taskDone /\ Failed => taskDone' /\ Failed'
      PROVE  PortAccount'
  <2>1. /\ printed' \o rest = Book(program', next' - 1)
        /\ ~(taskDone' /\ Failed') => rest = Lined(words')
    BY <1>2, <1>4
  <2> QED
    BY <2>1 DEF PortAccount
<1>5. ASSUME NEW x \in Sides, TaskWaitsForPort(x) PROVE Goal
  <2>1. /\ UNCHANGED <<program, inside, pc, exch, cell, stream, sink, words, taskDone, next, printed>>
        /\ section = "poll" /\ section' = "tick"
    BY <1>5 DEF TaskWaitsForPort, TaskPart, TaskWaits, objects, outer, task, Polling
  <2>2. woken' \in BOOLEAN
    BY <1>1, <1>5, WakesTyped DEF TaskWaitsForPort, RingAndSet
  <2>3. TypeInv' /\ PortsRight'
    BY <2>1, <2>2 DEF TypeInv, PortsRight, Still, Alone, Polling, Failed
  <2> QED
    BY <1>4, <2>1, <2>3 DEF Failed
<1>6. CASE TaskSendsToSink
  <2>1. /\ UNCHANGED <<program, inside, pc, section, exch, cell, stream, sink, woken, taskDone, next>>
        /\ section = "poll" /\ program = "io" /\ (words # <<>> \/ stream = "closed")
        /\ printed' = Append(printed, Line(0, Head(words))) /\ words' = Tail(words)
    BY <1>6 DEF TaskSendsToSink, SinkPolled, Sending, TaskPart, objects, outer, wakers, Polling, PrintLine
  <2>2. words # <<>> /\ ~taskDone
    BY <2>1 DEF PortsRight, Still, Polling
  <2>3. words' \in Seq(Texts) /\ printed' \in Seq(Lines) /\ printed' \o Lined(words') = printed \o Lined(words)
    BY <2>1, <2>2, WordPrinted
  <2>4. TypeInv' /\ PortsRight'
    BY <2>1, <2>2, <2>3 DEF TypeInv, PortsRight, Still, Alone, Polling, Failed
  <2>5. PortAccount'
    <3>1. Lined(words') \in Seq(Lines)
      BY <2>3, LinedIsSeq
    <3>2. printed' \o Lined(words') = Book(program', next' - 1)
      BY <1>2, <2>1, <2>2, <2>3
    <3> QED
      BY <3>1, <3>2 DEF PortAccount
  <2> QED
    BY <2>1, <2>4, <2>5
<1>7. CASE TaskReadsSource
  <2>1. /\ UNCHANGED <<program, inside, pc, exch, cell, stream, sink, woken>>
        /\ section = "poll" /\ program = "io" /\ words = <<>>
    BY <1>7 DEF TaskReadsSource, StreamPolled, Sending, TaskPart, objects, outer, wakers, Polling
  <2>2. ~taskDone /\ Still /\ ~Failed /\ ~Failed'
    BY <2>1 DEF PortsRight, Still, Polling, Failed
  <2>3. CASE /\ next <= LastNumber /\ printed' = Append(printed, Line(next, NoText))
             /\ next' = next + 1 /\ words' = Fizz(next) \o Buzz(next)
             /\ section' = section /\ taskDone' = taskDone
    <3>1. printed = Book(program, next - 1)
      BY <1>1, <1>2, <1>3, <2>1, <2>2, LinesJoin
    <3>2. /\ words' \in Seq(Texts) /\ printed' \in Seq(Lines) /\ next' \in 1..(LastNumber + 1)
          /\ Lined(words') \in Seq(Lines) /\ printed' \o Lined(words') = Book(program, next' - 1)
      BY <2>1, <2>3, <3>1, NumberRead
    <3>3. PortAccount'
      BY <2>1, <3>2 DEF PortAccount
    <3>4. TypeInv'
      BY <2>1, <2>3, <3>2 DEF TypeInv
    <3>5. Still' /\ ~taskDone'
      BY <2>1, <2>2, <2>3 DEF Still
    <3>6. PortsRight'
      BY <2>1, <3>5 DEF PortsRight, Still, Alone, Polling
    <3> QED
      BY <2>1, <3>3, <3>4, <3>6
  <2>4. CASE /\ next > LastNumber /\ taskDone' = TRUE /\ section' = "tick"
             /\ UNCHANGED <<next, words, printed>>
    <3>1. next = LastNumber + 1
      BY <2>4 DEF TypeInv
    <3>2. TypeInv'
      BY <2>1, <2>4 DEF TypeInv
    <3>3. Still' /\ taskDone' /\ next' = LastNumber + 1 /\ words' = <<>> /\ section' # "poll"
      BY <2>1, <2>2, <2>4, <3>1 DEF Still
    <3>4. PortsRight'
      BY <2>1, <3>3 DEF PortsRight, Still, Alone, Polling
    <3>5. PortAccount'
      BY <1>4, <2>1, <2>2, <2>4
    <3> QED
      BY <2>1, <3>2, <3>4, <3>5
  <2> QED
    BY <1>7, <2>3, <2>4 DEF TaskReadsSource, PrintLine, TaskWaits
<1>8. CASE TaskReadsStream
  <2>1. /\ UNCHANGED <<program, inside, pc, exch, cell, sink, printed>>
        /\ section = "poll" /\ program = "wrapped" /\ words = <<>>
    BY <1>8 DEF TaskReadsStream, StreamPolled, Sending, TaskPart, Polling
  <2>2. ~taskDone
    BY <2>1 DEF PortsRight, Polling
  <2>3. CASE /\ stream = "item" /\ stream' = "pending"
             /\ words' = Fizz(next) \o Buzz(next) /\ next' = next + 1
             /\ Wakes({"task"}) /\ section' = section /\ taskDone' = taskDone
    <3>1. printed = Book(program, next - 1) /\ next <= LastNumber
      BY <1>1, <1>2, <1>3, <2>1, <2>2, <2>3, LinesJoin DEF PortsRight
    <3>2. /\ words' \in Seq(Texts) /\ printed' \in Seq(Lines) /\ next' \in 1..(LastNumber + 1)
          /\ Lined(words') \in Seq(Lines) /\ printed' \o Lined(words') = Book(program, next' - 1)
      BY <2>1, <2>3, <3>1, NumberRead
    <3>3. PortAccount'
      BY <2>1, <3>2 DEF PortAccount
    <3>4. woken' \in BOOLEAN
      BY <1>1, <2>3, WakesTyped
    <3>5. TypeInv'
      BY <2>1, <2>3, <3>2, <3>4 DEF TypeInv
    <3>6. PortsRight'
      BY <2>1, <2>2, <2>3 DEF PortsRight, Still, Alone, Polling
    <3> QED
      BY <2>1, <3>3, <3>5, <3>6
  <2>4. CASE /\ UNCHANGED <<words, next>> /\ woken' \in BOOLEAN
             /\ \/ /\ stream = "error" /\ stream' = stream /\ taskDone' = TRUE /\ section' = "tick"
                \/ /\ stream = "end" /\ stream' = "closed" /\ taskDone' = taskDone /\ section' = "poll"
                \/ /\ stream = "pending" /\ stream' = stream /\ taskDone' = taskDone /\ section' = "tick"
    <3>1. TypeInv'
      BY <2>1, <2>4 DEF TypeInv
    <3>2. /\ stream' \in {"pending", "error", "closed"}
          /\ stream' = "closed" => next = LastNumber + 1
          /\ taskDone' => Failed' /\ section' # "poll"
      <4>1. stream = "end" => next = LastNumber + 1
        BY <2>2 DEF PortsRight
      <4>2. CASE stream = "error" /\ stream' = stream /\ taskDone' = TRUE /\ section' = "tick"
        BY <4>2 DEF Failed
      <4>3. CASE stream = "end" /\ stream' = "closed" /\ taskDone' = taskDone
        BY <2>2, <4>1, <4>3
      <4>4. CASE stream = "pending" /\ stream' = stream /\ taskDone' = taskDone
        BY <2>2, <4>4
      <4> QED
        BY <2>4, <4>2, <4>3, <4>4
    <3>3. PortsRight'
      BY <2>1, <2>4, <3>2 DEF PortsRight, Still, Alone, Polling
    <3>4. PortAccount'
      BY <1>4, <2>1, <2>2, <2>4
    <3> QED
      BY <2>1, <3>1, <3>3, <3>4
  <2>5. ASSUME Wakes({"task"}) \/ UNCHANGED wakers \/ RingAndSet({}, {StreamWaker})
        PROVE  woken' \in BOOLEAN
    BY <1>1, <2>5, WakesTyped DEF RingAndSet, wakers
  <2> QED
    BY <1>8, <2>3, <2>4, <2>5 DEF TaskReadsStream, TaskWaits, Again
<1>9. CASE TaskSendsWrapped
  <2>1. /\ UNCHANGED <<program, inside, pc, exch, cell, next>>
        /\ section = "poll" /\ program = "wrapped" /\ words # <<>>
    BY <1>9 DEF TaskSendsWrapped, SinkPolled, TaskPart, Polling
  <2>2. ~taskDone
    BY <2>1 DEF PortsRight, Polling
  <2>3. CASE /\ sink = "room" /\ sink' = "pending"
             /\ printed' = Append(printed, Line(0, Head(words))) /\ words' = Tail(words)
             /\ UNCHANGED <<stream, woken, section, taskDone>>
    <3>1. words' \in Seq(Texts) /\ printed' \in Seq(Lines) /\ printed' \o Lined(words') = printed \o Lined(words)
      BY <2>1, <2>3, WordPrinted
    <3>2. TypeInv' /\ PortsRight'
      BY <2>1, <2>2, <2>3, <3>1 DEF TypeInv, PortsRight, Still, Alone, Polling, Failed
    <3>3. PortAccount'
      <4>1. Lined(words') \in Seq(Lines)
        BY <3>1, LinedIsSeq
      <4>2. printed' \o Lined(words') = Book(program', next' - 1)
        BY <1>2, <2>1, <2>2, <3>1
      <4> QED
        BY <4>1, <4>2 DEF PortAccount
    <3> QED
      BY <2>1, <3>2, <3>3
  <2>4. CASE /\ sink \in {"not ready", "refuses"} /\ taskDone' = TRUE
             /\ words' \in {words, Tail(words)} /\ stream' = "closed" /\ section' = "tick"
             /\ UNCHANGED <<sink, printed, woken>>
    <3>1. words' \in Seq(Texts)
      BY <1>1, <2>1, <2>4, LinedHead
    <3>2. Failed'
      BY <2>4 DEF Failed
    <3>3. TypeInv' /\ PortsRight'
      BY <2>1, <2>4, <3>1, <3>2 DEF TypeInv, PortsRight, Still, Alone, Polling, Failed
    <3>4. PortAccount'
      <4>1. printed' \o rest = Book(program', next' - 1)
        BY <1>2, <2>1, <2>4
      <4> QED
        BY <2>4, <3>2, <4>1 DEF PortAccount
    <3> QED
      BY <2>1, <3>3, <3>4
  <2>5. CASE /\ sink = "pending" /\ RingAndSet({}, {SinkWaker}) /\ section' = "tick"
             /\ UNCHANGED <<stream, sink, words, taskDone, printed>>
    <3>1. woken' \in BOOLEAN
      BY <1>1, <2>5, WakesTyped DEF RingAndSet
    <3>2. TypeInv' /\ PortsRight'
      BY <2>1, <2>2, <2>5, <3>1 DEF TypeInv, PortsRight, Still, Alone, Polling, Failed
    <3>3. PortAccount'
      BY <1>4, <2>1, <2>2, <2>5
    <3> QED
      BY <2>1, <3>2, <3>3
  <2> QED
    BY <1>9, <2>3, <2>4, <2>5 DEF TaskSendsWrapped, DropStream, TaskWaits, PrintLine, wakers
<1>10. CASE TaskCloses
  <2>1. /\ UNCHANGED <<program, inside, pc, exch, cell, stream, sink, words, next, printed>>
        /\ section = "poll" /\ section' = "tick" /\ words = <<>> /\ stream = "closed"
        /\ taskDone' \in {taskDone, TRUE} /\ (UNCHANGED wakers \/ RingAndSet({}, {SinkWaker}))
    BY <1>10 DEF TaskCloses, SinkPolled, Sending, TaskPart, objects, outer, Polling, TaskWaits
  <2>2. woken' \in BOOLEAN
    BY <1>1, <2>1, WakesTyped DEF RingAndSet, wakers
  <2>3. ~taskDone /\ next = LastNumber + 1
    BY <2>1 DEF PortsRight, Polling
  <2>4. TypeInv' /\ PortsRight'
    BY <2>1, <2>2, <2>3 DEF TypeInv, PortsRight, Still, Alone, Polling, Failed
  <2>5. PortAccount'
    BY <1>4, <2>1, <2>3
  <2> QED
    BY <2>1, <2>4, <2>5
\* The machine, the connections, Stream and Sink.
<1>11. CASE TickPoll \/ ExtRegister \/ \E a \in Actors : Lock(a) \/ Resume(a)
  <2>1. /\ UNCHANGED <<program, exch, cell, stream, sink, words, taskDone, next, printed>>
        /\ woken' \in BOOLEAN
        /\ inside' \in Actors \cup {Nobody} /\ section' \in {"out", "user", "tick", "poll"}
        /\ section' = "out" <=> inside' = Nobody
        /\ section' = "poll" => section = "poll" \/ ~taskDone
    BY <1>1, <1>11 DEF TickPoll, ExtRegister, Lock, Resume, MachinePart, objects, outer, task, TypeInv
  <2>2. /\ pc' \in [Actors -> Labels]
        /\ Alone({"connect", "connectOutput", "poll", "register", "parked", "done"})'
        /\ pc'["main"] = "done" => pc["main"] = "done"
    <3>1. CASE pc' = pc
      BY <3>1 DEF TypeInv, PortsRight, Alone
    <3>2. CASE ExtRegister
      BY <1>1, <3>2 DEF ExtRegister, Goto, TypeInv, PortsRight, Alone, Labels, Actors
    <3>3. ASSUME NEW a \in Actors, Resume(a)
          PROVE  a = "main" /\ pc' = [pc EXCEPT !["main"] = "poll"]
      BY <1>1, <3>3 DEF Resume, Goto, PortsRight, Alone, Restart, Actors, Ported
    <3>4. CASE pc' = [pc EXCEPT !["main"] = "poll"]
      BY <1>1, <3>4 DEF TypeInv, PortsRight, Alone, Labels, Actors
    <3> QED
      BY <1>11, <3>1, <3>2, <3>3, <3>4 DEF TickPoll, Lock
  <2>3. TypeInv' /\ PortsRight'
    BY <2>1, <2>2 DEF TypeInv, PortsRight, Still, Polling, Failed
  <2>4. PortAccount'
    BY <1>4, <2>1 DEF Failed
  <2> QED
    BY <2>1, <2>3, <2>4
<1>12. CASE TickEnd
  <2>1. /\ UNCHANGED <<program, exch, cell, stream, sink, words, taskDone, next, printed>>
        /\ woken' = FALSE /\ inside' = Nobody /\ section' = "out" /\ inside \in Actors
    BY <1>1, <1>12 DEF TickEnd, MachinePart, objects, outer, task, TypeInv
  <2>2. \/ UNCHANGED pc
        \/ pc' = [pc EXCEPT !["main"] = IF taskDone THEN "done" ELSE "register"]
    BY <1>12, <2>1 DEF TickEnd, Goto, PortsRight, Alone, Actors
  <2>3. TypeInv' /\ PortsRight'
    BY <1>1, <2>1, <2>2 DEF TypeInv, PortsRight, Still, Alone, Polling, Failed, Labels, Actors
  <2>4. PortAccount'
    BY <1>4, <2>1 DEF Failed
  <2> QED
    BY <2>1, <2>3, <2>4
<1>13. ASSUME NEW x, NEW here, NEW then \in {"connectOutput", "poll"}, Connect(x, here, then) PROVE Goal
  <2>1. /\ UNCHANGED <<program, inside, exch, cell, stream, sink, words, taskDone, next, printed>>
        /\ section = "user" /\ section' = "tick" /\ pc' = [pc EXCEPT !["main"] = then]
    BY <1>13 DEF Connect, InSection, DropGuard, Goto, outer, task
  <2>2. woken' \in BOOLEAN
    BY <1>1, <1>13, WakesTyped DEF Connect, Ring
  <2>3. TypeInv' /\ PortsRight'
    BY <1>1, <2>1, <2>2 DEF TypeInv, PortsRight, Still, Alone, Polling, Failed, Labels, Actors
  <2>4. PortAccount'
    BY <1>4, <2>1 DEF Failed
  <2> QED
    BY <2>1, <2>3, <2>4
<1>14. CASE StreamMoves \/ SinkMoves
  <2>1. /\ UNCHANGED <<program, inside, pc, section, exch, cell, words, taskDone, next, printed>>
        /\ program = "wrapped"
        /\ \/ /\ sink' = sink /\ stream = "pending"
              /\ stream' \in {IF next <= LastNumber THEN "item" ELSE "end", "error"}
           \/ /\ stream' = stream /\ sink = "pending" /\ sink' \in {"room", "not ready", "refuses"}
    BY <1>14 DEF StreamMoves, SinkMoves, TaskPart, task
  <2>2. woken' \in BOOLEAN
    BY <1>1, <1>14, WakesTyped DEF StreamMoves, SinkMoves, Ring
  <2>3. Failed => Failed'
    BY <2>1 DEF Failed
  <2>4. next <= LastNumber \/ next = LastNumber + 1
    BY DEF TypeInv
  <2>5. TypeInv'
    BY <2>1, <2>2 DEF TypeInv
  <2>6. PortsRight'
    <3>1. program' = "wrapped" /\ UNCHANGED <<pc, section, words, taskDone, next>>
      BY <2>1
    <3>2. /\ stream' \in {"pending", "item", "error", "end", "closed"}
          /\ sink' \in {"pending", "room", "not ready", "refuses"}
          /\ stream' = "item" => next <= LastNumber
          /\ stream' \in {"end", "closed"} /\ ~taskDone => next = LastNumber + 1
      BY <2>1, <2>4 DEF PortsRight
    <3> QED
      BY <2>3, <3>1, <3>2 DEF PortsRight, Alone, Polling
  <2>7. PortAccount'
    BY <1>4, <2>1, <2>3
  <2> QED
    BY <2>1, <2>5, <2>6, <2>7
<1> QED
  BY <1>5, <1>6, <1>7, <1>8, <1>9, <1>10, <1>11, <1>12, <1>13, <1>14, PortedSteps

-----------------------------------------------------------------------------
(* The programs together.                                                  *)

\* Each program is of one kind.
LEMMA Kinds ==
  /\ Programs = Valued \cup Ported \cup Exchanged
  /\ Valued \cap Ported = {} /\ Valued \cap Exchanged = {} /\ Ported \cap Exchanged = {}
  /\ "sans_io" \in Exchanged
BY DEF Programs, Valued, Ported, Exchanged

\* The invariant holds at first, and every step keeps it.
LEMMA InitInv == Init => IInv
<1> SUFFICES ASSUME Init PROVE IInv
  OBVIOUS
<1> USE LastAssumption DEF Init
<1>1. /\ <<>> \in Seq(Texts) /\ <<>> \in Seq(Lines) /\ Lined(<<>>) = <<>> /\ <<>> \o <<>> = <<>>
      /\ NoText \in Texts /\ NoItem \in Items
  BY EmptySeq DEF Lined, Texts, NoItem, Items
<1>2. next - 1 = 0 /\ Book(program, 0) = <<>> /\ Table(0) = <<>>
  BY BookEmpty DEF Table
<1>3. \A a \in Actors : Entry(a) \in {"set", "read", "connect", "send", "done"}
  BY DEF Entry
<1>4. TypeInv
  <2>1. exch \in [Sides -> Slots]
    BY <1>1 DEF Slots
  <2>2. pc \in [Actors -> Labels]
    BY <1>3 DEF Labels
  <2>3. next \in 1..(LastNumber + 1) /\ cell \in Texts
    BY <1>1
  <2>4. woken \in BOOLEAN /\ taskDone \in BOOLEAN
    BY Zenon
  <2>5. /\ inside \in Actors /\ inside # Nobody /\ section = "poll"
    BY DEF Actors, Nobody
  <2>6. words \in Seq(Texts) /\ printed \in Seq(Lines) /\ program \in Programs
    BY <1>1
  <2> QED
    BY <2>1, <2>2, <2>3, <2>4, <2>5, <2>6 DEF TypeInv
<1>5. /\ pc["main"] = Entry("main") /\ pc["feeder"] = Entry("feeder") /\ pc["printer"] = Entry("printer")
  BY DEF Actors
<1>6. ~Full("input") /\ ~Full("output")
  BY DEF Full, Sides
<1>7. program \in Valued => ValuedInv
  <2> SUFFICES ASSUME program \in Valued PROVE ValuedInv
    OBVIOUS
  <2>1. Entry("main") = "set" /\ Entry("feeder") = "done" /\ Entry("printer") = "done"
    BY DEF Entry, Valued, Ported
  <2> QED
    BY <1>2, <1>5, <2>1 DEF ValuedInv, Still, Alone, Polling
<1>8. program \in Ported => PortedInv
  <2> SUFFICES ASSUME program \in Ported PROVE PortedInv
    OBVIOUS
  <2>1. Entry("main") = "connect" /\ Entry("feeder") = "done" /\ Entry("printer") = "done"
    BY DEF Entry, Valued, Ported
  <2>2. PortsRight
    BY <1>5, <2>1 DEF PortsRight, Still, Alone, Polling
  <2>3. PortAccount
    BY <1>1, <1>2 DEF PortAccount
  <2> QED
    BY <2>2, <2>3 DEF PortedInv
<1>9. program \in Exchanged => ExchangedInv
  <2> SUFFICES ASSUME program \in Exchanged PROVE ExchangedInv
    OBVIOUS
  <2>1. /\ program = "sans_io" => Entry("main") = "read" /\ Entry("feeder") = "done" /\ Entry("printer") = "done"
        /\ program = "split" => Entry("main") = "done" /\ Entry("feeder") = "send" /\ Entry("printer") = "read"
    BY DEF Entry, Valued, Ported
  <2>2. ThreadsRight
    BY <1>5, <2>1 DEF ThreadsRight, Alone
  <2>3. Account
    BY <1>1, <1>2, <1>6 DEF Account, OutLines, InLines
  <2> QED
    BY <1>6, <2>2, <2>3 DEF ExchangedInv, Still, ItemsRight
<1>10. program = "sans_io" => QuietInv
  <2> SUFFICES ASSUME program = "sans_io" PROVE QuietInv
    OBVIOUS
  <2>1. Entry("main") = "read"
    BY DEF Entry, Valued, Ported
  <2> QED
    BY <1>5, <2>1 DEF QuietInv, Polling
<1> QED
  BY <1>4, <1>7, <1>8, <1>9, <1>10 DEF IInv

LEMMA StepInv == IInv /\ [Next]_vars => IInv'
<1> SUFFICES ASSUME IInv, [Next]_vars PROVE IInv'
  OBVIOUS
<1>1. CASE UNCHANGED vars
  <2>1. /\ UNCHANGED <<program, exch, value, cell, stream, sink, registered, woken, words, taskDone>>
        /\ UNCHANGED <<inside, section, pc, next, printed>>
    BY <1>1 DEF vars, objects, outer, task, wakers
  <2>2. TypeInv'
    BY <2>1 DEF IInv, TypeInv
  <2>3. program \in Valued => ValuedInv'
    BY <2>1 DEF IInv, ValuedInv, Still, Alone, Polling, Answered
  <2>4. program \in Ported => PortedInv'
    BY <2>1 DEF IInv, PortedInv, PortsRight, PortAccount, Still, Alone, Polling, Failed
  <2>5. program \in Exchanged => ExchangedInv'
    BY <2>1 DEF IInv, ExchangedInv, Still, Alone, ItemsRight, ThreadsRight, Account, OutLines, InLines, Full
  <2>6. program = "sans_io" => QuietInv'
    BY <2>1 DEF IInv, QuietInv, Idle, Waiting, Polling, Full
  <2> QED
    BY <2>1, <2>2, <2>3, <2>4, <2>5, <2>6 DEF IInv
<1>2. CASE Next /\ program \in Valued
  <2>1. program' = program /\ TypeInv' /\ ValuedInv'
    BY <1>2, ValuedKeeps DEF IInv
  <2> QED
    BY <1>2, <2>1, Kinds DEF IInv
<1>3. CASE Next /\ program \in Ported
  <2>1. program' = program /\ TypeInv' /\ PortedInv'
    BY <1>3, PortedKeeps DEF IInv
  <2> QED
    BY <1>3, <2>1, Kinds DEF IInv
<1>4. CASE Next /\ program \in Exchanged
  <2>1. program' = program /\ TypeInv' /\ ExchangedInv'
    BY <1>4, ExchangedTyped, AccountKeeps DEF IInv, ExchangedInv
  <2>2. program = "sans_io" => QuietInv'
    BY <1>4, QuietKeeps DEF IInv
  <2> QED
    BY <1>4, <2>1, <2>2, Kinds DEF IInv
<1> QED
  BY <1>1, <1>2, <1>3, <1>4, Kinds DEF IInv, TypeInv

\* What is expected is the whole book, or the whole table.
LEMMA ExpectedIs ==
  ASSUME program \in Programs
  PROVE  Expected = IF program \in Valued THEN Table(LastNumber) ELSE Book(program, LastNumber)
<1>1. CASE program \in Valued
  BY <1>1 DEF Expected, Valued, Table
<1>2. CASE program \in {"split", "wrapped"}
  BY <1>2 DEF Expected, Valued, Book, Chapter
<1>3. CASE program \in {"sans_io", "io"}
  BY <1>3 DEF Expected, Valued, Book, Chapter
<1> QED
  BY <1>1, <1>2, <1>3 DEF Programs, Valued

\* A shorter table is a prefix of a longer one.
LEMMA TablePrefix ==
  ASSUME NEW k \in Nat, NEW m \in Nat, k <= m
  PROVE  IsPrefix(Table(k), Table(m))
<1>1. Table(k) \in Seq(Lines) /\ Table(m) \in Seq(Lines)
  BY TableStep
<1>2. Len(Table(k)) = k /\ Len(Table(m)) = m
  BY DEF Table
<1>3. \A i \in 1..k : Table(k)[i] = Table(m)[i]
  BY DEF Table
<1> HIDE DEF Table
<1> QED
  BY <1>1, <1>2, <1>3, PrefixIs

\* What is printed and what is left of the book so far are the first lines of it.
LEMMA BookPrefix ==
  ASSUME TypeInv, NEW r \in Seq(Lines), printed \o r = Book(program, next - 1)
  PROVE  IsPrefix(printed, Book(program, LastNumber))
<1>1. next - 1 \in Nat /\ LastNumber \in Nat /\ next - 1 <= LastNumber /\ printed \in Seq(Lines)
  BY LastAssumption DEF TypeInv
<1>2. PICK q \in Seq(Lines) : Book(program, LastNumber) = Book(program, next - 1) \o q
  BY <1>1, BookGoesOn
<1>3. (printed \o r) \o q = printed \o (r \o q)
  <2>1. Associates(printed, r, q)
    BY <1>1, LinesAssociate
  <2> QED
    BY <2>1 DEF Associates
<1>4. r \o q \in Seq(Lines)
  BY LinesJoin
<1> QED
  BY <1>1, <1>2, <1>3, <1>4, PrefixOfConcat

(***************************************************************************)
(* In each of the programs, whatever the last number, the terminal shows   *)
(* the expected lines from the first one on, and all of them when the      *)
(* threads outside are through, unless the Stream or the Sink has failed   *)
(* or it is split, whose printer is never through.                         *)
(***************************************************************************)
THEOREM PrintsInOrder == Spec => []InOrder
<1>1. IInv => InOrder
  <2> SUFFICES ASSUME IInv PROVE InOrder
    OBVIOUS
  <2>1. TypeInv /\ program \in Programs /\ next \in Nat /\ LastNumber \in Nat /\ next - 1 \in Nat
        /\ next - 1 <= LastNumber /\ printed \in Seq(Lines)
    BY LastAssumption DEF IInv, TypeInv
  <2>2. CASE program \in Valued
    <3>1. ValuedInv /\ printed = Table(next - 1)
      BY <2>2 DEF IInv, ValuedInv
    <3>2. IsPrefix(printed, Expected)
      BY <2>1, <2>2, <3>1, TablePrefix, ExpectedIs
    <3>3. Ended => printed = Expected
      <4>1. Ended => next = LastNumber + 1
        BY <3>1 DEF Ended, ValuedInv
      <4>2. next = LastNumber + 1 => next - 1 = LastNumber
        BY <2>1
      <4> QED
        BY <2>1, <2>2, <3>1, <4>1, <4>2, ExpectedIs
    <3> QED
      BY <3>2, <3>3 DEF InOrder
  <2>3. CASE program \in Ported
    <3>1. program \notin Valued /\ PortsRight /\ PortAccount
      BY <2>3, Kinds DEF IInv, PortedInv
    <3>2. PICK rest \in Seq(Lines) : /\ printed \o rest = Book(program, next - 1)
                                     /\ ~(taskDone /\ Failed) => rest = Lined(words)
      BY <3>1 DEF PortAccount
    <3>3. IsPrefix(printed, Expected)
      BY <2>1, <3>1, <3>2, BookPrefix, ExpectedIs
    <3>4. ASSUME Ended, ~Failed PROVE printed = Expected
      <4>0. next = LastNumber + 1 /\ words = <<>>
        BY <3>1, <3>4 DEF Ended, PortsRight
      <4>1. next - 1 = LastNumber /\ words = <<>>
        BY <2>1, <4>0
      <4>2. rest = <<>>
        BY <3>2, <3>4, <4>1, EmptySeq DEF Lined
      <4>3. printed \o <<>> = printed
        BY <2>1, LinesJoin
      <4> QED
        BY <2>1, <3>1, <3>2, <4>1, <4>2, <4>3, ExpectedIs
    <3> QED
      BY <3>3, <3>4 DEF InOrder
  <2>4. CASE program \in Exchanged
    <3> DEFINE r == OutLines \o (Lined(words) \o InLines)
    <3>1. program \notin Valued /\ ExchangedInv
      BY <2>4, Kinds DEF IInv
    <3>2. r \in Seq(Lines) /\ printed \o r = Book(program, next - 1)
      <4>1. OutLines \in Seq(Lines) /\ InLines \in Seq(Lines) /\ Lined(words) \in Seq(Lines)
        BY <2>1, <3>1, LinesLeft DEF ExchangedInv
      <4>2. Lined(words) \o InLines \in Seq(Lines)
        BY <4>1, LinesJoin
      <4> QED
        BY <3>1, <4>1, <4>2, LinesJoin DEF ExchangedInv, Account
    <3>3. IsPrefix(printed, Expected)
      <4> HIDE DEF r
      <4> QED
        BY <2>1, <3>1, <3>2, BookPrefix, ExpectedIs
    <3>4. ASSUME Ended, program # "split" PROVE printed = Expected
      <4>1. program = "sans_io"
        BY <2>4, <3>4 DEF Exchanged
      <4>2. Idle /\ next - 1 = LastNumber
        BY <2>1, <3>4, <4>1 DEF IInv, QuietInv, Ended
      <4>3. r = <<>> \o (<<>> \o <<>>)
        BY <4>2, EmptySeq DEF Idle, OutLines, InLines, Lined
      <4>4. r = <<>> /\ printed \o <<>> = printed
        BY <2>1, <4>3, EmptySeq, LinesJoin
      <4> HIDE DEF r
      <4> QED
        BY <2>1, <3>1, <3>2, <4>2, <4>4, ExpectedIs
    <3> QED
      BY <3>3, <3>4 DEF InOrder
  <2> QED
    BY <2>1, <2>2, <2>3, <2>4, Kinds
<1> QED
  BY <1>1, InitInv, StepInv, PTL DEF Spec
=============================================================================
