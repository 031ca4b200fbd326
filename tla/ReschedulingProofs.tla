------------------------- MODULE ReschedulingProofs -------------------------
(***************************************************************************)
(* What the rescheduling of a plan computes, for every plan, and what the  *)
(* plan files hold: the schedule that P3C finds satisfies the temporal     *)
(* network and is the earliest that does.                                  *)
(***************************************************************************)
EXTENDS PlanFiles, TimeStampedStateProofs

----------------------------------------------------------------------------
(* Loops                                                                   *)

\* f has what the rounds of a loop leave: it begins with base, and round p makes
\* step[p, x] of x.
IsLoop(f, n, base, step) ==
    \A p \in 0..n : f[p] = IF p = 0 THEN base ELSE step[<<p, f[p - 1]>>]

\* What a loop computes whose step is a function: if every step stays in T, so
\* does the loop, and the recursive definition has a solution.
LEMMA Iterates ==
    ASSUME NEW n \in Nat, NEW T, NEW base \in T, NEW step \in [(1..n) \X T -> T]
    PROVE  \E f \in [0..n -> T] : IsLoop(f, n, base, step)
<1> DEFINE Solves(f, m) == /\ f = [p \in 0..m |-> IF p = 0 THEN base ELSE step[<<p, f[p - 1]>>]]
                           /\ \A p \in 0..m : f[p] \in T
           Good == {m \in Nat : \E f : Solves(f, m)}
<1>1. 0 \in Good
  <2> DEFINE f == [p \in 0..0 |-> base]
  <2>1. Solves(f, 0)
    OBVIOUS
  <2> HIDE DEF Solves, f
  <2>2. QED
    BY <2>1
<1>2. ASSUME NEW m \in 0..(n - 1), m \in Good
      PROVE  m + 1 \in Good
  <2>1. PICK f : Solves(f, m)
    BY <1>2
  <2> DEFINE g == [p \in 0..(m + 1) |-> IF p <= m THEN f[p] ELSE step[<<m + 1, f[m]>>]]
  <2>2. m \in Nat /\ m \in 0..m /\ m + 1 \in 1..n
    OBVIOUS
  <2>3. f[m] \in T /\ step[<<m + 1, f[m]>>] \in T
    BY <2>1, <2>2
  <2>4. \A p \in 0..(m + 1) : g[p] = IF p = 0 THEN base ELSE step[<<p, g[p - 1]>>]
    <3> TAKE p \in 0..(m + 1)
    <3>1. p # 0 => p - 1 \in 0..m /\ g[p - 1] = f[p - 1]
      BY <2>2
    <3>2. CASE p <= m
      <4>1. p \in 0..m /\ g[p] = f[p]
        BY <3>2
      <4>2. f = [q \in 0..m |-> IF q = 0 THEN base ELSE step[<<q, f[q - 1]>>]]
        BY <2>1
      <4>3. f[p] = IF p = 0 THEN base ELSE step[<<p, f[p - 1]>>]
        BY <4>1, <4>2, Zenon
      <4> HIDE DEF g
      <4>4. QED
        BY <3>1, <4>1, <4>3
    <3>3. CASE ~(p <= m)
      <4>1. p # 0 /\ p = m + 1 /\ p - 1 = m /\ g[p] = step[<<p, f[p - 1]>>]
        BY <3>3, <2>2
      <4> HIDE DEF g
      <4>2. QED
        BY <3>1, <4>1
    <3>4. QED
      BY <3>2, <3>3
  <2>5. \A p \in 0..(m + 1) : g[p] \in T
    BY <2>1, <2>2, <2>3
  <2>6. g = [p \in 0..(m + 1) |-> g[p]]
    OBVIOUS
  <2> HIDE DEF g
  <2>7. g = [p \in 0..(m + 1) |-> IF p = 0 THEN base ELSE step[<<p, g[p - 1]>>]]
    BY <2>4, <2>6
  <2>8. Solves(g, m + 1)
    BY <2>5, <2>7
  <2> HIDE DEF Solves
  <2>9. QED
    BY <2>2, <2>8
<1>3. n \in Good
  <2> HIDE DEF Good
  <2>1. n \in 0..n
    OBVIOUS
  <2>2. QED
    BY <1>1, <1>2, <2>1, UpTo
<1>4. PICK f : Solves(f, n)
  BY <1>3
<1>5. /\ f = [p \in 0..n |-> IF p = 0 THEN base ELSE step[<<p, f[p - 1]>>]]
      /\ \A p \in 0..n : f[p] \in T
  BY <1>4
<1>6. IsLoop(f, n, base, step)
  BY <1>5, Zenon DEF IsLoop
<1>7. f \in [0..n -> T]
  <2>1. DOMAIN f = 0..n /\ f = [p \in DOMAIN f |-> f[p]]
    BY <1>5, Zenon
  <2>2. QED
    BY <1>5, <2>1
<1>8. QED
  BY <1>6, <1>7

\* A loop whose steps stay in T stays in T, whichever solution of its recursive
\* definition is taken.
LEMMA LoopStays ==
    ASSUME NEW n \in Nat, NEW T, NEW step \in [(1..n) \X T -> T], NEW g, g[0] \in T,
           \A j \in 1..n : g[j - 1] \in T => g[j] = step[<<j, g[j - 1]>>]
    PROVE  \A j \in 0..n : g[j] \in T
<1> DEFINE Good == {j \in Nat : g[j] \in T}
<1>1. 0 \in Good
  OBVIOUS
<1>2. ASSUME NEW j \in 0..(n - 1), j \in Good
      PROVE  j + 1 \in Good
  <2>1. j + 1 \in 1..n /\ (j + 1) - 1 = j /\ j + 1 \in Nat
    OBVIOUS
  <2>2. g[j] \in T /\ g[j + 1] = step[<<j + 1, g[j]>>]
    BY <1>2, <2>1
  <2>3. g[j + 1] \in T
    BY <2>1, <2>2
  <2>4. QED
    BY <2>1, <2>3
<1>3. \A j \in 0..n : j \in Good
  <2> HIDE DEF Good
  <2>1. QED
    BY <1>1, <1>2, UpTo
<1>4. QED
  BY <1>3

\* The members of a set of numbers, one after the other: all of them, each once.
LEMMA AscendingIs ==
    ASSUME NEW n \in Nat, NEW S \in SUBSET (1..n)
    PROVE  /\ Ascending(S, n) \in Seq(S)
           /\ \A x \in S : \E k \in DOMAIN Ascending(S, n) : Ascending(S, n)[k] = x
           /\ \A k, l \in DOMAIN Ascending(S, n) :
                 Ascending(S, n)[k] = Ascending(S, n)[l] => k = l
<1> DEFINE step == [x \in (1..n) \X Seq(S) |-> IF x[1] \in S THEN Append(x[2], x[1]) ELSE x[2]]
           Solves(f) == f = [i \in 0..n |-> IF i = 0 THEN <<>>
                                ELSE IF i \in S THEN Append(f[i - 1], i) ELSE f[i - 1]]
<1>1. \E f : Solves(f) /\ \A i \in 0..n : f[i] \in Seq(S)
  <2>1. \A p \in 1..n : \A t \in Seq(S) :
           step[<<p, t>>] = IF p \in S THEN Append(t, p) ELSE t
    OBVIOUS
  <2>2. <<>> \in Seq(S) /\ step \in [(1..n) \X Seq(S) -> Seq(S)]
    OBVIOUS
  <2>3. PICK f \in [0..n -> Seq(S)] : IsLoop(f, n, <<>>, step)
    <3> HIDE DEF step
    <3>1. QED
      BY <2>2, Iterates
  <2>4. \A p \in 0..n : f[p] = IF p = 0 THEN <<>>
                                ELSE IF p \in S THEN Append(f[p - 1], p) ELSE f[p - 1]
    <3> TAKE p \in 0..n
    <3>1. f[p] = IF p = 0 THEN <<>> ELSE step[<<p, f[p - 1]>>]
      BY <2>3, Zenon DEF IsLoop
    <3>2. p # 0 => p \in 1..n /\ p - 1 \in 0..n
      OBVIOUS
    <3> HIDE DEF step
    <3>3. QED
      BY <2>1, <3>1, <3>2
  <2>5. Solves(f)
    <3>1. f = [p \in 0..n |-> f[p]]
      OBVIOUS
    <3>2. QED
      BY <2>4, <3>1
  <2>6. QED
    BY <2>5
<1>2. PICK f : Solves(f) /\ Ascending(S, n) = f[n]
  <2> DEFINE g == CHOOSE f : Solves(f)
  <2>1. Ascending(S, n) = g[n]
    BY Zenon DEF Ascending
  <2>2. Solves(g)
    <3> HIDE DEF Solves
    <3>1. QED
      BY <1>1, Zenon
  <2> HIDE DEF Solves, g
  <2>3. QED
    BY <2>1, <2>2
<1>3. \A i \in 0..n : f[i] = IF i = 0 THEN <<>>
                              ELSE IF i \in S THEN Append(f[i - 1], i) ELSE f[i - 1]
  BY <1>2, Zenon
<1> DEFINE Right(i) == /\ f[i] \in Seq(S)
                       /\ \A k \in DOMAIN f[i] : f[i][k] <= i
                       /\ \A x \in S : x <= i => \E k \in DOMAIN f[i] : f[i][k] = x
                       /\ \A k, l \in DOMAIN f[i] : f[i][k] = f[i][l] => k = l
           Good == {i \in Nat : Right(i)}
<1>4. 0 \in Good
  <2>1. f[0] = <<>> /\ \A x \in S : ~(x <= 0)
    BY <1>3
  <2>2. DOMAIN f[0] = {}
    BY <2>1
  <2>3. Right(0)
    BY <2>1, <2>2
  <2>4. QED
    BY <2>3
<1>5. ASSUME NEW i \in 0..(n - 1), i \in Good
      PROVE  i + 1 \in Good
  <2>1. i + 1 \in 0..n /\ i + 1 # 0 /\ (i + 1) - 1 = i /\ i \in Nat
    OBVIOUS
  <2>2. f[i + 1] = IF i + 1 \in S THEN Append(f[i], i + 1) ELSE f[i]
    BY <1>3, <2>1
  <2>3. Right(i)
    BY <1>5
  <2>4. CASE i + 1 \notin S
    <3>1. f[i + 1] = f[i]
      BY <2>2, <2>4
    <3>2. \A x \in S : x <= i + 1 => x <= i
      BY <2>4, <2>1
    <3>3. \A k \in DOMAIN f[i] : f[i][k] \in S
      BY <2>3
    <3>4. \A k \in DOMAIN f[i] : f[i][k] <= i + 1
      <4>1. \A k \in DOMAIN f[i] : f[i][k] \in S /\ f[i][k] <= i
        BY <2>3, <3>3
      <4>2. \A x \in S : x \in Int /\ (x <= i => x <= i + 1)
        BY <2>1
      <4>3. QED
        BY <4>1, <4>2, Zenon
    <3>5. Right(i + 1)
      BY <2>3, <3>1, <3>2, <3>4, Zenon
    <3>6. QED
      BY <2>1, <3>5
  <2>5. CASE i + 1 \in S
    <3> DEFINE s == f[i]
               t == f[i + 1]
    <3>1. t = Append(s, i + 1) /\ s \in Seq(S)
      BY <2>2, <2>3, <2>5
    <3>2. \A k \in DOMAIN s : s[k] \in S /\ s[k] <= i
      BY <2>3
    <3>3. t \in Seq(S) /\ DOMAIN t = 1..(Len(s) + 1) /\ DOMAIN s = 1..Len(s) /\ Len(s) \in Nat
      BY <3>1, <2>5
    <3>4. /\ \A k \in DOMAIN s : t[k] = s[k]
          /\ t[Len(s) + 1] = i + 1
      BY <3>1, <3>3, <2>5
    <3> HIDE DEF s, t
    <3>5. \A k \in DOMAIN t : k \in DOMAIN s \/ k = Len(s) + 1
      BY <3>3
    <3>6. \A k \in DOMAIN t : t[k] <= i + 1
      <4>1. \A k \in DOMAIN s : t[k] = s[k] /\ s[k] \in S /\ s[k] <= i
        BY <3>2, <3>4
      <4>2. \A x \in S : x \in Int
        OBVIOUS
      <4> SUFFICES ASSUME NEW k \in DOMAIN t PROVE t[k] <= i + 1
        OBVIOUS
      <4>3. CASE k \in DOMAIN s
        <5>1. t[k] \in Int /\ t[k] <= i
          BY <4>1, <4>2, <4>3
        <5>2. QED
          BY <5>1, <2>1
      <4>4. CASE k = Len(s) + 1
        BY <3>4, <4>4, <2>1
      <4>5. QED
        BY <3>5, <4>3, <4>4
    <3>7. \A x \in S : x <= i + 1 => \E k \in DOMAIN t : t[k] = x
      <4> SUFFICES ASSUME NEW x \in S, x <= i + 1 PROVE \E k \in DOMAIN t : t[k] = x
        OBVIOUS
      <4>1. CASE x = i + 1
        <5>1. Len(s) + 1 \in DOMAIN t
          BY <3>3
        <5>2. QED
          BY <4>1, <3>4, <5>1
      <4>2. CASE x <= i
        <5>1. PICK k \in DOMAIN s : s[k] = x
          BY <2>3, <4>2 DEF s
        <5>2. k \in DOMAIN t
          BY <3>3
        <5>3. QED
          BY <3>4, <5>1, <5>2
      <4>3. QED
        BY <4>1, <4>2, <2>1
    <3>8. \A k, l \in DOMAIN t : t[k] = t[l] => k = l
      <4> SUFFICES ASSUME NEW k \in DOMAIN t, NEW l \in DOMAIN t, t[k] = t[l] PROVE k = l
        OBVIOUS
      <4>1. \A a \in DOMAIN s : t[a] # i + 1
        BY <3>2, <3>4, <2>1
      <4>2. \A a, b \in DOMAIN s : s[a] = s[b] => a = b
        BY <2>3 DEF s
      <4>3. QED
        BY <3>4, <3>5, <4>1, <4>2
    <3>9. QED
      BY <2>1, <3>3, <3>6, <3>7, <3>8 DEF t
  <2>6. QED
    BY <2>4, <2>5
<1>6. Right(n)
  <2> HIDE DEF Right
  <2>1. \A i \in 0..n : i \in Good
    <3> HIDE DEF Good
    <3>1. QED
      BY <1>4, <1>5, UpTo
  <2>2. QED
    BY <2>1
<1>7. QED
  BY <1>2, <1>6

----------------------------------------------------------------------------
(* Distances                                                               *)

Square(n) == (1..n) \X (1..n)

Matrices(n) == {m \in [Square(n) -> Int] : \A i, j \in 1..n : m[<<i, j>>] <= INF}

\* Times of the nodes, counted backwards as the distances to X0 are, none
\* further than INF from another one.
Times(n) == {t \in [1..n -> Int] : \A i, j \in 1..n : t[i] - t[j] <= INF}

\* These times keep the distances.
Keep(t, m, n) == \A i, j \in 1..n : t[i] - t[j] <= m[<<i, j>>]

\* What can become of the distances in top: they get shorter, and no times are lost.
Tightenings(n, top) ==
    {m \in Matrices(n) : /\ \A i, j \in 1..n : m[<<i, j>>] <= top[<<i, j>>]
                         /\ \A t \in Times(n) : Keep(t, top, n) => Keep(t, m, n)}

LEMMA InfIs == INF \in Int /\ INF > 0
  BY InfAssumption

LEMMA AddIs ==
    ASSUME NEW a \in Int, NEW b \in Int
    PROVE  /\ Add(a, b) \in Int /\ Add(a, b) <= INF
           /\ \A x \in Int : x <= INF /\ x <= a + b => x <= Add(a, b)
           /\ a < INF /\ b < INF /\ a + b < INF => Add(a, b) = a + b
           /\ a = INF \/ b = INF => Add(a, b) = INF
  BY InfAssumption DEF Add

LEMMA ShorterIs ==
    ASSUME NEW a \in Int, NEW b \in Int
    PROVE  /\ Shorter(a, b) \in {a, b}
           /\ Shorter(a, b) \in Int /\ Shorter(a, b) <= a /\ Shorter(a, b) <= b
  BY DEF Shorter

\* Longer distances have longer sums.
LEMMA AddGrows ==
    ASSUME NEW a \in Int, NEW b \in Int, NEW c \in Int, NEW d \in Int,
           a <= c, b <= d, c <= INF, d <= INF
    PROVE  Add(a, b) <= Add(c, d)
  BY InfAssumption DEF Add

\* The path from i to j through k.
LEMMA PathIsTightening ==
    ASSUME NEW n \in Nat, NEW top, NEW m \in Tightenings(n, top),
           NEW i \in 1..n, NEW j \in 1..n, NEW k \in 1..n
    PROVE  LET path == Shorter(Add(m[<<i, k>>], m[<<k, j>>]), m[<<i, j>>])
           IN  /\ path \in Int /\ path <= INF /\ path <= m[<<i, j>>]
               /\ \A t \in Times(n) : Keep(t, top, n) => t[i] - t[j] <= path
<1> DEFINE a == m[<<i, k>>]
           b == m[<<k, j>>]
           c == m[<<i, j>>]
<1>1. a \in Int /\ b \in Int /\ c \in Int /\ c <= INF
  BY DEF Tightenings, Matrices, Square
<1>2. ASSUME NEW t \in Times(n), Keep(t, top, n)
      PROVE  /\ t[i] - t[j] \in Int /\ t[i] - t[j] <= INF
             /\ t[i] - t[j] <= a + b /\ t[i] - t[j] <= c
  <2>1. t[i] \in Int /\ t[j] \in Int /\ t[k] \in Int /\ t[i] - t[j] <= INF
    BY DEF Times
  <2>2. t[i] - t[k] <= a /\ t[k] - t[j] <= b /\ t[i] - t[j] <= c
    BY <1>2 DEF Tightenings, Keep
  <2> HIDE DEF a, b, c
  <2>3. QED
    BY <1>1, <2>1, <2>2
<1> HIDE DEF a, b, c
<1>3. /\ Add(a, b) \in Int
      /\ \A t \in Times(n) : Keep(t, top, n) => t[i] - t[j] <= Add(a, b)
  BY <1>1, <1>2, AddIs
<1>4. /\ Shorter(Add(a, b), c) \in Int /\ Shorter(Add(a, b), c) <= c
      /\ Shorter(Add(a, b), c) \in {Add(a, b), c}
  BY <1>1, <1>3, ShorterIs
<1>5. Shorter(Add(a, b), c) <= INF
  BY <1>1, <1>4, InfAssumption
<1>6. \A t \in Times(n) : Keep(t, top, n) => t[i] - t[j] <= Shorter(Add(a, b), c)
  BY <1>2, <1>3, <1>4
<1>7. QED
  BY <1>4, <1>5, <1>6 DEF a, b, c

\* So it is a tightening to take the shorter one, for any set of pairs.
LEMMA PathsAreTightening ==
    ASSUME NEW n \in Nat, NEW top \in Matrices(n), NEW m \in Tightenings(n, top),
           NEW q \in [Square(n) -> Int],
           \A i, j \in 1..n :
              \/ q[<<i, j>>] = m[<<i, j>>]
              \/ \E k \in 1..n :
                    q[<<i, j>>] = Shorter(Add(m[<<i, k>>], m[<<k, j>>]), m[<<i, j>>])
    PROVE  q \in Tightenings(n, top)
<1>1. ASSUME NEW i \in 1..n, NEW j \in 1..n
      PROVE  /\ q[<<i, j>>] <= INF /\ q[<<i, j>>] <= top[<<i, j>>]
             /\ \A t \in Times(n) : Keep(t, top, n) => t[i] - t[j] <= q[<<i, j>>]
  <2>1. /\ m[<<i, j>>] \in Int /\ m[<<i, j>>] <= INF /\ m[<<i, j>>] <= top[<<i, j>>]
        /\ top[<<i, j>>] \in Int
        /\ \A t \in Times(n) : Keep(t, top, n) => t[i] - t[j] <= m[<<i, j>>]
    BY DEF Tightenings, Matrices, Square, Keep
  <2>2. CASE q[<<i, j>>] = m[<<i, j>>]
    BY <2>1, <2>2
  <2>3. CASE \E k \in 1..n :
                q[<<i, j>>] = Shorter(Add(m[<<i, k>>], m[<<k, j>>]), m[<<i, j>>])
    <3>1. /\ q[<<i, j>>] \in Int /\ q[<<i, j>>] <= INF /\ q[<<i, j>>] <= m[<<i, j>>]
          /\ \A t \in Times(n) : Keep(t, top, n) => t[i] - t[j] <= q[<<i, j>>]
      <4>1. PICK k \in 1..n :
                q[<<i, j>>] = Shorter(Add(m[<<i, k>>], m[<<k, j>>]), m[<<i, j>>])
        BY <2>3
      <4> DEFINE path == Shorter(Add(m[<<i, k>>], m[<<k, j>>]), m[<<i, j>>])
      <4>2. /\ path \in Int /\ path <= INF /\ path <= m[<<i, j>>]
            /\ \A t \in Times(n) : Keep(t, top, n) => t[i] - t[j] <= path
        BY PathIsTightening
      <4>3. q[<<i, j>>] = path
        BY <4>1
      <4> HIDE DEF path
      <4>4. QED
        BY <4>2, <4>3
    <3>2. QED
      BY <2>1, <3>1
  <2>4. QED
    BY <2>2, <2>3
<1>2. q \in Matrices(n)
  BY <1>1 DEF Matrices
<1>3. QED
  BY <1>1, <1>2 DEF Tightenings, Keep

----------------------------------------------------------------------------
(* solveWithP3C                                                            *)

LEMMA ArcsAreTightening ==
    ASSUME NEW n \in Nat, NEW top \in Matrices(n), NEW m \in Tightenings(n, top),
           NEW node \in 1..n, NEW i \in 1..n, NEW j \in 1..n
    PROVE  TightenArcs(m, node, i, j) \in Tightenings(n, top)
<1> DEFINE p == [m EXCEPT ![<<i, node>>] = Shorter(Add(m[<<i, j>>], m[<<j, node>>]), @)]
           q == [p EXCEPT ![<<node, j>>] = Shorter(Add(p[<<node, i>>], p[<<i, j>>]), @)]
<1>1. m \in [Square(n) -> Int]
  BY DEF Tightenings, Matrices
<1>2. p \in Tightenings(n, top)
  <2>1. Shorter(Add(m[<<i, j>>], m[<<j, node>>]), m[<<i, node>>]) \in Int
    BY PathIsTightening
  <2>2. p \in [Square(n) -> Int]
    BY <1>1, <2>1
  <2>3. \A a, b \in 1..n :
           \/ p[<<a, b>>] = m[<<a, b>>]
           \/ \E k \in 1..n :
                 p[<<a, b>>] = Shorter(Add(m[<<a, k>>], m[<<k, b>>]), m[<<a, b>>])
    BY <1>1 DEF Square
  <2> HIDE DEF p
  <2>4. QED
    BY <2>2, <2>3, PathsAreTightening
<1>3. p \in [Square(n) -> Int]
  BY <1>2 DEF Tightenings, Matrices
<1>4. q \in Tightenings(n, top)
  <2> HIDE DEF p
  <2>1. Shorter(Add(p[<<node, i>>], p[<<i, j>>]), p[<<node, j>>]) \in Int
    BY <1>2, PathIsTightening
  <2>2. q \in [Square(n) -> Int]
    BY <1>3, <2>1
  <2>3. \A a, b \in 1..n :
           \/ q[<<a, b>>] = p[<<a, b>>]
           \/ \E k \in 1..n :
                 q[<<a, b>>] = Shorter(Add(p[<<a, k>>], p[<<k, b>>]), p[<<a, b>>])
    BY <1>3 DEF Square
  <2> HIDE DEF q
  <2>4. QED
    BY <1>2, <2>2, <2>3, PathsAreTightening
<1>5. TightenArcs(m, node, i, j) = q
  BY Zenon DEF TightenArcs
<1>6. QED
  BY <1>4, <1>5

LEMMA RowIsTightening ==
    ASSUME NEW n \in Nat, NEW top \in Matrices(n), NEW m \in Tightenings(n, top),
           NEW s, NEW ord \in Seq(1..n), NEW k \in 1..Len(ord), NEW i \in 1..Len(ord)
    PROVE  TightenRow(s, m, ord, k, i) \in Tightenings(n, top)
<1> DEFINE T == Tightenings(n, top)
           N == Len(ord)
           Round(j, t) == IF i # j /\ ArcLarger(s, ord, k, j)
                          THEN TightenArcs(t, ord[k], ord[i], ord[j]) ELSE t
           step == [x \in (1..N) \X T |-> Round(x[1], x[2])]
           Solves(f) == f = [j \in 0..N |-> IF j = 0 THEN m
                                ELSE IF i # j /\ ArcLarger(s, ord, k, j)
                                     THEN TightenArcs(f[j - 1], ord[k], ord[i], ord[j])
                                     ELSE f[j - 1]]
<1>1. N \in Nat
  OBVIOUS
<1>2. ASSUME NEW j \in 1..N, NEW t \in T
      PROVE  Round(j, t) \in T
  <2>1. ord[k] \in 1..n /\ ord[i] \in 1..n /\ ord[j] \in 1..n
    OBVIOUS
  <2>2. QED
    BY <2>1, ArcsAreTightening
<1>3. step \in [(1..N) \X T -> T]
  <2> HIDE DEF T, Round, N
  <2>1. QED
    BY <1>2
<1>4. PICK f \in [0..N -> T] : IsLoop(f, N, m, step)
  <2> HIDE DEF step, N, T
  <2>1. m \in T
    BY DEF T
  <2>2. QED
    BY <1>1, <1>3, <2>1, Iterates
<1>5. \A j \in 0..N : f[j] = IF j = 0 THEN m ELSE Round(j, f[j - 1])
  <2> TAKE j \in 0..N
  <2>1. f[j] = IF j = 0 THEN m ELSE step[<<j, f[j - 1]>>]
    BY <1>4, Zenon DEF IsLoop
  <2> HIDE DEF T, Round, N
  <2>2. j # 0 => j \in 1..N /\ j - 1 \in 0..N
    BY <1>1
  <2>3. j # 0 => f[j - 1] \in T
    BY <1>4, <2>2
  <2>4. QED
    BY <2>1, <2>2, <2>3
<1>6. Solves(f)
  <2> HIDE DEF N, T
  <2>1. f = [j \in 0..N |-> f[j]]
    BY <1>4
  <2>2. QED
    BY <1>5, <2>1
<1> DEFINE g == CHOOSE h : Solves(h)
<1>7. TightenRow(s, m, ord, k, i) = g[N]
  BY Zenon DEF TightenRow
<1>8. Solves(g)
  <2> HIDE DEF Solves
  <2>1. QED
    BY <1>6, Zenon
<1>9. \A j \in 0..N : g[j] = IF j = 0 THEN m ELSE Round(j, g[j - 1])
  BY <1>8, Zenon
<1>10. \A j \in 0..N : g[j] \in T
  <2> HIDE DEF g, T, Round, N
  <2>1. g[0] \in T
    BY <1>1, <1>9 DEF T
  <2>2. \A j \in 1..N : g[j - 1] \in T => g[j] = step[<<j, g[j - 1]>>]
    BY <1>1, <1>9
  <2> HIDE DEF step
  <2>3. QED
    BY <1>1, <1>3, <2>1, <2>2, LoopStays
<1>11. N \in 0..N
  BY <1>1
<1> HIDE DEF g, N, T
<1>12. QED
  BY <1>7, <1>10, <1>11 DEF T

\* A network of n nodes with these arcs that is being solved: top are the
\* distances it was made with.
Solving(n, arcs, top) == [n : {n}, matrix : Tightenings(n, top), arcs : {arcs}]

LEMMA NodeIsTightening ==
    ASSUME NEW n \in Nat, NEW top \in Matrices(n), NEW arcs, NEW s \in Solving(n, arcs, top),
           NEW ord \in Seq(1..n), NEW k \in 1..Len(ord)
    PROVE  TightenNode(s, ord, k) \in Solving(n, arcs, top)
<1> DEFINE T == Tightenings(n, top)
           N == Len(ord)
           Round(i, t) == IF ArcLarger(s, ord, k, i) THEN TightenRow(s, t, ord, k, i) ELSE t
           step == [x \in (1..N) \X T |-> Round(x[1], x[2])]
           Solves(f) == f = [i \in 0..N |-> IF i = 0 THEN s.matrix
                                ELSE IF ArcLarger(s, ord, k, i)
                                     THEN TightenRow(s, f[i - 1], ord, k, i) ELSE f[i - 1]]
<1>1. N \in Nat /\ s.matrix \in T
  BY DEF Solving
<1>2. ASSUME NEW i \in 1..N, NEW t \in T
      PROVE  Round(i, t) \in T
  BY RowIsTightening
<1>3. step \in [(1..N) \X T -> T]
  <2> HIDE DEF T, Round, N
  <2>1. QED
    BY <1>2
<1>4. PICK f \in [0..N -> T] : IsLoop(f, N, s.matrix, step)
  <2> HIDE DEF step, N, T
  <2>1. QED
    BY <1>1, <1>3, Iterates
<1>5. \A i \in 0..N : f[i] = IF i = 0 THEN s.matrix ELSE Round(i, f[i - 1])
  <2> TAKE i \in 0..N
  <2>1. f[i] = IF i = 0 THEN s.matrix ELSE step[<<i, f[i - 1]>>]
    BY <1>4, Zenon DEF IsLoop
  <2> HIDE DEF T, Round, N
  <2>2. i # 0 => i \in 1..N /\ i - 1 \in 0..N
    BY <1>1
  <2>3. i # 0 => f[i - 1] \in T
    BY <1>4, <2>2
  <2>4. QED
    BY <2>1, <2>2, <2>3
<1>6. Solves(f)
  <2> HIDE DEF N, T
  <2>1. f = [i \in 0..N |-> f[i]]
    BY <1>4
  <2>2. QED
    BY <1>5, <2>1
<1> DEFINE g == CHOOSE h : Solves(h)
<1>7. TightenNode(s, ord, k) = [s EXCEPT !.matrix = g[N]]
  BY Zenon DEF TightenNode
<1>8. Solves(g)
  <2> HIDE DEF Solves
  <2>1. QED
    BY <1>6, Zenon
<1>9. \A i \in 0..N : g[i] = IF i = 0 THEN s.matrix ELSE Round(i, g[i - 1])
  BY <1>8, Zenon
<1>10. \A i \in 0..N : g[i] \in T
  <2> HIDE DEF g, T, Round, N
  <2>1. g[0] \in T
    BY <1>1, <1>9
  <2>2. \A i \in 1..N : g[i - 1] \in T => g[i] = step[<<i, g[i - 1]>>]
    BY <1>1, <1>9
  <2> HIDE DEF step
  <2>3. QED
    BY <1>1, <1>3, <2>1, <2>2, LoopStays
<1>11. g[N] \in T
  <2> HIDE DEF g, N, T
  <2>1. QED
    BY <1>1, <1>10
<1> HIDE DEF g, N
<1>12. QED
  BY <1>7, <1>11 DEF Solving

LEMMA DirectIsTightening ==
    ASSUME NEW n \in Nat, NEW top \in Matrices(n), NEW arcs, NEW s \in Solving(n, arcs, top),
           NEW ord \in Seq(1..n), NEW k \in 1..Len(ord)
    PROVE  DirectPaths(s, ord, k) \in Solving(n, arcs, top)
<1> DEFINE m == s.matrix
           before == ArcsSmaller(s, ord, k)
           q == [e \in DOMAIN m |->
                    IF e[1] \in before /\ e[2] \in before /\ e[1] # e[2]
                    THEN Shorter(Add(m[<<e[1], ord[k]>>], m[<<ord[k], e[2]>>]), m[e]) ELSE m[e]]
<1>1. m \in Tightenings(n, top) /\ ord[k] \in 1..n
  BY DEF Solving
<1>2. m \in [Square(n) -> Int]
  BY <1>1 DEF Tightenings, Matrices
<1>3. \A i, j \in 1..n :
          \/ q[<<i, j>>] = m[<<i, j>>]
          \/ q[<<i, j>>] = Shorter(Add(m[<<i, ord[k]>>], m[<<ord[k], j>>]), m[<<i, j>>])
  <2> HIDE DEF before, m
  <2>1. QED
    BY <1>2 DEF Square
<1>4. ASSUME NEW e \in Square(n) PROVE q[e] \in Int
  <2>1. PICK i, j \in 1..n : e = <<i, j>>
    BY DEF Square
  <2>2. /\ Shorter(Add(m[<<i, ord[k]>>], m[<<ord[k], j>>]), m[<<i, j>>]) \in Int
        /\ m[<<i, j>>] \in Int
    <3> HIDE DEF m
    <3>1. QED
      BY <1>1, <1>2, <2>1, PathIsTightening DEF Square
  <2> HIDE DEF q, m
  <2>3. QED
    BY <1>3, <2>1, <2>2
<1>5. q \in [Square(n) -> Int]
  <2>1. q = [e \in Square(n) |-> q[e]]
    <3> HIDE DEF before, m
    <3>1. QED
      BY <1>2
  <2> HIDE DEF q
  <2>2. QED
    BY <1>4, <2>1
<1>6. q \in Tightenings(n, top)
  <2> HIDE DEF q, m
  <2>1. QED
    BY <1>1, <1>3, <1>5, PathsAreTightening
<1>7. DirectPaths(s, ord, k) = [s EXCEPT !.matrix = q]
  BY Zenon DEF DirectPaths
<1> HIDE DEF q
<1>8. QED
  BY <1>6, <1>7 DEF Solving

\* A contradiction leaves no times.
LEMMA ContradictionIs ==
    ASSUME NEW n \in Nat, NEW top \in Matrices(n), NEW arcs, NEW s \in Solving(n, arcs, top),
           NEW ord \in Seq(1..n), NEW k \in 1..Len(ord), IsContradiction(s, ord, k)
    PROVE  \A t \in Times(n) : ~Keep(t, top, n)
<1>1. PICK i, j \in ArcsSmaller(s, ord, k) : s.matrix[<<i, j>>] + s.matrix[<<j, i>>] < 0
  BY DEF IsContradiction
<1>2. i \in 1..n /\ j \in 1..n
  <2>1. \A x \in ArcsSmaller(s, ord, k) : \E l \in 1..(k - 1) : x = ord[l]
    BY Zenon DEF ArcsSmaller
  <2>2. \A l \in 1..(k - 1) : ord[l] \in 1..n
    OBVIOUS
  <2>3. QED
    BY <2>1, <2>2
<1>3. s.matrix \in Tightenings(n, top)
  BY DEF Solving
<1>4. s.matrix[<<i, j>>] \in Int /\ s.matrix[<<j, i>>] \in Int
  BY <1>2, <1>3 DEF Tightenings, Matrices, Square
<1> SUFFICES ASSUME NEW t \in Times(n), Keep(t, top, n) PROVE FALSE
  OBVIOUS
<1>5. t[i] - t[j] <= s.matrix[<<i, j>>] /\ t[j] - t[i] <= s.matrix[<<j, i>>]
  BY <1>2, <1>3 DEF Tightenings, Keep
<1>6. t[i] \in Int /\ t[j] \in Int
  BY <1>2 DEF Times
<1>7. QED
  BY <1>1, <1>4, <1>5, <1>6

\* performDPC tightens, and stops only where there are no times.
LEMMA PerformDPCTightens ==
    ASSUME NEW n \in Nat, NEW top \in Matrices(n), NEW arcs, stn \in Solving(n, arcs, top),
           ordering \in Seq(1..n), Len(ordering) = n, PerformDPC
    PROVE  /\ stn' \in Solving(n, arcs, top)
           /\ stage' \in {"tighten", "aborted"}
           /\ stage' = "aborted" => \A t \in Times(n) : ~Keep(t, top, n)
<1> DEFINE T == {r \in [stn : Solving(n, arcs, top), valid : BOOLEAN] :
                    ~r.valid => \A t \in Times(n) : ~Keep(t, top, n)}
           Direct(k, r) == DirectPaths(r.stn, ordering, stn.n + 1 - k)
           Round(k, r) == IF ~r.valid THEN r
                          ELSE [stn |-> Direct(k, r),
                                valid |-> ~IsContradiction(Direct(k, r), ordering, stn.n + 1 - k)]
           base == [stn |-> stn, valid |-> TRUE]
           step == [x \in (1..n) \X T |-> Round(x[1], x[2])]
           Solves(f) == f = [k \in 0..stn.n |-> IF k = 0 THEN base ELSE Round(k, f[k - 1])]
<1>1. base \in T /\ stn.n = n
  BY DEF Solving
<1>2. ASSUME NEW k \in 1..n, NEW r \in T
      PROVE  Round(k, r) \in T
  <2>1. r.stn \in Solving(n, arcs, top) /\ stn.n + 1 - k \in 1..Len(ordering)
    BY <1>1
  <2>2. Direct(k, r) \in Solving(n, arcs, top)
    BY <2>1, DirectIsTightening
  <2> HIDE DEF Direct
  <2>3. IsContradiction(Direct(k, r), ordering, stn.n + 1 - k) =>
            \A t \in Times(n) : ~Keep(t, top, n)
    BY <2>1, <2>2, ContradictionIs
  <2>4. CASE r.valid
    <3> DEFINE c == IsContradiction(Direct(k, r), ordering, stn.n + 1 - k)
    <3>1. Round(k, r) = [stn |-> Direct(k, r), valid |-> ~c]
      BY <2>4
    <3>2. (~c) \in BOOLEAN
      OBVIOUS
    <3>3. Round(k, r).stn = Direct(k, r) /\ Round(k, r).valid = ~c
      BY <3>1
    <3> HIDE DEF c
    <3>4. [stn |-> Direct(k, r), valid |-> ~c] \in [stn : Solving(n, arcs, top), valid : BOOLEAN]
      BY <2>2, <3>2
    <3> HIDE DEF Round
    <3>5. QED
      BY <2>3, <3>1, <3>3, <3>4 DEF c
  <2>5. CASE ~r.valid
    BY <2>5
  <2>6. QED
    BY <2>4, <2>5
<1>3. step \in [(1..n) \X T -> T]
  <2> HIDE DEF T, Round
  <2>1. QED
    BY <1>2
<1>4. PICK f \in [0..n -> T] : IsLoop(f, n, base, step)
  <2> HIDE DEF step, T, base
  <2>1. QED
    BY <1>1, <1>3, Iterates
<1>5. \A k \in 0..n : f[k] = IF k = 0 THEN base ELSE Round(k, f[k - 1])
  <2> TAKE k \in 0..n
  <2>1. f[k] = IF k = 0 THEN base ELSE step[<<k, f[k - 1]>>]
    BY <1>4, Zenon DEF IsLoop
  <2> HIDE DEF T, Round, base
  <2>2. k # 0 => k \in 1..n /\ k - 1 \in 0..n
    OBVIOUS
  <2>3. k # 0 => f[k - 1] \in T
    BY <1>4, <2>2
  <2>4. QED
    BY <2>1, <2>2, <2>3
<1>6. Solves(f)
  <2> HIDE DEF T, Round, base
  <2>1. f = [k \in 0..n |-> f[k]]
    BY <1>4
  <2>2. QED
    BY <1>1, <1>5, <2>1
<1> DEFINE g == CHOOSE h : Solves(h)
<1>7. stn' = g[stn.n].stn /\ stage' = IF g[stn.n].valid THEN "tighten" ELSE "aborted"
  BY Zenon DEF PerformDPC
<1>9. Solves(g)
  <2> HIDE DEF Solves
  <2>1. QED
    BY <1>6, Zenon
<1>10. \A k \in 0..n : g[k] = IF k = 0 THEN base ELSE Round(k, g[k - 1])
  BY <1>1, <1>9, Zenon
<1>11. \A k \in 0..n : g[k] \in T
  <2> HIDE DEF g, T, Round, base
  <2>1. g[0] \in T
    BY <1>1, <1>10
  <2>2. \A k \in 1..n : g[k - 1] \in T => g[k] = step[<<k, g[k - 1]>>]
    BY <1>10
  <2> HIDE DEF step
  <2>3. QED
    BY <1>3, <2>1, <2>2, LoopStays
<1>12. g[n] \in T
  <2> HIDE DEF g, T
  <2>1. QED
    BY <1>11
<1>13. stn' = g[n].stn /\ stage' = IF g[n].valid THEN "tighten" ELSE "aborted"
  <2> HIDE DEF g
  <2>1. QED
    BY <1>1, <1>7
<1> HIDE DEF g
<1>14. QED
  BY <1>12, <1>13

LEMMA TightenTightens ==
    ASSUME NEW n \in Nat, NEW top \in Matrices(n), NEW arcs, stn \in Solving(n, arcs, top),
           ordering \in Seq(1..n), Len(ordering) = n, Tighten
    PROVE  stn' \in Solving(n, arcs, top)
<1> DEFINE T == Solving(n, arcs, top)
           step == [x \in (1..n) \X T |-> TightenNode(x[2], ordering, x[1])]
           Solves(f) == f = [k \in 0..n |->
                                IF k = 0 THEN stn ELSE TightenNode(f[k - 1], ordering, k)]
<1>1. stn \in T /\ stn.n = n
  BY DEF Solving
<1>2. ASSUME NEW k \in 1..n, NEW r \in T
      PROVE  TightenNode(r, ordering, k) \in T
  BY NodeIsTightening
<1>3. step \in [(1..n) \X T -> T]
  <2> HIDE DEF T
  <2>1. QED
    BY <1>2
<1>4. PICK f \in [0..n -> T] : IsLoop(f, n, stn, step)
  <2> HIDE DEF step, T
  <2>1. QED
    BY <1>1, <1>3, Iterates
<1>5. \A k \in 0..n : f[k] = IF k = 0 THEN stn ELSE TightenNode(f[k - 1], ordering, k)
  <2> TAKE k \in 0..n
  <2>1. f[k] = IF k = 0 THEN stn ELSE step[<<k, f[k - 1]>>]
    BY <1>4, Zenon DEF IsLoop
  <2> HIDE DEF T
  <2>2. k # 0 => k \in 1..n /\ k - 1 \in 0..n
    OBVIOUS
  <2>3. k # 0 => f[k - 1] \in T
    BY <1>4, <2>2
  <2>4. QED
    BY <2>1, <2>2, <2>3
<1>6. Solves(f)
  <2> HIDE DEF T
  <2>1. f = [k \in 0..n |-> f[k]]
    BY <1>4
  <2>2. QED
    BY <1>5, <2>1
<1> DEFINE g == CHOOSE h : Solves(h)
           h0 == CHOOSE matrix : matrix = [k \in 0..stn.n |->
                     IF k = 0 THEN stn ELSE TightenNode(matrix[k - 1], ordering, k)]
<1>7. stn' = h0[stn.n]
  BY Zenon DEF Tighten
<1>8. h0 = g
  BY <1>1, Zenon
<1>9. Solves(g)
  <2> HIDE DEF Solves
  <2>1. QED
    BY <1>6, Zenon
<1>10. \A k \in 0..n : g[k] = IF k = 0 THEN stn ELSE TightenNode(g[k - 1], ordering, k)
  BY <1>9, Zenon
<1>11. \A k \in 0..n : g[k] \in T
  <2> HIDE DEF g, T
  <2>1. g[0] \in T
    BY <1>1, <1>10
  <2>2. \A k \in 1..n : g[k - 1] \in T => g[k] = step[<<k, g[k - 1]>>]
    BY <1>10
  <2> HIDE DEF step
  <2>3. QED
    BY <1>3, <2>1, <2>2, LoopStays
<1>12. g[n] \in T
  <2> HIDE DEF g, T
  <2>1. QED
    BY <1>11
<1>13. stn' = g[n]
  <2> HIDE DEF g, h0
  <2>1. QED
    BY <1>1, <1>7, <1>8
<1> HIDE DEF g, T
<1>14. QED
  BY <1>12, <1>13 DEF T

----------------------------------------------------------------------------
(* makeGraphChordal                                                        *)

\* There is a first of some nodes with the fewest neighbours.
LEMMA FewestIs ==
    ASSUME NEW n \in Nat, NEW count \in [1..n -> Int], NEW S \in SUBSET (1..n), S # {}
    PROVE  \E i \in S : \A j \in S : \/ count[i] < count[j]
                                     \/ count[i] = count[j] /\ i <= j
<1> DEFINE First(R, i) == \A j \in R : \/ count[i] < count[j]
                                       \/ count[i] = count[j] /\ i <= j
           Good == {k \in Nat : k <= n => \A R \in SUBSET (1..k) : R # {} => \E i \in R : First(R, i)}
<1>1. 0 \in Good
  <2>1. \A R \in SUBSET (1..0) : R = {}
    OBVIOUS
  <2>2. QED
    BY <2>1
<1>2. ASSUME NEW k \in 0..(n - 1), k \in Good
      PROVE  k + 1 \in Good
  <2> SUFFICES ASSUME NEW R \in SUBSET (1..(k + 1)), R # {} PROVE \E i \in R : First(R, i)
    OBVIOUS
  <2> DEFINE Q == R \ {k + 1}
  <2>1. Q \in SUBSET (1..k) /\ Q \in SUBSET (1..n) /\ k + 1 \in 1..n
    OBVIOUS
  <2>2. CASE Q = {}
    <3>1. R = {k + 1}
      BY <2>2
    <3>2. count[k + 1] \in Int
      BY <2>1
    <3>3. First(R, k + 1) /\ k + 1 \in R
      <4>1. \A j \in R : j = k + 1
        BY <3>1, Zenon
      <4>2. k + 1 \in R /\ k + 1 <= k + 1
        BY <3>1
      <4>3. \A j \in R : count[k + 1] = count[j] /\ k + 1 <= j
        <5> TAKE j \in R
        <5>1. j = k + 1
          BY <4>1
        <5>2. QED
          BY <4>2, <5>1
      <4>4. QED
        BY <4>2, <4>3, Zenon
    <3> HIDE DEF First
    <3>4. QED
      BY <3>3
  <2>3. CASE Q # {}
    <3>1. PICK i \in Q : First(Q, i)
      <4>1. k <= n
        OBVIOUS
      <4>2. QED
        BY <1>2, <2>1, <2>3, <4>1, Zenon
    <3>2. \A j \in Q \cup {k + 1} : count[j] \in Int /\ j \in Int /\ j <= k + 1
      BY <2>1
    <3>3. R = Q \/ R = Q \cup {k + 1}
      OBVIOUS
    <3>4. i \in R /\ i \in Int
      BY <2>1
    <3> HIDE DEF Q
    <3>5. CASE R = Q
      BY <3>1, <3>5
    <3>6. CASE R = Q \cup {k + 1}
      <4>1. CASE count[i] <= count[k + 1]
        <5>1. First(R, i)
          BY <3>1, <3>2, <3>4, <3>6, <4>1
        <5>2. QED
          BY <3>4, <5>1
      <4>2. CASE ~(count[i] <= count[k + 1])
        <5>1. First(R, k + 1)
          BY <3>1, <3>2, <3>4, <3>6, <4>2
        <5>2. k + 1 \in R
          BY <3>6
        <5> HIDE DEF First
        <5>3. QED
          BY <5>1, <5>2
      <4>3. QED
        BY <4>1, <4>2
    <3>7. QED
      BY <3>3, <3>5, <3>6
  <2>4. QED
    BY <2>2, <2>3
<1>3. \A k \in 0..n : k \in Good
  <2> HIDE DEF Good
  <2>1. QED
    BY <1>1, <1>2, UpTo
<1>4. n \in Good /\ n <= n
  <2> HIDE DEF Good
  <2>1. n \in 0..n /\ n <= n
    OBVIOUS
  <2>2. QED
    BY <1>3, <2>1
<1>5. \A R \in SUBSET (1..n) : R # {} => \E i \in R : First(R, i)
  BY <1>4, Zenon
<1>6. QED
  BY <1>5, Zenon

LEMMA NextNodeIs ==
    ASSUME NEW s, s.n \in Nat, NEW count \in [1..s.n -> Int], NEW done \in SUBSET (1..s.n),
           done # 1..s.n
    PROVE  NextNodeInOrdering(s, count, done) \in (1..s.n) \ done
<1> DEFINE S == Nodes(s) \ done
           First(i) == \A j \in S : \/ count[i] < count[j]
                                    \/ count[i] = count[j] /\ i <= j
<1>1. S \in SUBSET (1..s.n) /\ S # {} /\ S = (1..s.n) \ done
  BY DEF Nodes
<1>2. \E i \in S : First(i)
  <2> HIDE DEF S
  <2>1. QED
    BY <1>1, FewestIs
<1>3. NextNodeInOrdering(s, count, done) = CHOOSE i \in S : First(i)
  BY Zenon DEF NextNodeInOrdering
<1>4. (CHOOSE i \in S : First(i)) \in S
  <2> HIDE DEF S, First
  <2>1. QED
    BY <1>2, Zenon
<1> HIDE DEF S
<1>5. QED
  BY <1>1, <1>3, <1>4

\* The arcs go both ways, and there is no constraint without one.
Connected(arcs, m, n) ==
    \A i, j \in 1..n : /\ <<i, j>> \in arcs => <<j, i>> \in arcs
                       /\ <<i, j>> \notin arcs => m[<<i, j>>] = IF i = j THEN 0 ELSE INF

\* New arcs between two nodes, as no constraints, leave the distances as they are.
LEMMA FillIsNoConstraint ==
    ASSUME NEW n \in Nat, NEW s, s.n = n, s.matrix \in [Square(n) -> Int],
           s = [n |-> s.n, matrix |-> s.matrix, arcs |-> s.arcs],
           Connected(s.arcs, s.matrix, n),
           NEW children \in SUBSET (1..n)
    PROVE  LET t == CreateFillEdges(s, MissingArcs(s, children))
           IN  /\ t = [n |-> s.n, matrix |-> t.matrix, arcs |-> t.arcs]
               /\ t.n = n /\ t.matrix = s.matrix
               /\ Connected(t.arcs, s.matrix, n)
<1> DEFINE missing == MissingArcs(s, children)
           back == {<<e[2], e[1]>> : e \in missing}
           fill == missing \cup back
           m == s.matrix
           q == [e \in DOMAIN m |-> IF e \in fill THEN INF ELSE m[e]]
           t == CreateFillEdges(s, missing)
<1>1. t = [s EXCEPT !.matrix = q, !.arcs = s.arcs \cup fill]
  BY Zenon DEF CreateFillEdges
<1>2. t = [n |-> n, matrix |-> q, arcs |-> s.arcs \cup fill]
  <2> HIDE DEF q, fill, t
  <2>1. QED
    BY <1>1
<1>3. \A i, j \in 1..n : <<i, j>> \in missing => i < j /\ <<i, j>> \notin s.arcs
  BY DEF MissingArcs
<1>4. \A i, j \in 1..n : <<i, j>> \in back <=> <<j, i>> \in missing
  <2> SUFFICES ASSUME NEW i \in 1..n, NEW j \in 1..n
               PROVE  <<i, j>> \in back <=> <<j, i>> \in missing
    OBVIOUS
  <2>1. ASSUME <<i, j>> \in back PROVE <<j, i>> \in missing
    <3>1. PICK e \in missing : <<i, j>> = <<e[2], e[1]>>
      BY <2>1
    <3>2. e = <<e[1], e[2]>>
      BY DEF MissingArcs
    <3>3. QED
      BY <3>1, <3>2
  <2>2. ASSUME <<j, i>> \in missing PROVE <<i, j>> \in back
    <3>1. <<j, i>>[1] = j /\ <<j, i>>[2] = i
      OBVIOUS
    <3>2. QED
      BY <2>2, <3>1
  <2>3. QED
    BY <2>1, <2>2
<1> HIDE DEF missing, back
<1>5. \A i, j \in 1..n : <<i, j>> \in fill => m[<<i, j>>] = INF /\ <<j, i>> \in fill
  <2> SUFFICES ASSUME NEW i \in 1..n, NEW j \in 1..n, <<i, j>> \in fill
               PROVE  m[<<i, j>>] = INF /\ <<j, i>> \in fill
    OBVIOUS
  <2>1. \/ i < j /\ <<i, j>> \notin s.arcs
        \/ j < i /\ <<j, i>> \notin s.arcs
    BY <1>3, <1>4
  <2>2. i # j /\ <<i, j>> \notin s.arcs
    BY <2>1 DEF Connected
  <2>3. QED
    BY <1>4, <2>2 DEF Connected
<1>6. q = m
  <2>1. \A e \in DOMAIN m : \E i, j \in 1..n : e = <<i, j>>
    BY DEF Square
  <2>2. \A e \in DOMAIN m : q[e] = m[e]
    <3> TAKE e \in DOMAIN m
    <3>1. PICK i, j \in 1..n : e = <<i, j>>
      BY <2>1
    <3>2. e \in fill => m[e] = INF
      BY <1>5, <3>1
    <3> HIDE DEF fill, m
    <3>3. QED
      BY <3>2
  <2>3. q = [e \in DOMAIN m |-> q[e]] /\ m = [e \in DOMAIN m |-> m[e]]
    OBVIOUS
  <2> HIDE DEF q, m
  <2>4. QED
    BY <2>2, <2>3
<1>7. Connected(s.arcs \cup fill, m, n)
  <2> HIDE DEF fill
  <2>1. QED
    BY <1>5 DEF Connected
<1> HIDE DEF fill, q, t
<1>8. QED
  BY <1>2, <1>6, <1>7 DEF missing, t

\* Fewer nodes than n cannot be all the nodes.
LEMMA OrderedIsNotAll ==
    ASSUME NEW n \in Nat, ordering \in Seq(1..n), Len(ordering) < n
    PROVE  Ordered \in SUBSET (1..n) /\ Ordered # 1..n
<1> DEFINE m == Len(ordering)
<1>1. m \in Nat /\ DOMAIN ordering = 1..m /\ ordering \in [1..m -> 1..n]
  OBVIOUS
<1>2. Ordered \in SUBSET (1..n)
  BY <1>1 DEF Ordered
<1>3. ordering \in [1..m -> Ordered] /\ \A x \in Ordered : \E k \in 1..m : ordering[k] = x
  <2>1. ordering = [k \in 1..m |-> ordering[k]]
    BY <1>1
  <2>2. \A k \in 1..m : ordering[k] \in Ordered
    BY <1>1 DEF Ordered
  <2>3. \A x \in Ordered : \E k \in 1..m : ordering[k] = x
    BY <1>1, Zenon DEF Ordered
  <2> HIDE DEF m
  <2>4. QED
    BY <2>1, <2>2, <2>3
<1>4. ordering \in Surjection(1..m, Ordered)
  <2> HIDE DEF m
  <2>1. QED
    BY <1>3, Zenon DEF Surjection
<1>5. Cardinality(Ordered) <= m
  <2> HIDE DEF m
  <2>1. IsFiniteSet(1..m) /\ Cardinality(1..m) = m
    BY <1>1, FS_Interval
  <2>2. Cardinality(Ordered) <= Cardinality(1..m)
    BY <1>4, <2>1, FS_Surjection, Zenon
  <2>3. QED
    BY <2>1, <2>2
<1>6. Cardinality(1..n) = n
  BY FS_Interval
<1>7. QED
  BY <1>1, <1>2, <1>5, <1>6

\* One more node, and only arcs without a constraint.
LEMMA EliminateKeepsDistances ==
    ASSUME NEW n \in Nat, stn.n = n, stn.matrix \in [Square(n) -> Int],
           stn = [n |-> stn.n, matrix |-> stn.matrix, arcs |-> stn.arcs],
           Connected(stn.arcs, stn.matrix, n),
           ordering \in Seq(1..n), Len(ordering) < n, neighbors \in [1..n -> Int],
           EliminateNode
    PROVE  /\ stn' = [n |-> stn'.n, matrix |-> stn'.matrix, arcs |-> stn'.arcs]
           /\ stn'.n = n /\ stn'.matrix = stn.matrix
           /\ Connected(stn'.arcs, stn.matrix, n)
           /\ ordering' \in Seq(1..n) /\ Len(ordering') = Len(ordering) + 1
           /\ neighbors' \in [1..n -> Int]
<1> DEFINE node == NextNodeInOrdering(stn, neighbors, Ordered)
           children == Children(stn, node, Ordered)
           missing == MissingArcs(stn, children)
           lost(j) == {<<node, j>>} \cap stn.arcs
           got(j) == {e \in missing : j \in {e[1], e[2]}}
<1>1. node \in 1..n
  <2>1. Ordered \in SUBSET (1..n) /\ Ordered # 1..n
    BY OrderedIsNotAll
  <2>2. QED
    BY <2>1, NextNodeIs
<1>2. children \in SUBSET (1..n)
  <2> HIDE DEF node
  <2>1. QED
    BY DEF Children, Nodes
<1>3. /\ ordering' = <<node>> \o ordering
      /\ stn' = CreateFillEdges(stn, missing)
      /\ neighbors' = [j \in 1..n |->
                          neighbors[j] - Cardinality(lost(j)) + Cardinality(got(j))]
  BY Zenon DEF EliminateNode, Nodes
<1> HIDE DEF node
<1>4. ordering' \in Seq(1..n) /\ Len(ordering') = Len(ordering) + 1
  BY <1>1, <1>3
<1>5. ASSUME NEW j \in 1..n
      PROVE  Cardinality(lost(j)) \in Int /\ Cardinality(got(j)) \in Int
  <2>1. IsFiniteSet({<<node, j>>}) /\ lost(j) \in SUBSET {<<node, j>>}
    BY FS_Singleton
  <2>2. IsFiniteSet(lost(j))
    <3> HIDE DEF lost
    <3>1. QED
      BY <2>1, FS_Subset
  <2>3. IsFiniteSet(got(j))
    <3>1. IsFiniteSet((1..n) \X (1..n))
      <4>1. IsFiniteSet(1..n)
        <5>1. 1 \in Int /\ n \in Int
          OBVIOUS
        <5>2. QED
          BY <5>1, FS_Interval, Zenon
      <4> HIDE DEF Square
      <4>2. QED
        BY <4>1, FS_Product, Zenon
    <3>2. got(j) \in SUBSET ((1..n) \X (1..n))
      <4>1. missing \in SUBSET (children \X children)
        BY DEF MissingArcs
      <4> HIDE DEF children, missing
      <4>2. QED
        BY <1>2, <4>1
    <3> HIDE DEF got
    <3>3. QED
      BY <3>1, <3>2, FS_Subset
  <2> HIDE DEF lost, got
  <2>4. QED
    BY <2>2, <2>3, FS_CardinalityType
<1>6. neighbors' \in [1..n -> Int]
  <2> HIDE DEF lost, got
  <2>1. QED
    BY <1>3, <1>5
<1>7. /\ stn' = [n |-> stn.n, matrix |-> stn'.matrix, arcs |-> stn'.arcs]
      /\ stn'.n = n /\ stn'.matrix = stn.matrix
      /\ Connected(stn'.arcs, stn.matrix, n)
  <2> HIDE DEF children
  <2>1. QED
    BY <1>2, <1>3, FillIsNoConstraint DEF missing
<1>8. QED
  BY <1>4, <1>6, <1>7

----------------------------------------------------------------------------
(* extractMinimalDistances                                                 *)

\* Distances to X0 (node n) that no times exceed.
DistancesBound(d, n, top) ==
    /\ d \in [1..n -> Int]
    /\ \A i \in 1..n : d[i] <= INF
    /\ \A t \in Times(n) : Keep(t, top, n) => \A i \in 1..n : t[i] - t[n] <= d[i]
    /\ d[n] <= 0

Queued(q) == {q[k] : k \in DOMAIN q}

\* No child of j gets closer through j.
Settled(s, d, j) == \A i \in Children(s, j, {}) : d[i] <= Add(d[j], s.matrix[<<i, j>>])

LEMMA RelaxedIsBound ==
    ASSUME NEW n \in Nat \ {0}, NEW top \in Matrices(n), NEW arcs, NEW s \in Solving(n, arcs, top),
           NEW d, DistancesBound(d, n, top), NEW node \in 1..n
    PROVE  LET e == Relaxed(s, d, node)
           IN  /\ DistancesBound(e, n, top)
               /\ \A i \in 1..n : e[i] <= d[i]
               /\ e[node] = d[node] => Settled(s, e, node)
<1> DEFINE e == Relaxed(s, d, node)
           path(i) == Add(d[node], s.matrix[<<i, node>>])
           kids == Children(s, node, {})
<1>1. e = [i \in 1..n |-> IF i \in kids THEN Shorter(path(i), d[i]) ELSE d[i]]
  <2>1. s.n = n
    BY DEF Solving
  <2>2. QED
    BY <2>1, Zenon DEF Relaxed, Nodes
<1>2. ASSUME NEW i \in 1..n
      PROVE  /\ s.matrix[<<i, node>>] \in Int /\ d[node] \in Int /\ d[i] \in Int /\ d[i] <= INF
             /\ \A t \in Times(n) : Keep(t, top, n) => t[i] - t[node] <= s.matrix[<<i, node>>]
  BY DEF Solving, Tightenings, Matrices, Square, Keep, DistancesBound
<1>3. ASSUME NEW i \in 1..n
      PROVE  /\ path(i) \in Int
             /\ \A t \in Times(n) : Keep(t, top, n) => t[i] - t[n] <= path(i)
  <2>1. path(i) \in Int
    BY <1>2, AddIs
  <2>2. ASSUME NEW t \in Times(n), Keep(t, top, n) PROVE t[i] - t[n] <= path(i)
    <3>1. n \in 1..n
      OBVIOUS
    <3>2. t[i] \in Int /\ t[node] \in Int /\ t[n] \in Int /\ t[i] - t[n] <= INF
      BY <3>1 DEF Times
    <3>3. t[i] - t[node] <= s.matrix[<<i, node>>] /\ t[node] - t[n] <= d[node]
      BY <1>2, <2>2 DEF DistancesBound
    <3> DEFINE a == d[node]
               b == s.matrix[<<i, node>>]
               x == t[i] - t[n]
    <3>4. a \in Int /\ b \in Int /\ x \in Int /\ x <= INF /\ x <= a + b
      BY <1>2, <3>2, <3>3
    <3> HIDE DEF a, b, x
    <3>5. x <= Add(a, b)
      BY <3>4, AddIs
    <3>6. QED
      BY <3>5 DEF a, b, x
  <2>3. QED
    BY <2>1, <2>2
<1> HIDE DEF path, kids
<1>4. ASSUME NEW i \in 1..n
      PROVE  /\ e[i] \in Int /\ e[i] <= d[i] /\ e[i] <= INF
             /\ \A t \in Times(n) : Keep(t, top, n) => t[i] - t[n] <= e[i]
             /\ i \in kids => e[i] <= path(i)
  <2>1. \A t \in Times(n) : Keep(t, top, n) => t[i] - t[n] <= d[i]
    BY DEF DistancesBound
  <2>2. CASE i \notin kids
    <3>1. e[i] = d[i]
      BY <1>1, <2>2
    <3>2. d[i] \in Int /\ d[i] <= INF
      BY <1>2, Zenon
    <3>2a. d[i] <= d[i]
      BY <3>2
    <3> HIDE DEF e
    <3>3. QED
      BY <2>1, <2>2, <3>1, <3>2, <3>2a, Zenon
  <2>3. CASE i \in kids
    <3>1. e[i] = Shorter(path(i), d[i])
      BY <1>1, <2>3
    <3>2. /\ Shorter(path(i), d[i]) \in Int
          /\ Shorter(path(i), d[i]) <= path(i) /\ Shorter(path(i), d[i]) <= d[i]
          /\ Shorter(path(i), d[i]) \in {path(i), d[i]}
      BY <1>2, <1>3, ShorterIs
    <3> HIDE DEF e
    <3>3. e[i] <= INF
      <4> DEFINE c == Shorter(path(i), d[i])
      <4>1. c \in Int /\ d[i] \in Int /\ INF \in Int /\ c <= d[i] /\ d[i] <= INF
        BY <1>2, <3>2, InfIs
      <4> HIDE DEF c
      <4>2. c <= INF
        BY <4>1
      <4>3. QED
        BY <3>1, <4>2 DEF c
    <3>4. \A t \in Times(n) : Keep(t, top, n) => t[i] - t[n] <= e[i]
      BY <1>3, <2>1, <3>1, <3>2
    <3>5. QED
      BY <3>1, <3>2, <3>3, <3>4
  <2>4. QED
    BY <2>2, <2>3
<1>5. e \in [1..n -> Int]
  <2>1. e = [i \in 1..n |-> e[i]]
    BY <1>1
  <2> HIDE DEF e
  <2>2. QED
    BY <1>4, <2>1
<1>6. kids \subseteq 1..n
  BY DEF kids, Children, Nodes, Solving
<1>7. e[n] <= 0
  <2>1. n \in 1..n
    OBVIOUS
  <2>2. d[n] \in Int /\ d[n] <= 0
    BY <2>1 DEF DistancesBound
  <2> HIDE DEF e
  <2>3. QED
    BY <1>4, <2>1, <2>2
<1>8. ASSUME e[node] = d[node]
      PROVE  Settled(s, e, node)
  <2>1. \A i \in kids : e[i] <= Add(e[node], s.matrix[<<i, node>>])
    <3> HIDE DEF e
    <3>1. QED
      BY <1>4, <1>6, <1>8 DEF path
  <2> HIDE DEF e
  <2>2. QED
    BY <2>1 DEF Settled, kids
<1> HIDE DEF e
<1>9. DistancesBound(e, n, top)
  BY <1>4, <1>5, <1>7 DEF DistancesBound
<1>10. QED
  BY <1>4, <1>8, <1>9 DEF e

LEMMA GotCloserIs ==
    ASSUME NEW n \in Nat, NEW s, s.n = n, NEW old, NEW new
    PROVE  /\ GotCloser(s, old, new) \in Seq(1..n)
           /\ \A i \in 1..n : new[i] < old[i] => i \in Queued(GotCloser(s, old, new))
<1> DEFINE S == {i \in 1..n : new[i] < old[i]}
           q == Ascending(S, n)
<1>1. GotCloser(s, old, new) = q
  <2>1. GotCloser(s, old, new) = Ascending({i \in 1..s.n : new[i] < old[i]}, s.n)
    BY Zenon DEF GotCloser, Nodes
  <2>2. QED
    BY <2>1, Zenon
<1>2. S \in SUBSET (1..n)
  OBVIOUS
<1>3. q \in Seq(S) /\ \A x \in S : \E k \in DOMAIN q : q[k] = x
  <2> HIDE DEF S
  <2>1. QED
    BY <1>2, AscendingIs
<1>4. q \in Seq(1..n)
  <2> HIDE DEF S, q
  <2>1. /\ q = [k \in 1..Len(q) |-> q[k]] /\ Len(q) \in Nat
        /\ \A k \in 1..Len(q) : q[k] \in S
    BY <1>3
  <2>2. \A k \in 1..Len(q) : q[k] \in 1..n
    BY <1>2, <2>1
  <2>3. QED
    BY <2>1, <2>2
<1>5. \A x \in S : x \in Queued(q)
  BY <1>3, Zenon DEF Queued
<1> HIDE DEF q
<1>6. QED
  BY <1>1, <1>4, <1>5

\* What is in the rest of a queue, and in what it is continued with.
LEMMA QueuedIs ==
    ASSUME NEW S, NEW q \in Seq(S), q # <<>>, NEW r \in Seq(S)
    PROVE  /\ Head(q) \in S /\ Tail(q) \o r \in Seq(S)
           /\ Queued(q) \subseteq {Head(q)} \cup Queued(Tail(q) \o r)
           /\ Queued(r) \subseteq Queued(Tail(q) \o r)
<1> DEFINE t == Tail(q) \o r
<1>1. /\ Head(q) \in S /\ t \in Seq(S) /\ Len(q) \in Nat \ {0} /\ Len(r) \in Nat
      /\ Len(t) = Len(q) - 1 + Len(r)
      /\ DOMAIN q = 1..Len(q) /\ DOMAIN r = 1..Len(r) /\ DOMAIN t = 1..Len(t)
  OBVIOUS
<1>2. /\ q[1] = Head(q)
      /\ \A k \in 2..Len(q) : k - 1 \in 1..Len(t) /\ q[k] = t[k - 1]
      /\ \A k \in 1..Len(r) : Len(q) - 1 + k \in 1..Len(t) /\ r[k] = t[Len(q) - 1 + k]
  OBVIOUS
<1> HIDE DEF t
<1>3. \A k \in DOMAIN q : q[k] \in {Head(q)} \cup Queued(t)
  <2> TAKE k \in DOMAIN q
  <2>1. CASE k = 1
    BY <1>2, <2>1
  <2>2. CASE k # 1
    <3>1. k \in 2..Len(q)
      BY <1>1, <2>2
    <3>2. k - 1 \in DOMAIN t /\ q[k] = t[k - 1]
      BY <1>1, <1>2, <3>1
    <3>3. QED
      BY <3>2 DEF Queued
  <2>3. QED
    BY <2>1, <2>2
<1>4. \A k \in DOMAIN r : r[k] \in Queued(t)
  BY <1>1, <1>2 DEF Queued
<1>5. QED
  BY <1>1, <1>3, <1>4 DEF Queued, t

LEMMA ExtractSettles ==
    ASSUME NEW n \in Nat \ {0}, NEW top \in Matrices(n), NEW arcs, stn \in Solving(n, arcs, top),
           DistancesBound(distances, n, top), queue \in Seq(1..n),
           \A j \in 1..n : j \in Queued(queue) \/ Settled(stn, distances, j),
           ExtractMinimalDistances
    PROVE  /\ DistancesBound(distances', n, top)
           /\ queue' \in Seq(1..n)
           /\ \A j \in 1..n : j \in Queued(queue') \/ Settled(stn, distances', j)
<1> DEFINE node == Head(queue)
           closer == GotCloser(stn, distances, distances')
<1>1. /\ queue # <<>>
      /\ distances' = Relaxed(stn, distances, node)
      /\ queue' = Tail(queue) \o closer
  BY Zenon DEF ExtractMinimalDistances
<1>2. stn.n = n
  BY DEF Solving
<1>3. /\ closer \in Seq(1..n)
      /\ \A i \in 1..n : distances'[i] < distances[i] => i \in Queued(closer)
  BY <1>2, GotCloserIs
<1> HIDE DEF closer
<1>4. /\ node \in 1..n /\ queue' \in Seq(1..n)
      /\ Queued(queue) \subseteq {node} \cup Queued(queue')
      /\ Queued(closer) \subseteq Queued(queue')
  BY <1>1, <1>3, QueuedIs
<1> HIDE DEF node
<1>5. /\ DistancesBound(distances', n, top)
      /\ \A i \in 1..n : distances'[i] <= distances[i]
      /\ distances'[node] = distances[node] => Settled(stn, distances', node)
  BY <1>1, <1>4, RelaxedIsBound
<1>6. \A i \in 1..n : distances'[i] \in Int /\ distances[i] \in Int
  BY <1>5 DEF DistancesBound
<1>7. ASSUME NEW j \in 1..n, j \notin Queued(queue')
      PROVE  Settled(stn, distances', j)
  <2>1. j \notin Queued(closer) /\ (j = node \/ j \notin Queued(queue))
    BY <1>4, <1>7
  <2>2. distances'[j] = distances[j]
    BY <1>3, <1>5, <1>6, <2>1
  <2>3. CASE j = node
    BY <1>5, <2>2, <2>3
  <2>4. CASE j # node
    <3>1. Settled(stn, distances, j)
      BY <2>1, <2>4
    <3>2. Children(stn, j, {}) \subseteq 1..n
      BY <1>2 DEF Children, Nodes
    <3> SUFFICES ASSUME NEW i \in Children(stn, j, {})
                 PROVE  distances'[i] <= Add(distances'[j], stn.matrix[<<i, j>>])
      BY DEF Settled
    <3>3. distances[i] <= Add(distances[j], stn.matrix[<<i, j>>])
      BY <3>1 DEF Settled
    <3>4. Add(distances[j], stn.matrix[<<i, j>>]) \in Int
      <4>1. stn.matrix[<<i, j>>] \in Int /\ distances[j] \in Int
        BY <1>6, <3>2 DEF Solving, Tightenings, Matrices, Square
      <4>2. QED
        BY <4>1, AddIs
    <3>5. i \in 1..n
      BY <3>2
    <3>6. QED
      BY <1>5, <1>6, <2>2, <3>3, <3>4, <3>5
  <2>5. QED
    BY <2>3, <2>4
<1>8. QED
  BY <1>4, <1>5, <1>7

----------------------------------------------------------------------------
(* buildInstantPlan                                                        *)

\* x is a sequence.
Listed(x) == Len(x) \in Nat /\ x = [k \in 1..Len(x) |-> x[k]]

LEMMA ListIs ==
    ASSUME NEW m \in Nat, NEW x, x = [k \in 1..m |-> x[k]]
    PROVE  Len(x) = m /\ DOMAIN x = 1..m /\ Listed(x)
<1> DEFINE S == {x[k] : k \in 1..m}
<1>1. \A k \in 1..m : x[k] \in S
  OBVIOUS
<1> HIDE DEF S
<1>2. x \in Seq(S)
  BY <1>1
<1>3. DOMAIN x = 1..m
  OBVIOUS
<1>4. Len(x) = m
  BY <1>2, <1>3
<1>5. QED
  BY <1>3, <1>4 DEF Listed

LEMMA JoinIs ==
    ASSUME NEW x, NEW y, Listed(x), Listed(y)
    PROVE  /\ Listed(x \o y) /\ Len(x \o y) = Len(x) + Len(y)
           /\ \A k \in 1..Len(x) : (x \o y)[k] = x[k]
           /\ \A k \in 1..Len(y) : (x \o y)[Len(x) + k] = y[k]
<1> DEFINE S == {x[k] : k \in 1..Len(x)} \cup {y[k] : k \in 1..Len(y)}
           z == x \o y
<1>1. \A k \in 1..Len(x) : x[k] \in S
  OBVIOUS
<1>2. \A k \in 1..Len(y) : y[k] \in S
  OBVIOUS
<1> HIDE DEF S
<1>3. x \in Seq(S) /\ y \in Seq(S)
  BY <1>1, <1>2 DEF Listed
<1>4. /\ z \in Seq(S) /\ Len(z) = Len(x) + Len(y)
      /\ \A k \in 1..Len(x) : z[k] = x[k]
      /\ \A k \in 1..Len(y) : z[Len(x) + k] = y[k]
  BY <1>3
<1> HIDE DEF z
<1>5. Listed(z)
  BY <1>4 DEF Listed
<1>6. QED
  BY <1>4, <1>5 DEF z

\* The operators that run in a state.
Runs(s) ==
    /\ IsFiniteSet(s.operators)
    /\ \A x \in s.operators : x = [increment |-> x.increment, op |-> x.op] /\ x.op \in Op

LEMMA RunsAfter ==
    ASSUME NEW s, Runs(s)
    PROVE  /\ \A o \in Op : Runs(ApplyOperator(s, o))
           /\ Runs(LetTimePass(s, TRUE))
<1>1. ASSUME NEW o \in Op
      PROVE  Runs(ApplyOperator(s, o))
  <2> DEFINE x == [increment |-> Duration[o], op |-> o]
  <2>1. ApplyOperator(s, o).operators = s.operators \cup {x}
    BY Zenon DEF ApplyOperator
  <2>2. x = [increment |-> x.increment, op |-> x.op] /\ x.op \in Op
    OBVIOUS
  <2> HIDE DEF x
  <2>3. IsFiniteSet(s.operators \cup {x})
    BY FS_AddElement DEF Runs
  <2>4. QED
    BY <2>1, <2>2, <2>3 DEF Runs
<1>2. ASSUME NEW dt
      PROVE  Runs(PassBy(s, dt))
  <2> DEFINE S == s.operators
             moved(x) == [x EXCEPT !.increment = @ - dt]
             f == [x \in S |-> moved(x)]
  <2>1. PassBy(s, dt).operators = Future(S, dt)
    BY Zenon DEF PassBy
  <2>2. Future(S, dt) \subseteq Closer(S, dt)
    BY DEF Future
  <2>3. Closer(S, dt) = {moved(x) : x \in S}
    BY DEF Closer
  <2>4. f \in Surjection(S, Closer(S, dt))
    <3> HIDE DEF moved, S
    <3>1. QED
      BY <2>3 DEF Surjection
  <2>5. IsFiniteSet(Closer(S, dt))
    <3> HIDE DEF f
    <3>1. QED
      BY <2>4, FS_Surjection DEF Runs
  <2>6. IsFiniteSet(Future(S, dt))
    BY <2>2, <2>5, FS_Subset
  <2>7. ASSUME NEW y \in Future(S, dt)
        PROVE  y = [increment |-> y.increment, op |-> y.op] /\ y.op \in Op
    <3>1. PICK x \in S : y = moved(x)
      BY <2>2, <2>3, <2>7
    <3>2. x = [increment |-> x.increment, op |-> x.op] /\ x.op \in Op
      BY DEF Runs
    <3>3. y = [increment |-> x.increment - dt, op |-> x.op]
      BY <3>1, <3>2
    <3>4. QED
      BY <3>2, <3>3
  <2>8. QED
    BY <2>1, <2>6, <2>7 DEF Runs
<1>3. Runs(LetTimePass(s, TRUE))
  <2>1. \E dt : LetTimePass(s, TRUE) = PassBy(s, dt)
    BY Zenon DEF LetTimePass
  <2>2. QED
    BY <1>2, <2>1
<1>4. QED
  BY <1>1, <1>3

\* The happenings of a branch: its operators are operators of the task.
TraceRuns(tr) == tr # <<>> /\ \E S : tr \in Seq(S) /\ \A s \in S : Runs(s)

LEMMA TraceGrows ==
    ASSUME NEW tr, TraceRuns(tr), NEW s, Runs(s)
    PROVE  TraceRuns(Append(tr, s))
<1>1. PICK S : tr \in Seq(S) /\ \A x \in S : Runs(x)
  BY DEF TraceRuns
<1> DEFINE R == S \cup {s}
<1>2. tr \in Seq(R) /\ s \in R
  <2>1. tr \in Seq(S) /\ S \subseteq R
    BY <1>1
  <2>2. Len(tr) \in Nat /\ tr = [k \in 1..Len(tr) |-> tr[k]] /\ \A k \in 1..Len(tr) : tr[k] \in S
    BY <1>1
  <2> HIDE DEF R
  <2>3. \A k \in 1..Len(tr) : tr[k] \in R
    BY <2>1, <2>2
  <2>4. tr \in Seq(R)
    BY <2>2, <2>3
  <2>5. QED
    BY <2>4 DEF R
<1>3. \A x \in R : Runs(x)
  BY <1>1
<1> HIDE DEF R
<1>4. Append(tr, s) \in Seq(R) /\ Append(tr, s) # <<>>
  <2>1. /\ Append(tr, s) \in Seq(R)
        /\ Len(Append(tr, s)) = Len(tr) + 1 /\ Len(tr) \in Nat
    BY <1>2
  <2>2. Len(<<>>) = 0
    OBVIOUS
  <2>3. QED
    BY <2>1, <2>2
<1>5. QED
  BY <1>3, <1>4 DEF TraceRuns

LEMMA NowRuns ==
    ASSUME TraceRuns(trace)
    PROVE  Runs(Now)
<1>1. PICK S : trace \in Seq(S) /\ \A s \in S : Runs(s)
  BY DEF TraceRuns
<1>2. trace # <<>>
  BY DEF TraceRuns
<1>3. Now \in S
  BY <1>1, <1>2 DEF Now
<1>4. QED
  BY <1>1, <1>3

\* An instant is a record of these fields.
Fields(x) ==
    [type |-> x.type, step |-> x.step, op |-> x.op, timepoint |-> x.timepoint,
     endAction |-> x.endAction, preconditions |-> x.preconditions,
     effects |-> x.effects, overall |-> x.overall]

\* Starts and ends of the operators of the task: an end belongs to a start, and
\* they are of the same step.
Instants(x) ==
    /\ Listed(x)
    /\ \A i \in 1..Len(x) :
          /\ x[i] = Fields(x[i]) /\ x[i].op \in Op
          /\ x[i].type \in {"start", "end"} /\ x[i].endAction \in 0..Len(x)
          /\ x[i].type = "start" /\ x[i].endAction # 0 =>
                x[x[i].endAction].type = "end" /\ x[x[i].endAction].step = x[i].step
          /\ x[i].type = "end" => \E s \in 1..Len(x) : x[s].type = "start" /\ x[s].endAction = i

LEMMA InstantIs ==
    ASSUME NEW type, NEW step, NEW o, NEW before, NEW after
    PROVE  LET x == Instant(type, step, o, before, after)
           IN  /\ x = Fields(x)
               /\ x.type = type /\ x.step = step /\ x.op = o /\ x.endAction = 0
  BY DEF Instant, Fields

LEMMA MatchedIs ==
    ASSUME NEW x, x = Fields(x), NEW e
    PROVE  LET y == [x EXCEPT !.endAction = e]
           IN  /\ y = Fields(y)
               /\ y.type = x.type /\ y.step = x.step /\ y.op = x.op /\ y.endAction = e
<1> DEFINE y == [x EXCEPT !.endAction = e]
<1>1. y = [type |-> x.type, step |-> x.step, op |-> x.op, timepoint |-> x.timepoint,
           endAction |-> e, preconditions |-> x.preconditions,
           effects |-> x.effects, overall |-> x.overall]
  BY DEF Fields
<1> HIDE DEF y
<1>2. y = Fields(y) /\ y.type = x.type /\ y.step = x.step /\ y.op = x.op /\ y.endAction = e
  BY <1>1 DEF Fields
<1>3. QED
  BY <1>2 DEF y

\* The start of an action.
LEMMA StartedIs ==
    ASSUME NEW x, Instants(x), NEW before, NEW after, Runs(before), Runs(after),
           Cardinality(before.operators) < Cardinality(after.operators)
    PROVE  Instants(x \o StartInstants(before, after))
<1> DEFINE started == CHOOSE r \in after.operators : r \notin before.operators
           i == Instant("start", IndexOfPlanStep(started.op, after.timestamp), started.op,
                        before, after)
           y == <<i>>
           z == x \o y
           N == Len(x)
<1>1. StartInstants(before, after) = y
  BY Zenon DEF StartInstants
<1>2. started.op \in Op
  <2>1. \E r \in after.operators : r \notin before.operators
    <3> SUFFICES ASSUME after.operators \subseteq before.operators PROVE FALSE
      OBVIOUS
    <3>1. Cardinality(after.operators) <= Cardinality(before.operators)
      BY FS_Subset DEF Runs
    <3>2. Cardinality(after.operators) \in Nat /\ Cardinality(before.operators) \in Nat
      BY FS_CardinalityType DEF Runs
    <3>3. QED
      BY <3>1, <3>2
  <2>2. started \in after.operators
    BY <2>1, Zenon
  <2> HIDE DEF started
  <2>3. QED
    BY <2>2 DEF Runs
<1>3. i = Fields(i) /\ i.type = "start" /\ i.op = started.op /\ i.endAction = 0
  <2> HIDE DEF started
  <2>1. QED
    BY InstantIs
<1> HIDE DEF i, started
<1>4. Listed(y) /\ Len(y) = 1 /\ y[1] = i
  <2>1. Len(y) = 1 /\ y[1] = i /\ y = [k \in 1..1 |-> y[k]]
    OBVIOUS
  <2> HIDE DEF y
  <2>2. QED
    BY <2>1, ListIs
<1> HIDE DEF y
<1>5. /\ Listed(z) /\ Len(z) = N + 1 /\ N \in Nat
      /\ \A k \in 1..N : z[k] = x[k]
      /\ z[N + 1] = i
  <2>1. Listed(x) /\ N \in Nat
    BY DEF Instants, Listed
  <2>2. /\ Listed(x \o y) /\ Len(x \o y) = Len(x) + Len(y)
        /\ \A k \in 1..Len(x) : (x \o y)[k] = x[k]
        /\ \A k \in 1..Len(y) : (x \o y)[Len(x) + k] = y[k]
    <3>1. Listed(x) /\ Listed(y)
      BY <1>4, <2>1
    <3>2. QED
      BY <3>1, JoinIs
  <2> HIDE DEF N, z
  <2>3. 1 \in 1..Len(y)
    BY <1>4
  <2>4. QED
    BY <1>4, <2>1, <2>2, <2>3 DEF N, z
<1> HIDE DEF z, N
<1>6. ASSUME NEW k \in 1..Len(z)
      PROVE  /\ z[k] = Fields(z[k]) /\ z[k].op \in Op
             /\ z[k].type \in {"start", "end"} /\ z[k].endAction \in 0..Len(z)
             /\ z[k].type = "start" /\ z[k].endAction # 0 =>
                   z[z[k].endAction].type = "end" /\ z[z[k].endAction].step = z[k].step
             /\ z[k].type = "end" =>
                   \E s \in 1..Len(z) : z[s].type = "start" /\ z[s].endAction = k
  <2>1. CASE k \in 1..N
    <3>1. z[k] = x[k]
      BY <1>5, <2>1
    <3>2. /\ x[k] = Fields(x[k]) /\ x[k].op \in Op
          /\ x[k].type \in {"start", "end"} /\ x[k].endAction \in 0..N
          /\ x[k].type = "start" /\ x[k].endAction # 0 =>
                x[x[k].endAction].type = "end" /\ x[x[k].endAction].step = x[k].step
          /\ x[k].type = "end" => \E s \in 1..N : x[s].type = "start" /\ x[s].endAction = k
      BY <2>1 DEF Instants, N
    <3>3. x[k].endAction \in 0..Len(z)
      BY <1>5, <3>2
    <3>4. x[k].endAction # 0 => z[x[k].endAction] = x[x[k].endAction]
      BY <1>5, <3>2
    <3>5. x[k].type = "end" => \E s \in 1..Len(z) : z[s].type = "start" /\ z[s].endAction = k
      <4> SUFFICES ASSUME x[k].type = "end"
                   PROVE  \E s \in 1..Len(z) : z[s].type = "start" /\ z[s].endAction = k
        OBVIOUS
      <4>1. PICK s \in 1..N : x[s].type = "start" /\ x[s].endAction = k
        BY <3>2
      <4>2. s \in 1..Len(z) /\ z[s] = x[s]
        BY <1>5
      <4>3. QED
        BY <4>1, <4>2
    <3>6. QED
      BY <3>1, <3>2, <3>3, <3>4, <3>5, Zenon
  <2>2. CASE k = N + 1
    <3>1. z[k] = i /\ 0 \in 0..Len(z)
      BY <1>5, <2>2
    <3>2. QED
      BY <1>2, <1>3, <3>1
  <2>3. QED
    BY <1>5, <2>1, <2>2
<1>7. Instants(z)
  BY <1>5, <1>6 DEF Instants
<1>8. QED
  BY <1>1, <1>7 DEF z

\* The ends of actions, and their starts.
LEMMA EndedIs ==
    ASSUME NEW x, Instants(x), NEW before, NEW after,
           ~(Cardinality(before.operators) < Cardinality(after.operators))
    PROVE  Instants(AfterHappening(x, before, after))
<1> DEFINE N == Len(x)
           S == Ending(x, after.timestamp)
           starts == Ascending(S, N)
           end(k) == Instant("end", x[starts[k]].step, x[starts[k]].op, before, after)
           place(i) == N + (CHOOSE k \in DOMAIN starts : starts[k] = i)
           match(i) == IF i \in S THEN [x[i] EXCEPT !.endAction = place(i)] ELSE x[i]
           matched == [i \in DOMAIN x |-> match(i)]
           y == [k \in DOMAIN starts |-> end(k)]
           z == matched \o y
           E == Len(starts)
<1>1. AfterHappening(x, before, after) = z
  BY Zenon DEF AfterHappening, EndIndex
<1>2. N \in Nat /\ DOMAIN x = 1..N /\ Listed(x)
  BY DEF Instants, Listed
<1>3. S \in SUBSET (1..N) /\ \A i \in S : x[i].type = "start"
  BY <1>2 DEF Ending
<1> HIDE DEF S, N
<1>4. /\ E \in Nat /\ DOMAIN starts = 1..E
      /\ \A k \in 1..E : starts[k] \in S
      /\ \A i \in S : \E k \in 1..E : starts[k] = i
      /\ \A k, l \in 1..E : starts[k] = starts[l] => k = l
  <2>1. /\ starts \in Seq(S)
        /\ \A i \in S : \E k \in DOMAIN starts : starts[k] = i
        /\ \A k, l \in DOMAIN starts : starts[k] = starts[l] => k = l
    BY <1>2, <1>3, AscendingIs
  <2> HIDE DEF starts
  <2>2. E \in Nat /\ DOMAIN starts = 1..E /\ \A k \in 1..E : starts[k] \in S
    BY <2>1
  <2>3. QED
    BY <2>1, <2>2
<1> HIDE DEF starts
<1>5. ASSUME NEW i \in S
      PROVE  \E k \in 1..E : starts[k] = i /\ place(i) = N + k
  <2>1. \E k \in 1..E : starts[k] = i
    BY <1>4
  <2>2. (CHOOSE k \in DOMAIN starts : starts[k] = i) \in 1..E
    BY <1>4, <2>1, Zenon
  <2>3. starts[CHOOSE k \in DOMAIN starts : starts[k] = i] = i
    BY <1>4, <2>1, Zenon
  <2>4. QED
    BY <2>2, <2>3
<1>6. ASSUME NEW k \in 1..E
      PROVE  place(starts[k]) = N + k
  <2>1. starts[k] \in S
    BY <1>4
  <2>2. PICK l \in 1..E : starts[l] = starts[k] /\ place(starts[k]) = N + l
    BY <1>5, <2>1
  <2> HIDE DEF place
  <2>3. QED
    BY <1>4, <2>2
<1> HIDE DEF E
<1>7. ASSUME NEW i \in 1..N
      PROVE  /\ x[i] = Fields(x[i]) /\ x[i].op \in Op
             /\ x[i].type \in {"start", "end"} /\ x[i].endAction \in 0..N
             /\ x[i].type = "start" /\ x[i].endAction # 0 =>
                   x[x[i].endAction].type = "end" /\ x[x[i].endAction].step = x[i].step
             /\ x[i].type = "end" => \E s \in 1..N : x[s].type = "start" /\ x[s].endAction = i
  BY DEF Instants, N
<1>8. ASSUME NEW i \in 1..N
      PROVE  /\ match(i) = Fields(match(i))
             /\ match(i).op = x[i].op /\ match(i).type = x[i].type /\ match(i).step = x[i].step
             /\ match(i).endAction = IF i \in S THEN place(i) ELSE x[i].endAction
  <2>1. x[i] = Fields(x[i])
    BY <1>7
  <2>2. CASE i \in S
    <3> DEFINE m == [x[i] EXCEPT !.endAction = place(i)]
    <3>1. /\ m = Fields(m)
          /\ m.type = x[i].type /\ m.step = x[i].step /\ m.op = x[i].op /\ m.endAction = place(i)
      <4> HIDE DEF place
      <4>1. QED
        BY <2>1, MatchedIs
    <3>2. match(i) = m
      BY <2>2
    <3> HIDE DEF m, match, place
    <3>3. QED
      BY <2>2, <3>1, <3>2
  <2>3. CASE i \notin S
    <3>1. match(i) = x[i]
      BY <2>3
    <3> HIDE DEF match, place
    <3>2. QED
      BY <2>1, <2>3, <3>1
  <2>4. QED
    BY <2>2, <2>3
<1>9. ASSUME NEW k \in 1..E
      PROVE  /\ starts[k] \in 1..N /\ x[starts[k]].type = "start"
             /\ end(k) = Fields(end(k))
             /\ end(k).op \in Op /\ end(k).type = "end" /\ end(k).endAction = 0
             /\ end(k).step = x[starts[k]].step
  <2>1. starts[k] \in S /\ starts[k] \in 1..N /\ x[starts[k]].type = "start"
    BY <1>3, <1>4
  <2>2. x[starts[k]].op \in Op
    BY <1>7, <2>1
  <2>3. /\ end(k) = Fields(end(k)) /\ end(k).type = "end" /\ end(k).step = x[starts[k]].step
        /\ end(k).op = x[starts[k]].op /\ end(k).endAction = 0
    BY InstantIs
  <2> HIDE DEF end
  <2>4. QED
    BY <2>1, <2>2, <2>3
<1> HIDE DEF match, place, end
<1>10. /\ Listed(z) /\ Len(z) = N + E
       /\ \A i \in 1..N : z[i] = match(i)
       /\ \A k \in 1..E : z[N + k] = end(k)
  <2>1. /\ Len(matched) = N /\ Listed(matched)
        /\ \A i \in 1..N : matched[i] = match(i)
    <3>1. matched = [i \in 1..N |-> matched[i]] /\ \A i \in 1..N : matched[i] = match(i)
      BY <1>2
    <3> HIDE DEF matched
    <3>2. QED
      BY <1>2, <3>1, ListIs
  <2>2. /\ Len(y) = E /\ Listed(y)
        /\ \A k \in 1..E : y[k] = end(k)
    <3>1. y = [k \in 1..E |-> y[k]] /\ \A k \in 1..E : y[k] = end(k)
      BY <1>4
    <3> HIDE DEF y
    <3>2. QED
      BY <1>4, <3>1, ListIs
  <2> HIDE DEF matched, y
  <2>3. /\ Listed(matched \o y) /\ Len(matched \o y) = Len(matched) + Len(y)
        /\ \A i \in 1..Len(matched) : (matched \o y)[i] = matched[i]
        /\ \A k \in 1..Len(y) : (matched \o y)[Len(matched) + k] = y[k]
    <3>1. Listed(matched) /\ Listed(y)
      BY <2>1, <2>2
    <3>2. QED
      BY <3>1, JoinIs
  <2>4. QED
    BY <2>1, <2>2, <2>3 DEF z
<1> HIDE DEF z
<1>10a. \A i \in 1..N : i \in 1..Len(z)
  <2>1. N \in Nat /\ E \in Nat /\ Len(z) = N + E
    BY <1>2, <1>4, <1>10
  <2> HIDE DEF matched, y
  <2>2. QED
    BY <2>1
<1>11. ASSUME NEW k \in 1..Len(z)
       PROVE  /\ z[k] = Fields(z[k]) /\ z[k].op \in Op
              /\ z[k].type \in {"start", "end"} /\ z[k].endAction \in 0..Len(z)
              /\ z[k].type = "start" /\ z[k].endAction # 0 =>
                    z[z[k].endAction].type = "end" /\ z[z[k].endAction].step = z[k].step
              /\ z[k].type = "end" =>
                    \E s \in 1..Len(z) : z[s].type = "start" /\ z[s].endAction = k
  <2>1. CASE k \in 1..N /\ k \notin S
    <3>1. /\ z[k] = match(k) /\ z[k] = Fields(z[k])
          /\ z[k].op = x[k].op /\ z[k].type = x[k].type /\ z[k].step = x[k].step
          /\ z[k].endAction = x[k].endAction
      BY <1>8, <1>10, <2>1
    <3>2. /\ x[k].op \in Op
          /\ x[k].type \in {"start", "end"} /\ x[k].endAction \in 0..N
          /\ x[k].type = "start" /\ x[k].endAction # 0 =>
                x[x[k].endAction].type = "end" /\ x[x[k].endAction].step = x[k].step
          /\ x[k].type = "end" => \E s \in 1..N : x[s].type = "start" /\ x[s].endAction = k
      BY <1>7, <2>1
    <3>3. x[k].endAction \in 0..Len(z)
      BY <1>2, <1>4, <1>10, <3>2
    <3>4. x[k].endAction # 0 =>
             /\ z[x[k].endAction].type = x[x[k].endAction].type
             /\ z[x[k].endAction].step = x[x[k].endAction].step
      <4> SUFFICES ASSUME x[k].endAction # 0
                   PROVE  /\ z[x[k].endAction].type = x[x[k].endAction].type
                          /\ z[x[k].endAction].step = x[x[k].endAction].step
        OBVIOUS
      <4>1. x[k].endAction \in 1..N
        BY <1>2, <3>2
      <4>2. QED
        BY <1>8, <1>10, <4>1
    <3>5. x[k].type = "end" => \E s \in 1..Len(z) : z[s].type = "start" /\ z[s].endAction = k
      <4> SUFFICES ASSUME x[k].type = "end"
                   PROVE  \E s \in 1..Len(z) : z[s].type = "start" /\ z[s].endAction = k
        OBVIOUS
      <4>1. PICK s \in 1..N : x[s].type = "start" /\ x[s].endAction = k
        BY <3>2
      <4>2. s \notin S
        <5>1. \A i \in S : x[i].endAction = 0
          BY DEF S, Ending
        <5>2. k # 0
          BY <2>1
        <5>3. QED
          BY <4>1, <5>1, <5>2
      <4>3. s \in 1..Len(z) /\ z[s] = match(s)
        BY <1>10, <1>10a
      <4>4. z[s].type = "start" /\ z[s].endAction = k
        BY <1>8, <4>1, <4>2, <4>3
      <4>5. QED
        BY <4>3, <4>4
    <3>6. QED
      BY <3>1, <3>2, <3>3, <3>4, <3>5, Zenon
  <2>2. CASE k \in S
    <3>1. k \in 1..N /\ x[k].type = "start" /\ x[k].op \in Op
      BY <1>3, <1>7, <2>2
    <3>2. /\ z[k] = match(k) /\ z[k] = Fields(z[k])
          /\ z[k].op = x[k].op /\ z[k].type = x[k].type /\ z[k].step = x[k].step
          /\ z[k].endAction = place(k)
      BY <1>8, <1>10, <2>2, <3>1
    <3>3. PICK l \in 1..E : starts[l] = k /\ place(k) = N + l
      BY <1>5, <2>2
    <3>4. z[N + l] = end(l) /\ end(l).type = "end" /\ end(l).step = x[k].step
      BY <1>9, <1>10, <3>3
    <3>5. place(k) \in 0..Len(z)
      BY <1>2, <1>4, <1>10, <3>3
    <3>6. z[k].type # "end"
      BY <3>1, <3>2
    <3>7. z[place(k)].type = "end" /\ z[place(k)].step = z[k].step
      BY <3>2, <3>3, <3>4
    <3>8. QED
      BY <3>1, <3>2, <3>5, <3>6, <3>7, Zenon
  <2>3. CASE k \notin 1..N
    <3>1. PICK l \in 1..E : k = N + l
      <4>1. k - N \in 1..E /\ k = N + (k - N)
        BY <1>2, <1>4, <1>10, <2>3
      <4>2. QED
        BY <4>1
    <3>2. z[k] = end(l) /\ z[k] = Fields(z[k]) /\ z[k].op \in Op /\ z[k].type = "end"
          /\ z[k].endAction = 0
      BY <1>9, <1>10, <3>1
    <3>3. starts[l] \in 1..N /\ starts[l] \in S /\ x[starts[l]].type = "start"
      BY <1>4, <1>9
    <3>4. /\ starts[l] \in 1..Len(z)
          /\ z[starts[l]].type = "start" /\ z[starts[l]].endAction = k
      <4>1. z[starts[l]] = match(starts[l]) /\ starts[l] \in 1..Len(z)
        BY <1>10, <1>10a, <3>3
      <4>2. match(starts[l]).type = "start" /\ match(starts[l]).endAction = place(starts[l])
        BY <1>8, <3>3
      <4>3. place(starts[l]) = k
        BY <1>6, <3>1
      <4>4. QED
        BY <4>1, <4>2, <4>3
    <3>5. 0 \in 0..Len(z) /\ "end" \in {"start", "end"}
      BY <1>2, <1>4, <1>10
    <3>6. QED
      BY <3>2, <3>4, <3>5
  <2>4. QED
    BY <2>1, <2>2, <2>3
<1>12. Instants(z)
  BY <1>10, <1>11 DEF Instants
<1>13. QED
  BY <1>1, <1>12 DEF z

LEMMA HappenedIs ==
    ASSUME NEW x, Instants(x), NEW before, NEW after, Runs(before), Runs(after)
    PROVE  Instants(AfterHappening(x, before, after))
<1>1. CASE Cardinality(before.operators) < Cardinality(after.operators)
  <2>1. AfterHappening(x, before, after) = x \o StartInstants(before, after)
    BY <1>1, Zenon DEF AfterHappening
  <2>2. QED
    BY <1>1, <2>1, StartedIs
<1>2. CASE ~(Cardinality(before.operators) < Cardinality(after.operators))
  BY <1>2, EndedIs
<1>3. QED
  BY <1>1, <1>2

LEMMA BuiltIs ==
    ASSUME TraceRuns(trace), BuildInstantPlan
    PROVE  Instants(instants')
<1> DEFINE n == Len(trace) - 1
           Solves(f, m) == f = [k \in 0..m |->
               IF k = 0 THEN <<>> ELSE AfterHappening(f[k - 1], trace[k], trace[k + 1])]
           Good == {m \in Nat : \E f : Solves(f, m)}
           g == CHOOSE f : Solves(f, n)
<1>1. /\ n \in Nat /\ \A k \in 1..(n + 1) : Runs(trace[k])
  <2>1. PICK S : trace \in Seq(S) /\ \A s \in S : Runs(s)
    BY DEF TraceRuns
  <2>2. trace # <<>>
    BY DEF TraceRuns
  <2>3. n \in Nat /\ \A k \in 1..(n + 1) : trace[k] \in S
    BY <2>1, <2>2
  <2>4. QED
    BY <2>1, <2>3
<1>2. instants' = g[n]
  BY Zenon DEF BuildInstantPlan
<1> HIDE DEF n
<1>3. 0 \in Good
  <2> DEFINE f == [k \in 0..0 |-> <<>>]
  <2>1. f = [k \in 0..0 |-> IF k = 0 THEN <<>>
                            ELSE AfterHappening(f[k - 1], trace[k], trace[k + 1])]
    OBVIOUS
  <2>2. Solves(f, 0)
    BY <2>1
  <2> HIDE DEF Solves, f
  <2>3. QED
    BY <2>2
<1>4. ASSUME NEW m \in 0..(n - 1), m \in Good
      PROVE  m + 1 \in Good
  <2>1. PICK f : Solves(f, m)
    BY <1>4
  <2> DEFINE last == AfterHappening(f[m], trace[m + 1], trace[m + 1 + 1])
             h == [k \in 0..(m + 1) |-> IF k <= m THEN f[k] ELSE last]
  <2>2. m \in Nat /\ m \in 0..m /\ m + 1 \in Nat
    OBVIOUS
  <2>3. \A k \in 0..(m + 1) : h[k] = IF k = 0 THEN <<>>
                                     ELSE AfterHappening(h[k - 1], trace[k], trace[k + 1])
    <3> TAKE k \in 0..(m + 1)
    <3> HIDE DEF last
    <3>1. k # 0 => h[k - 1] = f[k - 1]
      BY <2>2
    <3>2. CASE k <= m
      <4>1. k \in 0..m /\ h[k] = f[k]
        BY <3>2
      <4>2. f[k] = IF k = 0 THEN <<>> ELSE AfterHappening(f[k - 1], trace[k], trace[k + 1])
        BY <2>1, <4>1, Zenon
      <4> HIDE DEF h
      <4>3. QED
        BY <3>1, <4>1, <4>2
    <3>3. CASE ~(k <= m)
      <4>1. k # 0 /\ k = m + 1 /\ k - 1 = m /\ h[k] = last
        BY <2>2, <3>3
      <4> HIDE DEF h
      <4>2. QED
        BY <3>1, <4>1 DEF last
    <3>4. QED
      BY <3>2, <3>3
  <2>4. h = [k \in 0..(m + 1) |-> h[k]]
    OBVIOUS
  <2> HIDE DEF h
  <2>5. Solves(h, m + 1)
    BY <2>3, <2>4
  <2> HIDE DEF Solves
  <2>6. QED
    BY <2>2, <2>5
<1>5. n \in Good
  <2> HIDE DEF Good
  <2>1. n \in 0..n
    BY <1>1
  <2>2. QED
    BY <1>1, <1>3, <1>4, <2>1, UpTo
<1>6. Solves(g, n)
  <2>1. \E f : Solves(f, n)
    BY <1>5
  <2> HIDE DEF Solves
  <2>2. QED
    BY <2>1, Zenon
<1>7. \A k \in 0..n : g[k] = IF k = 0 THEN <<>>
                             ELSE AfterHappening(g[k - 1], trace[k], trace[k + 1])
  BY <1>6, Zenon
<1> DEFINE Right == {k \in Nat : Instants(g[k])}
<1> HIDE DEF g
<1>8. 0 \in Right
  <2>1. g[0] = <<>>
    BY <1>1, <1>7
  <2>2. Len(<<>>) = 0 /\ <<>> = [k \in 1..0 |-> <<>>[k]]
    OBVIOUS
  <2>3. Listed(<<>>)
    BY <2>2 DEF Listed
  <2>4. Instants(<<>>)
    <3>1. \A i : i \notin 1..Len(<<>>)
      BY <2>2
    <3>2. QED
      BY <2>3, <3>1, Zenon DEF Instants
  <2>5. QED
    BY <2>1, <2>4
<1>9. ASSUME NEW k \in 0..(n - 1), k \in Right
      PROVE  k + 1 \in Right
  <2>1. /\ k + 1 \in 0..n /\ k + 1 # 0 /\ (k + 1) - 1 = k /\ k + 1 \in Nat
        /\ k + 1 \in 1..(n + 1) /\ k + 1 + 1 \in 1..(n + 1)
    BY <1>1
  <2>2. g[k + 1] = AfterHappening(g[k], trace[k + 1], trace[k + 1 + 1])
    BY <1>7, <2>1
  <2>3. Runs(trace[k + 1]) /\ Runs(trace[k + 1 + 1])
    BY <1>1, <2>1
  <2>4. Instants(g[k + 1])
    BY <1>9, <2>2, <2>3, HappenedIs
  <2>5. QED
    BY <2>1, <2>4
<1>10. n \in Right
  <2> HIDE DEF Right
  <2>1. n \in 0..n
    BY <1>1
  <2>2. QED
    BY <1>1, <1>8, <1>9, <2>1, UpTo
<1>11. QED
  BY <1>2, <1>10

----------------------------------------------------------------------------
(* buildPartialOrder                                                       *)

\* What is ordered: two instants, of different steps.
Ordering(x, pairs) ==
    \A p \in pairs : \E a, b \in 1..Len(x) : p = <<a, b>> /\ x[a].step # x[b].step

LEMMA OrderedIs ==
    ASSUME Instants(instants), BuildPartialOrder
    PROVE  Ordering(instants, order')
<1>1. DOMAIN instants = 1..Len(instants) /\ Len(instants) \in Nat
  BY DEF Instants, Listed
<1>2. order' = UNION {OrderOf(i) : i \in DOMAIN instants}
  BY DEF BuildPartialOrder
<1> SUFFICES ASSUME NEW i \in 1..Len(instants), NEW p \in OrderOf(i)
             PROVE  \E a, b \in 1..Len(instants) :
                        p = <<a, b>> /\ instants[a].step # instants[b].step
  BY <1>1, <1>2 DEF Ordering
<1>3. \A k \in Before(i) : k \in 1..Len(instants) /\ instants[k].step # instants[i].step
  BY <1>1 DEF Before
<1>4. CASE p \in OverallOrder(i)
  <2> DEFINE touches == {k \in DOMAIN instants :
                 /\ instants[k].step # instants[i].step
                 /\ \E c \in instants[i].overall : \E e \in instants[k].effects : e.var = c.var}
  <2>1. \E k \in touches : p = <<k, i>> \/ p = <<i, k>>
    BY <1>4, Zenon DEF OverallOrder
  <2>2. \A k \in touches : k \in 1..Len(instants) /\ instants[k].step # instants[i].step
    BY <1>1
  <2> HIDE DEF touches
  <2>3. QED
    BY <2>1, <2>2
<1>5. CASE p \notin OverallOrder(i)
  <2> DEFINE K == (UNION {Achievers(i, c) : c \in instants[i].preconditions})
                      \cup Threatened(i) \cup Destroyers(i)
  <2>1. \E k \in K : p = <<k, i>>
    BY <1>5, Zenon DEF OrderOf
  <2>2. \A k \in K : k \in Before(i)
    <3>1. \A c : Achievers(i, c) \subseteq Before(i)
      BY DEF Achievers
    <3>2. Threatened(i) \subseteq Before(i) /\ Destroyers(i) \subseteq Before(i)
      BY DEF Threatened, Destroyers
    <3>3. QED
      BY <3>1, <3>2
  <2> HIDE DEF K
  <2>3. QED
    BY <1>3, <2>1, <2>2
<1>6. QED
  BY <1>4, <1>5

----------------------------------------------------------------------------
(* createAndSolveSTN: the network                                          *)

Nets(n) ==
    {s \in [n : {n}, matrix : Matrices(n), arcs : SUBSET ((0..n) \X (0..n))] :
        Connected(s.arcs, s.matrix, n)}

LEMMA UnconstrainedIs ==
    ASSUME NEW n \in Nat
    PROVE  Unconstrained(n) \in Nets(n + 1)
<1> DEFINE m == [e \in Square(n + 1) |-> IF e[1] = e[2] THEN 0 ELSE INF]
<1>1. Unconstrained(n) = [n |-> n + 1, matrix |-> m, arcs |-> {}]
  BY Zenon DEF Unconstrained, Square
<1>2. \A i, j \in 1..(n + 1) : m[<<i, j>>] = IF i = j THEN 0 ELSE INF
  BY DEF Square
<1>3. m \in [Square(n + 1) -> Int]
  BY InfIs
<1> HIDE DEF m
<1>4. m \in Matrices(n + 1)
  BY <1>2, <1>3, InfIs DEF Matrices
<1>5. Connected({}, m, n + 1)
  BY <1>2 DEF Connected
<1>6. QED
  BY <1>1, <1>4, <1>5 DEF Nets

LEMMA SetDistanceIs ==
    ASSUME NEW n, NEW m, NEW arcs, NEW i, NEW j, NEW d
    PROVE  SetDistance([n |-> n, matrix |-> m, arcs |-> arcs], i, j, d) =
               [n |-> n, matrix |-> [m EXCEPT ![<<i, j>>] = d], arcs |-> arcs \cup {<<i, j>>}]
<1> DEFINE s == [n |-> n, matrix |-> m, arcs |-> arcs]
           e == <<i, j>>
           r == [s EXCEPT !.matrix[e] = d, !.arcs = @ \cup {e}]
<1>1. SetDistance(s, i, j, d) = r
  BY Zenon DEF SetDistance
<1>2. r = [x \in {"n", "matrix", "arcs"} |-> r[x]]
  <2> HIDE DEF e
  <2>1. QED
    OBVIOUS
<1>3. r.n = n /\ r.matrix = [m EXCEPT ![e] = d] /\ r.arcs = arcs \cup {e}
  <2> HIDE DEF e
  <2>1. QED
    OBVIOUS
<1> HIDE DEF r
<1>4. r = [n |-> n, matrix |-> [m EXCEPT ![e] = d], arcs |-> arcs \cup {e}]
  <2> HIDE DEF e
  <2>1. QED
    BY <1>2, <1>3
<1>5. QED
  BY <1>1, <1>4, Zenon

\* Setting an interval changes two distances, in this order.
LEMMA SetIntervalIs ==
    ASSUME NEW n \in Nat, NEW s \in Nets(n), NEW from \in 0..n, NEW to \in 0..n,
           NEW lower \in Int, NEW upper \in Int, upper <= INF, 0 - lower <= INF
    PROVE  LET r == SetInterval(s, from, to, lower, upper)
           IN  /\ r \in Nets(n)
               /\ \A i, j \in 1..n :
                     r.matrix[<<i, j>>] = IF i = to /\ j = from THEN 0 - lower
                                          ELSE IF i = from /\ j = to THEN upper
                                          ELSE s.matrix[<<i, j>>]
<1> DEFINE m == [s.matrix EXCEPT ![<<from, to>>] = upper]
           q == [m EXCEPT ![<<to, from>>] = 0 - lower]
           arcs == s.arcs \cup {<<from, to>>} \cup {<<to, from>>}
           r == SetInterval(s, from, to, lower, upper)
<1>1. /\ s.matrix \in [Square(n) -> Int] /\ \A i, j \in 1..n : s.matrix[<<i, j>>] <= INF
      /\ s.arcs \in SUBSET ((0..n) \X (0..n)) /\ s.n = n
      /\ s = [n |-> s.n, matrix |-> s.matrix, arcs |-> s.arcs]
      /\ Connected(s.arcs, s.matrix, n)
  BY DEF Nets, Matrices
<1>2. r = [n |-> n, matrix |-> q, arcs |-> arcs]
  <2>1. s = [n |-> n, matrix |-> s.matrix, arcs |-> s.arcs]
    BY <1>1
  <2>2. SetDistance([n |-> n, matrix |-> s.matrix, arcs |-> s.arcs], from, to, upper) =
            [n |-> n, matrix |-> m, arcs |-> s.arcs \cup {<<from, to>>}]
    <3> DEFINE M == s.matrix
               A == s.arcs
    <3> HIDE DEF M, A
    <3>1. SetDistance([n |-> n, matrix |-> M, arcs |-> A], from, to, upper) =
              [n |-> n, matrix |-> [M EXCEPT ![<<from, to>>] = upper],
               arcs |-> A \cup {<<from, to>>}]
      BY SetDistanceIs
    <3>2. QED
      BY <3>1 DEF M, A
  <2>3. r = SetDistance([n |-> n, matrix |-> m, arcs |-> s.arcs \cup {<<from, to>>}],
                        to, from, 0 - lower)
    <3>1. -lower = 0 - lower
      OBVIOUS
    <3> HIDE DEF m
    <3>2. QED
      BY <2>1, <2>2, <3>1, Zenon DEF SetInterval
  <2> HIDE DEF m
  <2>4. QED
    <3> DEFINE A == s.arcs \cup {<<from, to>>}
               lowest == 0 - lower
    <3> HIDE DEF A, lowest, r
    <3>1. SetDistance([n |-> n, matrix |-> m, arcs |-> A], to, from, lowest) =
              [n |-> n, matrix |-> [m EXCEPT ![<<to, from>>] = lowest],
               arcs |-> A \cup {<<to, from>>}]
      BY SetDistanceIs
    <3>2. QED
      BY <2>3, <3>1 DEF A, lowest
<1>3. q \in [Square(n) -> Int]
  <2>1. m \in [Square(n) -> Int]
    BY <1>1
  <2>2. 0 - lower \in Int
    OBVIOUS
  <2> HIDE DEF m
  <2>3. QED
    BY <2>1, <2>2
<1>4. \A i, j \in 1..n :
         q[<<i, j>>] = IF i = to /\ j = from THEN 0 - lower
                       ELSE IF i = from /\ j = to THEN upper ELSE s.matrix[<<i, j>>]
  <2>1. \A i, j \in 1..n : m[<<i, j>>] = IF i = from /\ j = to THEN upper ELSE s.matrix[<<i, j>>]
    BY <1>1 DEF Square
  <2>2. m \in [Square(n) -> Int]
    BY <1>1
  <2> HIDE DEF m
  <2>3. QED
    BY <2>1, <2>2 DEF Square
<1> HIDE DEF q
<1>5. q \in Matrices(n)
  BY <1>1, <1>3, <1>4 DEF Matrices
<1>6. Connected(arcs, q, n)
  <2> DEFINE M == s.matrix
             A == s.arcs
  <2>1. /\ Connected(A, M, n)
        /\ \A i, j : <<i, j>> \in arcs <=> \/ <<i, j>> \in A
                                           \/ (i = to /\ j = from) \/ (i = from /\ j = to)
        /\ \A i, j \in 1..n : \/ q[<<i, j>>] = M[<<i, j>>]
                              \/ (i = to /\ j = from) \/ (i = from /\ j = to)
    <3>1. \A i, j : <<i, j>> \in arcs <=> \/ <<i, j>> \in A
                                           \/ (i = to /\ j = from) \/ (i = from /\ j = to)
      OBVIOUS
    <3>2. QED
      BY <1>1, <1>4, <3>1
  <2> HIDE DEF M, A, arcs
  <2>2. QED
    BY <2>1 DEF Connected
<1>7. arcs \in SUBSET ((0..n) \X (0..n))
  BY <1>1
<1> HIDE DEF arcs
<1>8. r \in Nets(n) /\ r.matrix = q
  BY <1>2, <1>5, <1>6, <1>7 DEF Nets
<1> HIDE DEF r
<1>9. QED
  BY <1>4, <1>8 DEF r

\* These actions start after X0 (node n) and take their durations.
DurationsKept(m, x, n, starts) ==
    \A s \in starts : x[s].type = "start" =>
        /\ m[<<s, n>>] = 0
        /\ x[s].endAction # 0 => /\ m[<<s, x[s].endAction>>] = Duration[x[s].op]
                                 /\ m[<<x[s].endAction, s>>] = 0 - Duration[x[s].op]

LEMMA ConstrainedIs ==
    ASSUME Instants(instants), NEW i \in 1..Len(instants),
           NEW s \in Nets(Len(instants) + 1)
    PROVE  /\ Constrained(s, i) \in Nets(Len(instants) + 1)
           /\ DurationsKept(s.matrix, instants, Len(instants) + 1, 1..(i - 1)) =>
                 DurationsKept(Constrained(s, i).matrix, instants, Len(instants) + 1, 1..i)
<1> DEFINE L == Len(instants)
           n == L + 1
           x == instants[i]
           D == Duration[x.op]
           t == SetInterval(s, n, i, 0, INF)
           r == SetInterval(t, i, x.endAction, D, D)
<1>1. L \in Nat /\ n \in Nat /\ i \in 1..L /\ i \in 0..n /\ n \in 0..n
  BY DEF Instants, Listed
<1>2. \A k \in 1..L : /\ instants[k].op \in Op /\ instants[k].endAction \in 0..L
                      /\ instants[k].type \in {"start", "end"}
                      /\ instants[k].type = "start" /\ instants[k].endAction # 0 =>
                            instants[instants[k].endAction].type = "end"
  BY DEF Instants
<1>3. CASE x.type = "end"
  <2>1. Constrained(s, i) = s
    BY <1>3 DEF Constrained
  <2>2. \A k \in 1..i : k \in 1..(i - 1) \/ k = i
    BY <1>1
  <2>3. \A k \in 1..i : instants[k].type = "start" => k \in 1..(i - 1)
    BY <1>3, <2>2
  <2>4. QED
    BY <2>1, <2>3, Zenon DEF DurationsKept
<1>4. CASE x.type = "start"
  <2>1. s.n = n
    BY DEF Nets
  <2>2. Constrained(s, i) = r
    <3>1. Constrained(s, i) = SetSingletonInterval(SetUnboundedIntervalFromXZero(s, i, 0),
                                                   i, x.endAction, D)
      BY <1>4, Zenon DEF Constrained
    <3>2. SetUnboundedIntervalFromXZero(s, i, 0) = t
      BY <2>1, Zenon DEF SetUnboundedIntervalFromXZero, SetUnboundedInterval, XZero
    <3> HIDE DEF t, x, D
    <3>3. QED
      BY <3>1, <3>2, Zenon DEF SetSingletonInterval
  <2>3. D \in Nat /\ D <= INF /\ 0 - D <= INF /\ D \in Int /\ x.endAction \in 0..L
    <3>1. x.op \in Op /\ x.endAction \in 0..L
      BY <1>2
    <3>2. D \in Nat /\ D <= INF
      BY <3>1, TaskAssumption, DurationsFit, InfIs
    <3> HIDE DEF D, x
    <3>3. QED
      BY <3>1, <3>2, InfIs
  <2>4. /\ t \in Nets(n)
        /\ \A a, b \in 1..n :
              t.matrix[<<a, b>>] = IF a = i /\ b = n THEN 0 - 0
                                   ELSE IF a = n /\ b = i THEN INF ELSE s.matrix[<<a, b>>]
    <3>1. 0 \in Int /\ INF \in Int /\ INF <= INF /\ 0 - 0 <= INF
      BY InfIs
    <3>2. s \in Nets(n)
      OBVIOUS
    <3>3. n \in Nat /\ i \in 0..n /\ n \in 0..n
      BY <1>1
    <3> HIDE DEF n, x, D
    <3>4. QED
      BY <3>1, <3>2, <3>3, SetIntervalIs
  <2>5. x.endAction \in 0..n
    BY <1>1, <2>3
  <2> HIDE DEF D, t
  <2>6. /\ r \in Nets(n)
        /\ \A a, b \in 1..n :
              r.matrix[<<a, b>>] = IF a = x.endAction /\ b = i THEN 0 - D
                                   ELSE IF a = i /\ b = x.endAction THEN D
                                   ELSE t.matrix[<<a, b>>]
    <3> HIDE DEF n, x
    <3>1. QED
      BY <1>1, <2>3, <2>4, <2>5, SetIntervalIs
  <2>7. \A a, b \in 1..n :
           r.matrix[<<a, b>>] = IF a = x.endAction /\ b = i THEN 0 - D
                                ELSE IF a = i /\ b = x.endAction THEN D
                                ELSE IF a = i /\ b = n THEN 0
                                ELSE IF a = n /\ b = i THEN INF ELSE s.matrix[<<a, b>>]
    <3>0. 0 - 0 = 0
      OBVIOUS
    <3> HIDE DEF r, n, x
    <3> SUFFICES ASSUME NEW a \in 1..n, NEW b \in 1..n
                 PROVE  r.matrix[<<a, b>>] =
                            IF a = x.endAction /\ b = i THEN 0 - D
                            ELSE IF a = i /\ b = x.endAction THEN D
                            ELSE IF a = i /\ b = n THEN 0
                            ELSE IF a = n /\ b = i THEN INF ELSE s.matrix[<<a, b>>]
      OBVIOUS
    <3>1. r.matrix[<<a, b>>] = IF a = x.endAction /\ b = i THEN 0 - D
                               ELSE IF a = i /\ b = x.endAction THEN D
                               ELSE t.matrix[<<a, b>>]
      BY <2>6
    <3>2. t.matrix[<<a, b>>] = IF a = i /\ b = n THEN 0
                               ELSE IF a = n /\ b = i THEN INF ELSE s.matrix[<<a, b>>]
      BY <2>4, <3>0
    <3>3. QED
      BY <3>1, <3>2, Zenon
  <2> HIDE DEF r
  <2>8. ASSUME DurationsKept(s.matrix, instants, n, 1..(i - 1)),
               NEW k \in 1..i, instants[k].type = "start"
        PROVE  /\ r.matrix[<<k, n>>] = 0
               /\ instants[k].endAction # 0 =>
                     /\ r.matrix[<<k, instants[k].endAction>>] = Duration[instants[k].op]
                     /\ r.matrix[<<instants[k].endAction, k>>] = 0 - Duration[instants[k].op]
    <3> DEFINE e == instants[k].endAction
    <3>1. k \in 1..L /\ k # n /\ k \in 1..n /\ n \in 1..n
      BY <1>1
    <3>2. e \in 0..L /\ e # n /\ (e # 0 => e \in 1..n)
      BY <1>1, <1>2, <3>1
    <3>3. x.endAction # n /\ x.endAction \in 0..L /\ i # n
      BY <1>1, <2>3
    <3>4. CASE k = i
      <4>1. e = x.endAction /\ e # i
        <5>1. e # 0 => instants[e].type = "end"
          BY <1>2, <2>8, <3>1
        <5>2. e = i => FALSE
          BY <1>1, <1>4, <5>1
        <5>3. QED
          BY <3>4, <5>2
      <4>2. Duration[instants[k].op] = D
        BY <3>4 DEF D
      <4> HIDE DEF x, n
      <4>3. r.matrix[<<i, n>>] = 0
        BY <2>7, <3>1, <3>3, <3>4
      <4>4. e # 0 => r.matrix[<<i, e>>] = D /\ r.matrix[<<e, i>>] = 0 - D
        <5> HIDE DEF e
        <5>1. QED
          BY <2>7, <3>1, <3>2, <3>4, <4>1
      <4>5. QED
        BY <3>4, <4>2, <4>3, <4>4, Zenon
    <3>5. CASE k # i
      <4>1. k \in 1..(i - 1)
        BY <1>1, <3>5
      <4>2. /\ s.matrix[<<k, n>>] = 0
            /\ e # 0 => /\ s.matrix[<<k, e>>] = Duration[instants[k].op]
                        /\ s.matrix[<<e, k>>] = 0 - Duration[instants[k].op]
        BY <2>8, <4>1 DEF DurationsKept
      <4>3. r.matrix[<<k, n>>] = 0
        <5> HIDE DEF x, n
        <5>1. QED
          BY <2>7, <3>1, <3>3, <3>5, <4>2
      <4>4. e # 0 => /\ e # i
                     /\ k # x.endAction
        <5>1. e # 0 => e # i
          BY <1>2, <1>4, <2>8, <3>1
        <5>2. x.endAction # k
          <6>1. k # 0
            BY <3>1
          <6>2. x.endAction # 0 => instants[x.endAction].type = "end"
            BY <1>2, <1>4
          <6>3. QED
            BY <2>8, <6>1, <6>2
        <5>3. QED
          BY <5>1, <5>2
      <4>5. e # 0 => /\ r.matrix[<<k, e>>] = s.matrix[<<k, e>>]
                     /\ r.matrix[<<e, k>>] = s.matrix[<<e, k>>]
        <5> HIDE DEF x, n, e
        <5>1. QED
          BY <2>7, <3>1, <3>2, <3>5, <4>4
      <4>6. QED
        BY <4>2, <4>3, <4>5
    <3>6. QED
      BY <3>4, <3>5
  <2>9. DurationsKept(s.matrix, instants, n, 1..(i - 1)) =>
           DurationsKept(r.matrix, instants, n, 1..i)
    BY <2>8 DEF DurationsKept
  <2>10. QED
    BY <2>2, <2>6, <2>9
<1>5. QED
  BY <1>2, <1>3, <1>4

LEMMA DurationsIs ==
    ASSUME Instants(instants)
    PROVE  /\ Durations \in Nets(Len(instants) + 1)
           /\ DurationsKept(Durations.matrix, instants, Len(instants) + 1, 1..Len(instants))
<1> DEFINE L == Len(instants)
           T == Nets(L + 1)
           base == Unconstrained(L)
           step == [x \in (1..L) \X T |-> Constrained(x[2], x[1])]
           Solves(f) == f = [i \in 0..Len(instants) |->
               IF i = 0 THEN Unconstrained(Len(instants)) ELSE Constrained(f[i - 1], i)]
<1>1. L \in Nat
  BY DEF Instants, Listed
<1>2. base \in T
  <2> HIDE DEF L
  <2>1. QED
    BY <1>1, UnconstrainedIs DEF T, base
<1>3. ASSUME NEW i \in 1..L, NEW t \in T
      PROVE  /\ Constrained(t, i) \in T
             /\ DurationsKept(t.matrix, instants, L + 1, 1..(i - 1)) =>
                   DurationsKept(Constrained(t, i).matrix, instants, L + 1, 1..i)
  BY ConstrainedIs
<1>4. step \in [(1..L) \X T -> T] /\ \A i \in 1..L : \A t \in T : step[<<i, t>>] = Constrained(t, i)
  <2> HIDE DEF T, L
  <2>1. QED
    BY <1>3
<1>5. PICK f \in [0..L -> T] : IsLoop(f, L, base, step)
  <2> HIDE DEF step, L, T, base
  <2>1. QED
    BY <1>1, <1>2, <1>4, Iterates
<1>6. \A i \in 0..L : f[i] = IF i = 0 THEN base ELSE Constrained(f[i - 1], i)
  <2> TAKE i \in 0..L
  <2>1. f[i] = IF i = 0 THEN base ELSE step[<<i, f[i - 1]>>]
    BY <1>5, Zenon DEF IsLoop
  <2> HIDE DEF T, L, step, base
  <2>2. i # 0 => i \in 1..L /\ i - 1 \in 0..L
    BY <1>1
  <2>3. i # 0 => f[i - 1] \in T
    BY <1>5, <2>2
  <2>4. QED
    BY <1>4, <2>1, <2>2, <2>3
<1>7. Solves(f)
  <2>1. f = [i \in 0..L |-> f[i]]
    BY <1>5
  <2>2. QED
    BY <1>6, <2>1, Zenon
<1> DEFINE g == CHOOSE h : Solves(h)
<1>8. Durations = g[L]
  BY Zenon DEF Durations
<1>9. Solves(g)
  <2> HIDE DEF Solves
  <2>1. QED
    BY <1>7, Zenon
<1>10. \A i \in 0..L : g[i] = IF i = 0 THEN base ELSE Constrained(g[i - 1], i)
  BY <1>9, Zenon
<1> HIDE DEF g
<1> DEFINE Good == {i \in Nat : g[i] \in T /\ DurationsKept(g[i].matrix, instants, L + 1, 1..i)}
<1>11. 0 \in Good
  <2>1. g[0] = base
    BY <1>1, <1>10
  <2>2. \A m : DurationsKept(m, instants, L + 1, 1..0)
    BY DEF DurationsKept
  <2> HIDE DEF T, base, L
  <2>3. QED
    BY <1>2, <2>1, <2>2
<1>12. ASSUME NEW i \in 0..(L - 1), i \in Good
       PROVE  i + 1 \in Good
  <2>1. i + 1 \in 1..L /\ i + 1 \in 0..L /\ (i + 1) - 1 = i /\ i + 1 \in Nat /\ i + 1 # 0
    BY <1>1
  <2>2. g[i + 1] = Constrained(g[i], i + 1)
    BY <1>10, <2>1
  <2> HIDE DEF T, L
  <2>3. g[i] \in T /\ DurationsKept(g[i].matrix, instants, L + 1, 1..((i + 1) - 1))
    BY <1>12, <2>1
  <2> HIDE DEF Good
  <2>4. g[i + 1] \in T /\ DurationsKept(g[i + 1].matrix, instants, L + 1, 1..(i + 1))
    BY <1>3, <2>1, <2>2, <2>3
  <2>5. QED
    BY <2>1, <2>4 DEF Good
<1>13. L \in Good
  <2> HIDE DEF Good, L
  <2>1. L \in 0..L
    BY <1>1
  <2>2. QED
    BY <1>1, <1>11, <1>12, <2>1, UpTo
<1>14. QED
  <2> HIDE DEF L, T
  <2>1. g[L] \in T /\ DurationsKept(g[L].matrix, instants, L + 1, 1..L)
    BY <1>13
  <2>2. QED
    BY <1>8, <2>1 DEF L, T

\* Where of two instants only one has to come first, it comes first: of the pairs
\* of the order, one after the other, up to the j-th of those that begin with i.
OrderKept(m, n, pairs, i, j) ==
    \A a, b \in 1..n :
        <<a, b>> \in pairs /\ <<b, a>> \notin pairs /\ (a < i \/ (a = i /\ b <= j)) =>
            m[<<b, a>>] = 0 - Eps

\* The networks of n nodes in which the actions take their durations and so much
\* of the order is kept.
KeepingNets(n, x, pairs, i, j) ==
    {s \in Nets(n) : /\ DurationsKept(s.matrix, x, n, 1..Len(x))
                     /\ OrderKept(s.matrix, n, pairs, i, j)}

LEMMA SeparatedIs ==
    ASSUME Instants(instants), Ordering(instants, order),
           NEW i \in 1..Len(instants), NEW j \in 1..Len(instants), <<i, j>> \in order,
           NEW s \in Nets(Len(instants) + 1)
    PROVE  /\ Separated(s, <<i, j>>) \in Nets(Len(instants) + 1)
           /\ s \in KeepingNets(Len(instants) + 1, instants, order, i, j - 1) =>
                 Separated(s, <<i, j>>) \in KeepingNets(Len(instants) + 1, instants, order, i, j)
<1> DEFINE L == Len(instants)
           n == L + 1
           r == SetInterval(s, i, j, Eps, INF)
<1>1. L \in Nat /\ n \in Nat /\ i \in 1..L /\ j \in 1..L /\ i \in 0..n /\ j \in 0..n
  BY DEF Instants, Listed
<1>2. Separated(s, <<i, j>>) = r
  <2>1. <<i, j>>[1] = i /\ <<i, j>>[2] = j
    OBVIOUS
  <2>2. QED
    BY <2>1, Zenon DEF Separated, SetUnboundedInterval
<1>3. Eps \in Nat /\ Eps \in Int /\ INF \in Int /\ INF <= INF /\ 0 - Eps <= INF
  BY InfIs, ReschedulingAssumption
<1>4. /\ r \in Nets(n)
      /\ \A a, b \in 1..n :
            r.matrix[<<a, b>>] = IF a = j /\ b = i THEN 0 - Eps
                                 ELSE IF a = i /\ b = j THEN INF ELSE s.matrix[<<a, b>>]
  <2>1. s \in Nets(n)
    OBVIOUS
  <2> HIDE DEF n
  <2>2. QED
    BY <1>1, <1>3, <2>1, SetIntervalIs, InfAssumption
<1>5. instants[i].step # instants[j].step
  <2>1. PICK a, b \in 1..L : <<i, j>> = <<a, b>> /\ instants[a].step # instants[b].step
    BY DEF Ordering
  <2>2. QED
    BY <2>1
<1> HIDE DEF r
<1>6. ASSUME DurationsKept(s.matrix, instants, n, 1..L)
      PROVE  DurationsKept(r.matrix, instants, n, 1..L)
  <2> SUFFICES ASSUME NEW k \in 1..L, instants[k].type = "start"
               PROVE  /\ r.matrix[<<k, n>>] = 0
                      /\ instants[k].endAction # 0 =>
                         /\ r.matrix[<<k, instants[k].endAction>>] = Duration[instants[k].op]
                         /\ r.matrix[<<instants[k].endAction, k>>] = 0 - Duration[instants[k].op]
    BY DEF DurationsKept
  <2> DEFINE e == instants[k].endAction
  <2>1. /\ s.matrix[<<k, n>>] = 0
        /\ e # 0 => /\ s.matrix[<<k, e>>] = Duration[instants[k].op]
                    /\ s.matrix[<<e, k>>] = 0 - Duration[instants[k].op]
    BY <1>6 DEF DurationsKept
  <2>2. e \in 0..L /\ (e # 0 => instants[e].step = instants[k].step)
    BY DEF Instants
  <2>3. e # 0 => e \in 1..n /\ ~(k = j /\ e = i) /\ ~(k = i /\ e = j)
    BY <1>1, <1>5, <2>2
  <2>4. k \in 1..n /\ n \in 1..n /\ n # i /\ n # j
    BY <1>1
  <2>5. r.matrix[<<k, n>>] = 0
    <3> HIDE DEF n
    <3>1. QED
      BY <1>4, <2>1, <2>4
  <2>6. e # 0 => /\ r.matrix[<<k, e>>] = s.matrix[<<k, e>>]
                 /\ r.matrix[<<e, k>>] = s.matrix[<<e, k>>]
    <3> HIDE DEF n, e
    <3>1. QED
      BY <1>4, <2>3, <2>4
  <2>7. QED
    BY <2>1, <2>5, <2>6
<1>7. ASSUME OrderKept(s.matrix, n, order, i, j - 1)
      PROVE  OrderKept(r.matrix, n, order, i, j)
  <2> SUFFICES ASSUME NEW a \in 1..n, NEW b \in 1..n, <<a, b>> \in order, <<b, a>> \notin order,
                      a < i \/ (a = i /\ b <= j)
               PROVE  r.matrix[<<b, a>>] = 0 - Eps
    BY DEF OrderKept
  <2>1. ~(b = i /\ a = j)
    OBVIOUS
  <2>2. CASE a = i /\ b = j
    BY <1>4, <2>2
  <2>3. CASE ~(a = i /\ b = j)
    <3>1. a < i \/ (a = i /\ b <= j - 1)
      BY <1>1, <2>3
    <3>2. s.matrix[<<b, a>>] = 0 - Eps
      BY <1>7, <3>1 DEF OrderKept
    <3>3. QED
      BY <1>4, <2>1, <2>3, <3>2
  <2>4. QED
    BY <2>2, <2>3
<1>8. QED
  <2> HIDE DEF L, n
  <2>1. s \in KeepingNets(n, instants, order, i, j - 1) => r \in KeepingNets(n, instants, order, i, j)
    <3>1. L = Len(instants)
      BY DEF L
    <3>2. QED
      BY <1>4, <1>6, <1>7, <3>1 DEF KeepingNets
  <2>2. QED
    BY <1>2, <1>4, <2>1 DEF n, L

LEMMA SeparatedFromIs ==
    ASSUME Instants(instants), Ordering(instants, order), NEW i \in 1..Len(instants),
           NEW s \in Nets(Len(instants) + 1)
    PROVE  /\ SeparatedFrom(s, i) \in Nets(Len(instants) + 1)
           /\ s \in KeepingNets(Len(instants) + 1, instants, order, i, 0) =>
                 SeparatedFrom(s, i)
                     \in KeepingNets(Len(instants) + 1, instants, order, i, Len(instants))
<1> DEFINE L == Len(instants)
           T == Nets(L + 1)
           K(j) == KeepingNets(L + 1, instants, order, i, j)
           Round(j, t) == IF <<i, j>> \in order THEN Separated(t, <<i, j>>) ELSE t
           step == [x \in (1..L) \X T |-> Round(x[1], x[2])]
           Solves(f) == f = [j \in 0..Len(instants) |->
               IF j = 0 THEN s
               ELSE IF <<i, j>> \in order THEN Separated(f[j - 1], <<i, j>>) ELSE f[j - 1]]
<1>1. L \in Nat
  BY DEF Instants, Listed
<1>2. ASSUME NEW j \in 1..L, NEW t \in T
      PROVE  /\ Round(j, t) \in T
             /\ t \in K(j - 1) => Round(j, t) \in K(j)
  <2>1. CASE <<i, j>> \in order
    BY <2>1, SeparatedIs
  <2>2. CASE <<i, j>> \notin order
    <3>1. t \in K(j - 1) => t \in K(j)
      <4> SUFFICES ASSUME OrderKept(t.matrix, L + 1, order, i, j - 1)
                   PROVE  OrderKept(t.matrix, L + 1, order, i, j)
        BY DEF KeepingNets
      <4> SUFFICES ASSUME NEW a \in 1..(L + 1), NEW b \in 1..(L + 1),
                          <<a, b>> \in order, <<b, a>> \notin order,
                          a < i \/ (a = i /\ b <= j)
                   PROVE  t.matrix[<<b, a>>] = 0 - Eps
        BY DEF OrderKept
      <4>1. ~(a = i /\ b = j)
        BY <2>2
      <4>2. a < i \/ (a = i /\ b <= j - 1)
        BY <1>1, <4>1
      <4>3. QED
        BY <4>2 DEF OrderKept
    <3>2. QED
      BY <2>2, <3>1
  <2>3. QED
    BY <2>1, <2>2
<1>3. /\ step \in [(1..L) \X T -> T]
      /\ \A j \in 1..L : \A t \in T : step[<<j, t>>] = Round(j, t)
  <2>1. \A j \in 1..L : \A t \in T : Round(j, t) \in T
    BY <1>2
  <2> HIDE DEF T, L, Round
  <2>2. QED
    BY <2>1
<1>4. s \in T
  OBVIOUS
<1>5. PICK f \in [0..L -> T] : IsLoop(f, L, s, step)
  <2> HIDE DEF step, L, T
  <2>1. QED
    BY <1>1, <1>3, <1>4, Iterates
<1>6. \A j \in 0..L : f[j] = IF j = 0 THEN s ELSE Round(j, f[j - 1])
  <2> TAKE j \in 0..L
  <2>1. f[j] = IF j = 0 THEN s ELSE step[<<j, f[j - 1]>>]
    BY <1>5, Zenon DEF IsLoop
  <2> HIDE DEF T, L, step, Round
  <2>2. j # 0 => j \in 1..L /\ j - 1 \in 0..L
    BY <1>1
  <2>3. j # 0 => f[j - 1] \in T
    BY <1>5, <2>2
  <2>4. QED
    BY <1>3, <2>1, <2>2, <2>3
<1>7. Solves(f)
  <2>1. f = [j \in 0..L |-> f[j]]
    BY <1>5
  <2> HIDE DEF T
  <2>2. QED
    BY <1>6, <2>1
<1> DEFINE g == CHOOSE h : Solves(h)
<1>8. SeparatedFrom(s, i) = g[L]
  BY Zenon DEF SeparatedFrom
<1>9. Solves(g)
  <2> HIDE DEF Solves
  <2>1. QED
    BY <1>7, Zenon
<1>10. \A j \in 0..L : g[j] = IF j = 0 THEN s ELSE Round(j, g[j - 1])
  BY <1>9, Zenon
<1> HIDE DEF g
<1> DEFINE Good == {j \in Nat : g[j] \in T /\ (s \in K(0) => g[j] \in K(j))}
<1>11. 0 \in Good
  <2>1. g[0] = s
    BY <1>1, <1>10
  <2> HIDE DEF T, K, L
  <2>2. QED
    BY <1>4, <2>1
<1>12. ASSUME NEW j \in 0..(L - 1), j \in Good
       PROVE  j + 1 \in Good
  <2>1. j + 1 \in 1..L /\ j + 1 \in 0..L /\ (j + 1) - 1 = j /\ j + 1 \in Nat /\ j + 1 # 0
    BY <1>1
  <2> HIDE DEF T, L, K, Round
  <2>2. g[j + 1] = Round(j + 1, g[j])
    BY <1>10, <2>1
  <2>3. g[j] \in T /\ (s \in K(0) => g[j] \in K((j + 1) - 1))
    BY <1>12, <2>1
  <2>4. g[j + 1] \in T /\ (s \in K(0) => g[j + 1] \in K(j + 1))
    BY <1>2, <2>1, <2>2, <2>3
  <2>5. QED
    BY <2>1, <2>4
<1>13. L \in Good
  <2> HIDE DEF Good, L
  <2>1. L \in 0..L
    BY <1>1
  <2>2. QED
    BY <1>1, <1>11, <1>12, <2>1, UpTo
<1>14. QED
  <2>1. g[L] \in T /\ (s \in K(0) => g[L] \in K(L))
    BY <1>13
  <2>2. QED
    BY <1>8, <2>1, Zenon DEF L, T, K

LEMMA NetworkIs ==
    ASSUME Instants(instants), Ordering(instants, order)
    PROVE  Network \in KeepingNets(Len(instants) + 1, instants, order, Len(instants), Len(instants))
<1> DEFINE L == Len(instants)
           T == Nets(L + 1)
           K(i, j) == KeepingNets(L + 1, instants, order, i, j)
           step == [x \in (1..L) \X T |-> SeparatedFrom(x[2], x[1])]
           Solves(f) == f = [i \in 0..Len(instants) |->
               IF i = 0 THEN Durations ELSE SeparatedFrom(f[i - 1], i)]
<1>1. L \in Nat
  BY DEF Instants, Listed
<1>2. ASSUME NEW i \in 1..L, NEW t \in T
      PROVE  /\ SeparatedFrom(t, i) \in T
             /\ t \in K(i, 0) => SeparatedFrom(t, i) \in K(i, L)
  BY SeparatedFromIs
<1>3. Durations \in T /\ Durations \in K(0, L)
  <2>1. OrderKept(Durations.matrix, L + 1, order, 0, L)
    <3>1. \A a \in 1..(L + 1) : ~(a < 0) /\ a # 0
      BY <1>1
    <3>2. QED
      BY <3>1, Zenon DEF OrderKept
  <2>2. QED
    BY <2>1, DurationsIs DEF KeepingNets
<1>4. /\ step \in [(1..L) \X T -> T]
      /\ \A i \in 1..L : \A t \in T : step[<<i, t>>] = SeparatedFrom(t, i)
  <2>1. \A i \in 1..L : \A t \in T : SeparatedFrom(t, i) \in T
    BY <1>2
  <2> HIDE DEF T, L
  <2>2. QED
    BY <2>1
<1>5. PICK f \in [0..L -> T] : IsLoop(f, L, Durations, step)
  <2> HIDE DEF step, L, T
  <2>1. QED
    BY <1>1, <1>3, <1>4, Iterates
<1>6. \A i \in 0..L : f[i] = IF i = 0 THEN Durations ELSE SeparatedFrom(f[i - 1], i)
  <2> TAKE i \in 0..L
  <2>1. f[i] = IF i = 0 THEN Durations ELSE step[<<i, f[i - 1]>>]
    BY <1>5, Zenon DEF IsLoop
  <2> HIDE DEF T, L, step
  <2>2. i # 0 => i \in 1..L /\ i - 1 \in 0..L
    BY <1>1
  <2>3. i # 0 => f[i - 1] \in T
    BY <1>5, <2>2
  <2>4. QED
    BY <1>4, <2>1, <2>2, <2>3
<1>7. Solves(f)
  <2>1. f = [i \in 0..L |-> f[i]]
    BY <1>5
  <2> HIDE DEF T
  <2>2. QED
    BY <1>6, <2>1
<1> DEFINE g == CHOOSE h : Solves(h)
<1>8. Network = g[L]
  BY Zenon DEF Network
<1>9. Solves(g)
  <2> HIDE DEF Solves
  <2>1. QED
    BY <1>7, Zenon
<1>10. \A i \in 0..L : g[i] = IF i = 0 THEN Durations ELSE SeparatedFrom(g[i - 1], i)
  BY <1>9, Zenon
<1> HIDE DEF g
<1>11. ASSUME NEW i \in 1..L, NEW t \in K(i - 1, L)
       PROVE  t \in K(i, 0)
  <2> SUFFICES ASSUME OrderKept(t.matrix, L + 1, order, i - 1, L)
               PROVE  OrderKept(t.matrix, L + 1, order, i, 0)
    BY <1>11 DEF KeepingNets
  <2> SUFFICES ASSUME NEW a \in 1..(L + 1), NEW b \in 1..(L + 1),
                      <<a, b>> \in order, <<b, a>> \notin order,
                      a < i \/ (a = i /\ b <= 0)
               PROVE  t.matrix[<<b, a>>] = 0 - Eps
    BY DEF OrderKept
  <2>1. b \in 1..L
    BY DEF Ordering
  <2>2. a < i - 1 \/ (a = i - 1 /\ b <= L)
    BY <1>1, <2>1
  <2>3. QED
    BY <2>2 DEF OrderKept
<1> DEFINE Good == {i \in Nat : g[i] \in T /\ g[i] \in K(i, L)}
<1>12. 0 \in Good
  <2>1. g[0] = Durations
    BY <1>1, <1>10
  <2> HIDE DEF T, K, L
  <2>2. QED
    BY <1>3, <2>1
<1>13. ASSUME NEW i \in 0..(L - 1), i \in Good
       PROVE  i + 1 \in Good
  <2>1. i + 1 \in 1..L /\ i + 1 \in 0..L /\ (i + 1) - 1 = i /\ i + 1 \in Nat /\ i + 1 # 0
    BY <1>1
  <2> HIDE DEF T, L, K
  <2>2. g[i + 1] = SeparatedFrom(g[i], i + 1)
    BY <1>10, <2>1
  <2>3. g[i] \in T /\ g[i] \in K((i + 1) - 1, L)
    BY <1>13, <2>1
  <2>4. g[i] \in K(i + 1, 0)
    BY <1>11, <2>1, <2>3
  <2>5. g[i + 1] \in T /\ g[i + 1] \in K(i + 1, L)
    BY <1>2, <2>1, <2>2, <2>3, <2>4
  <2>6. QED
    BY <2>1, <2>5
<1>14. L \in Good
  <2> HIDE DEF Good, L
  <2>1. L \in 0..L
    BY <1>1
  <2>2. QED
    BY <1>1, <1>12, <1>13, <2>1, UpTo
<1>15. QED
  <2>1. g[L] \in K(L, L)
    BY <1>14
  <2>2. QED
    BY <1>8, <2>1, Zenon DEF L, K

----------------------------------------------------------------------------
(* The inductive invariant                                                 *)

\* What the network stands for: one node for each instant, and X0.
Size == Len(instants) + 1

Top == Network.matrix

\* makeGraphChordal adds arcs without a constraint.
ChordalInv ==
    /\ stn = [n |-> stn.n, matrix |-> stn.matrix, arcs |-> stn.arcs] /\ stn.n = Size
    /\ stn.matrix = Top
    /\ Connected(stn.arcs, Top, Size)
    /\ ordering \in Seq(1..Size) /\ Len(ordering) < Size
    /\ neighbors \in [1..Size -> Int]

\* solveWithP3C shortens distances and loses no times that keep the network.
SolvingInv ==
    /\ stn \in Solving(Size, stn.arcs, Top)
    /\ Connected(stn.arcs, Top, Size)
    /\ ordering \in Seq(1..Size) /\ Len(ordering) = Size

\* The distances before the first step of extractMinimalDistances.
AtStart ==
    /\ distances = [i \in 1..Size |-> IF i = Size THEN 0 ELSE INF]
    /\ queue = <<Size>>

\* extractMinimalDistances: the nodes that may still bring others closer to X0
\* are in the queue.
ExtractingInv ==
    /\ DistancesBound(distances, Size, Top)
    /\ queue \in Seq(1..Size)
    /\ \A j \in 1..Size : j \in Queued(queue) \/ Settled(stn, distances, j)

\* The stages from the one on that follows a function.
Solved == {"extractMinimalDistances", "done"}
Solving3C == {"performDPC", "tighten"}
Networked == {"makeGraphChordal", "aborted"} \cup Solving3C \cup Solved
Lifted == {"createSTN"} \cup Networked
Built == {"buildPartialOrder"} \cup Lifted

\* No times keep the network.
NoSchedule == \A t \in Times(Size) : ~Keep(t, Top, Size)

ScheduleInv ==
    /\ TraceRuns(trace)
    /\ stage \in Built => Instants(instants)
    /\ stage \in Lifted => Ordering(instants, order)
    /\ stage = "makeGraphChordal" => ChordalInv
    /\ stage \in Solving3C \cup Solved => SolvingInv
    /\ stage \in {"makeGraphChordal"} \cup Solving3C => AtStart
    /\ stage \in Solved => ExtractingInv
    /\ stage = "done" => queue = <<>>
    /\ stage = "aborted" => NoSchedule

LEMMA NetworkStays ==
    ASSUME instants' = instants, order' = order
    PROVE  Size' = Size /\ Top' = Top
<1>1. Network' = Network
  BY SMT DEF Network, Durations, Constrained, SeparatedFrom
<1>2. QED
  BY <1>1, Zenon DEF Size, Top

LEMMA TopIs ==
    ASSUME Instants(instants), Ordering(instants, order)
    PROVE  /\ Size \in Nat \ {0} /\ Network \in Nets(Size) /\ Top \in Matrices(Size)
           /\ Size = Len(instants) + 1 /\ Len(instants) \in Nat
           /\ DurationsKept(Top, instants, Size, 1..Len(instants))
           /\ OrderKept(Top, Size, order, Len(instants), Len(instants))
<1>1. Len(instants) \in Nat
  BY DEF Instants, Listed
<1>2. Network \in KeepingNets(Size, instants, order, Len(instants), Len(instants))
  BY NetworkIs DEF Size
<1>3. Size \in Nat \ {0}
  BY <1>1 DEF Size
<1>4. QED
  BY <1>1, <1>2, <1>3 DEF KeepingNets, Nets, Top, Size

\* A network is a tightening of itself.
LEMMA TopIsTightening ==
    ASSUME NEW n \in Nat, NEW top \in Matrices(n)
    PROVE  top \in Tightenings(n, top)
<1>1. \A i, j \in 1..n : top[<<i, j>>] \in Int
  BY DEF Matrices, Square
<1>2. \A i, j \in 1..n : top[<<i, j>>] <= top[<<i, j>>]
  <2> TAKE i, j \in 1..n
  <2> DEFINE x == top[<<i, j>>]
  <2>1. x \in Int
    BY <1>1
  <2> HIDE DEF x
  <2>2. x <= x
    BY <2>1
  <2>3. QED
    BY <2>2 DEF x
<1>3. QED
  BY <1>2 DEF Tightenings

\* The stages after which nothing but the branch is looked at.
LEMMA OtherStages ==
    ASSUME TraceRuns(trace'), stage' \in {"search", "buildInstantPlan", "saved", "epsilonize", "epsilonizeBest"}
    PROVE  ScheduleInv'
BY DEF ScheduleInv, Built, Lifted, Networked, Solving3C, Solved

LEMMA InitialTrace == TraceRuns(<<InitialState>>)
<1>1. InitialState.operators = {}
  BY Zenon DEF InitialState
<1>2. Runs(InitialState)
  BY <1>1, FS_EmptySet DEF Runs
<1>3. <<InitialState>> \in Seq({InitialState}) /\ <<InitialState>> # <<>>
  OBVIOUS
<1> DEFINE S == {InitialState}
<1>4. <<InitialState>> \in Seq(S) /\ \A s \in S : Runs(s)
  BY <1>2, <1>3
<1> HIDE DEF S
<1>5. QED
  BY <1>3, <1>4, Zenon DEF TraceRuns

LEMMA BranchKeepsInv ==
    ASSUME ScheduleInv, (\E o \in Op : StartOperator(o)) \/ PassTime \/ SolutionFound
    PROVE  ScheduleInv'
<1>1. TraceRuns(trace)
  BY DEF ScheduleInv
<1>2. CASE \E o \in Op : StartOperator(o)
  <2>1. PICK o \in Op : StartOperator(o)
    BY <1>2
  <2>2. trace' = Append(trace, ApplyOperator(Now, o)) /\ stage' = "search"
    BY <2>1 DEF StartOperator
  <2>3. TraceRuns(trace')
    BY <1>1, <2>2, NowRuns, RunsAfter, TraceGrows
  <2>4. QED
    BY <2>2, <2>3, OtherStages
<1>3. CASE PassTime
  <2>1. trace' = Append(trace, LetTimePass(Now, TRUE)) /\ stage' = "search"
    BY <1>3 DEF PassTime
  <2>2. TraceRuns(trace')
    BY <1>1, <2>1, NowRuns, RunsAfter, TraceGrows
  <2>3. QED
    BY <2>1, <2>2, OtherStages
<1>4. CASE SolutionFound
  <2>1. trace' = trace /\ stage' = "buildInstantPlan"
    BY <1>4 DEF SolutionFound
  <2>2. TraceRuns(trace')
    BY <1>1, <2>1
  <2>3. QED
    BY <2>1, <2>2, OtherStages
<1>5. QED
  BY <1>2, <1>3, <1>4

LEMMA LiftKeepsInv ==
    ASSUME ScheduleInv, BuildInstantPlan \/ BuildPartialOrder
    PROVE  ScheduleInv'
<1>1. TraceRuns(trace)
  BY DEF ScheduleInv
<1>2. CASE BuildInstantPlan
  <2>1. trace' = trace /\ stage' = "buildPartialOrder"
    BY <1>2 DEF BuildInstantPlan
  <2>2. TraceRuns(trace') /\ Instants(instants')
    BY <1>1, <1>2, <2>1, BuiltIs
  <2>3. QED
    BY <2>1, <2>2 DEF ScheduleInv, Built, Lifted, Networked, Solving3C, Solved
<1>3. CASE BuildPartialOrder
  <2>1. /\ trace' = trace /\ instants' = instants
        /\ stage = "buildPartialOrder" /\ stage' = "createSTN"
    BY <1>3 DEF BuildPartialOrder
  <2>2. Instants(instants)
    BY <2>1 DEF ScheduleInv, Built
  <2>3. Ordering(instants, order')
    BY <1>3, <2>2, OrderedIs
  <2>4. TraceRuns(trace') /\ Instants(instants') /\ Ordering(instants', order')
    BY <1>1, <2>1, <2>2, <2>3
  <2>5. QED
    BY <2>1, <2>4 DEF ScheduleInv, Built, Lifted, Networked, Solving3C, Solved
<1>4. QED
  BY <1>2, <1>3

LEMMA CreateKeepsInv ==
    ASSUME ScheduleInv, CreateSTN
    PROVE  ScheduleInv'
<1>1. /\ trace' = trace /\ instants' = instants /\ order' = order
      /\ stage = "createSTN" /\ stage' = "makeGraphChordal"
      /\ stn' = Network /\ ordering' = <<>> /\ neighbors' = NumberOfNeighbors(Network)
      /\ distances' = MinimalDistances(Network) /\ queue' = <<XZero(Network)>>
  BY DEF CreateSTN
<1>2. TraceRuns(trace) /\ Instants(instants) /\ Ordering(instants, order)
  BY <1>1 DEF ScheduleInv, Built, Lifted
<1>3. TraceRuns(trace') /\ Instants(instants') /\ Ordering(instants', order')
  BY <1>1, <1>2
<1>4. Size' = Size /\ Top' = Top
  BY <1>1, NetworkStays
<1>5. Size \in Nat \ {0} /\ Network \in Nets(Size) /\ Top = Network.matrix
  BY <1>2, TopIs DEF Top
<1>6. /\ Network = [n |-> Network.n, matrix |-> Network.matrix, arcs |-> Network.arcs]
      /\ Network.n = Size /\ Connected(Network.arcs, Top, Size)
  BY <1>5 DEF Nets
<1>7. NumberOfNeighbors(Network) \in [1..Size -> Int]
  <2> SUFFICES ASSUME NEW i \in 1..Size
               PROVE  Cardinality(Children(Network, i, {})) \in Int
    BY <1>6 DEF NumberOfNeighbors, Nodes
  <2>1. Children(Network, i, {}) \in SUBSET (1..Size)
    BY <1>6 DEF Children, Nodes
  <2>2. IsFiniteSet(1..Size)
    <3>1. 1 \in Int /\ Size \in Int
      BY <1>5
    <3>2. QED
      BY <3>1, FS_Interval, Zenon
  <2>3. IsFiniteSet(Children(Network, i, {}))
    BY <2>1, <2>2, FS_Subset
  <2>4. QED
    BY <2>3, FS_CardinalityType
<1>8. ordering' \in Seq(1..Size) /\ Len(ordering') < Size
  <2>1. <<>> \in Seq(1..Size) /\ Len(<<>>) = 0
    OBVIOUS
  <2>2. QED
    BY <1>1, <1>5, <2>1
<1>9. ChordalInv'
  BY <1>1, <1>4, <1>5, <1>6, <1>7, <1>8 DEF ChordalInv
<1>10. AtStart'
  <2>1. /\ MinimalDistances(Network) = [i \in 1..Size |-> IF i = Size THEN 0 ELSE INF]
        /\ XZero(Network) = Size
    BY <1>6, Zenon DEF MinimalDistances, XZero, Nodes
  <2>2. QED
    BY <1>1, <1>4, <2>1, Zenon DEF AtStart
<1>11. QED
  BY <1>1, <1>3, <1>9, <1>10 DEF ScheduleInv, Built, Lifted, Networked, Solving3C, Solved

LEMMA EliminateKeepsInv ==
    ASSUME ScheduleInv, EliminateNode
    PROVE  ScheduleInv'
<1>1. /\ trace' = trace /\ instants' = instants /\ order' = order
      /\ distances' = distances /\ queue' = queue /\ stage = "makeGraphChordal"
      /\ stage' = IF Len(ordering') = stn.n THEN "performDPC" ELSE stage
  BY DEF EliminateNode
<1>2. TraceRuns(trace) /\ Instants(instants) /\ Ordering(instants, order) /\ ChordalInv /\ AtStart
  BY <1>1 DEF ScheduleInv, Built, Lifted, Networked
<1>3. TraceRuns(trace') /\ Instants(instants') /\ Ordering(instants', order')
  BY <1>1, <1>2
<1>4. Size' = Size /\ Top' = Top
  BY <1>1, NetworkStays
<1>5. Size \in Nat \ {0} /\ Top \in Matrices(Size)
  BY <1>2, TopIs
<1>6. Size \in Nat /\ stn.n = Size /\ stn.matrix = Top /\ stn.matrix \in [Square(Size) -> Int]
  BY <1>2, <1>5 DEF ChordalInv, Matrices
<1>7. /\ stn' = [n |-> stn'.n, matrix |-> stn'.matrix, arcs |-> stn'.arcs]
      /\ stn'.n = Size /\ stn'.matrix = Top
      /\ Connected(stn'.arcs, Top, Size)
      /\ ordering' \in Seq(1..Size) /\ Len(ordering') = Len(ordering) + 1
      /\ neighbors' \in [1..Size -> Int]
  BY <1>2, <1>6, EliminateKeepsDistances DEF ChordalInv
<1>8. AtStart'
  BY <1>1, <1>2, <1>4, Zenon DEF AtStart
<1>9. Len(ordering) \in Nat /\ Len(ordering) < Size
  BY <1>2 DEF ChordalInv
<1>10. CASE Len(ordering') = Size
  <2>1. stage' = "performDPC"
    BY <1>1, <1>6, <1>10
  <2>2. stn' \in Solving(Size, stn'.arcs, Top)
    <3>1. Top \in Tightenings(Size, Top)
      BY <1>5, <1>6, TopIsTightening
    <3>2. QED
      BY <1>7, <3>1 DEF Solving
  <2>3. SolvingInv'
    BY <1>4, <1>7, <1>10, <2>2 DEF SolvingInv
  <2>4. QED
    BY <1>3, <1>8, <2>1, <2>3 DEF ScheduleInv, Built, Lifted, Networked, Solving3C, Solved
<1>11. CASE Len(ordering') # Size
  <2>1. stage' = "makeGraphChordal"
    BY <1>1, <1>6, <1>11
  <2>2. Len(ordering') < Size
    BY <1>5, <1>7, <1>9, <1>11
  <2>3. ChordalInv'
    BY <1>4, <1>7, <2>2 DEF ChordalInv
  <2>4. QED
    BY <1>3, <1>8, <2>1, <2>3 DEF ScheduleInv, Built, Lifted, Networked, Solving3C, Solved
<1>12. QED
  BY <1>10, <1>11

LEMMA SolveKeepsInv ==
    ASSUME ScheduleInv, PerformDPC \/ Tighten
    PROVE  ScheduleInv'
<1>1. /\ trace' = trace /\ instants' = instants /\ order' = order /\ ordering' = ordering
      /\ distances' = distances /\ queue' = queue /\ stage \in Solving3C
  BY DEF PerformDPC, Tighten, Solving3C
<1>2. TraceRuns(trace) /\ Instants(instants) /\ Ordering(instants, order) /\ SolvingInv /\ AtStart
  BY <1>1 DEF ScheduleInv, Built, Lifted, Networked
<1>3. TraceRuns(trace') /\ Instants(instants') /\ Ordering(instants', order')
  BY <1>1, <1>2
<1>4. Size' = Size /\ Top' = Top
  BY <1>1, NetworkStays
<1>5. Size \in Nat \ {0} /\ Size \in Nat /\ Top \in Matrices(Size)
  BY <1>2, TopIs
<1>6. /\ stn \in Solving(Size, stn.arcs, Top) /\ Connected(stn.arcs, Top, Size)
      /\ ordering \in Seq(1..Size) /\ Len(ordering) = Size
  BY <1>2 DEF SolvingInv
<1>7. AtStart'
  BY <1>1, <1>2, <1>4, Zenon DEF AtStart
<1>8. ASSUME stn' \in Solving(Size, stn.arcs, Top)
      PROVE  SolvingInv'
  <2>1. stn'.arcs = stn.arcs
    BY <1>8 DEF Solving
  <2>2. QED
    BY <1>1, <1>4, <1>6, <1>8, <2>1 DEF SolvingInv
<1>9. CASE PerformDPC
  <2>1. /\ stn' \in Solving(Size, stn.arcs, Top)
        /\ stage' \in {"tighten", "aborted"}
        /\ stage' = "aborted" => \A t \in Times(Size) : ~Keep(t, Top, Size)
    BY <1>5, <1>6, <1>9, PerformDPCTightens
  <2>2. stage' = "aborted" => NoSchedule'
    BY <1>4, <2>1, Zenon DEF NoSchedule
  <2>3. SolvingInv'
    BY <1>8, <2>1
  <2>4. QED
    BY <1>3, <1>7, <2>1, <2>2, <2>3 DEF ScheduleInv, Built, Lifted, Networked, Solving3C, Solved
<1>10. CASE Tighten
  <2>1. stn' \in Solving(Size, stn.arcs, Top) /\ stage' = "extractMinimalDistances"
    <3>1. stn' \in Solving(Size, stn.arcs, Top)
      BY <1>5, <1>6, <1>10, TightenTightens
    <3>2. QED
      BY <1>10, <3>1 DEF Tighten
  <2>2. SolvingInv'
    BY <1>8, <2>1
  <2>3. ExtractingInv'
    <3> DEFINE d == [i \in 1..Size |-> IF i = Size THEN 0 ELSE INF]
    <3>1. distances' = d /\ queue' = <<Size>>
      BY <1>1, <1>2, Zenon DEF AtStart
    <3>2. d \in [1..Size -> Int] /\ (\A i \in 1..Size : d[i] <= INF) /\ d[Size] <= 0
      BY <1>5, InfIs
    <3>3. \A t \in Times(Size) : \A i \in 1..Size : t[i] - t[Size] <= d[i]
      <4> TAKE t \in Times(Size)
      <4> TAKE i \in 1..Size
      <4>1. Size \in 1..Size /\ t[i] \in Int /\ t[Size] \in Int /\ t[i] - t[Size] <= INF
        BY <1>5 DEF Times
      <4>2. t[Size] - t[Size] = 0
        BY <4>1
      <4>3. QED
        BY <4>1, <4>2
    <3>4. DistancesBound(d, Size, Top)
      <4> HIDE DEF d
      <4>1. QED
        BY <3>2, <3>3 DEF DistancesBound
    <3>5. \A j \in 1..Size : j \in Queued(<<Size>>) \/ Settled(stn', d, j)
      <4> TAKE j \in 1..Size
      <4>1. CASE j = Size
        <5>1. <<Size>>[1] = Size /\ 1 \in DOMAIN <<Size>>
          OBVIOUS
        <5>2. QED
          BY <4>1, <5>1, Zenon DEF Queued
      <4>2. CASE j # Size
        <5>1. d[j] = INF
          BY <4>2
        <5>2. \A i \in 1..Size : d[i] <= Add(d[j], stn'.matrix[<<i, j>>])
          <6> TAKE i \in 1..Size
          <6>1. Add(d[j], stn'.matrix[<<i, j>>]) = INF
            BY <5>1, Zenon DEF Add
          <6>2. QED
            BY <3>2, <6>1
        <5>3. \A i \in Children(stn', j, {}) : i \in 1..Size
          BY <2>1 DEF Children, Nodes, Solving
        <5>4. QED
          BY <5>2, <5>3 DEF Settled
      <4>3. QED
        BY <4>1, <4>2
    <3>6. <<Size>> \in Seq(1..Size)
      BY <1>5
    <3> HIDE DEF d
    <3>7. QED
      BY <1>4, <3>1, <3>4, <3>5, <3>6 DEF ExtractingInv
  <2>4. QED
    BY <1>3, <2>1, <2>2, <2>3 DEF ScheduleInv, Built, Lifted, Networked, Solving3C, Solved
<1>11. QED
  BY <1>9, <1>10

LEMMA ExtractKeepsInv ==
    ASSUME ScheduleInv, ExtractMinimalDistances \/ Reschedule
    PROVE  ScheduleInv'
<1>1. /\ trace' = trace /\ instants' = instants /\ order' = order /\ ordering' = ordering
      /\ stn' = stn /\ stage = "extractMinimalDistances"
  BY DEF ExtractMinimalDistances, Reschedule, networkVars
<1>2. /\ TraceRuns(trace) /\ Instants(instants) /\ Ordering(instants, order)
      /\ SolvingInv /\ ExtractingInv
  BY <1>1 DEF ScheduleInv, Built, Lifted, Networked, Solved
<1>3. TraceRuns(trace') /\ Instants(instants') /\ Ordering(instants', order')
  BY <1>1, <1>2
<1>4. Size' = Size /\ Top' = Top
  BY <1>1, NetworkStays
<1>5. Size \in Nat \ {0} /\ Top \in Matrices(Size)
  BY <1>2, TopIs
<1>6. SolvingInv'
  BY <1>1, <1>2, <1>4 DEF SolvingInv
<1>7. CASE ExtractMinimalDistances
  <2>1. /\ DistancesBound(distances', Size, Top)
        /\ queue' \in Seq(1..Size)
        /\ \A j \in 1..Size : j \in Queued(queue') \/ Settled(stn, distances', j)
    BY <1>2, <1>5, <1>7, ExtractSettles DEF SolvingInv, ExtractingInv
  <2>2. ExtractingInv'
    BY <1>1, <1>4, <2>1 DEF ExtractingInv
  <2>3. stage' = "extractMinimalDistances"
    BY <1>1, <1>7 DEF ExtractMinimalDistances
  <2>4. QED
    BY <1>3, <1>6, <2>2, <2>3 DEF ScheduleInv, Built, Lifted, Networked, Solving3C, Solved
<1>8. CASE Reschedule
  <2>1. distances' = distances /\ queue' = queue /\ queue = <<>> /\ stage' = "done"
    BY <1>8 DEF Reschedule, networkVars
  <2>2. ExtractingInv'
    BY <1>1, <1>2, <1>4, <2>1 DEF ExtractingInv
  <2>3. QED
    BY <1>3, <1>6, <2>1, <2>2 DEF ScheduleInv, Built, Lifted, Networked, Solving3C, Solved
<1>9. QED
  BY <1>7, <1>8

LEMMA FilesKeepInv ==
    ASSUME ScheduleInv, DropPlan \/ WritePlan \/ EpsilonizePlan \/ NextPlan
    PROVE  ScheduleInv'
<1>1. TraceRuns(trace)
  BY DEF ScheduleInv
<1>2. CASE DropPlan \/ NextPlan
  <2>1. stage' = "search" /\ trace' = <<InitialState>>
    BY <1>2 DEF DropPlan, NextPlan, Continue
  <2>2. TraceRuns(trace')
    BY <2>1, InitialTrace
  <2>3. QED
    BY <2>1, <2>2, OtherStages
<1>3. CASE WritePlan \/ EpsilonizePlan
  <2>1. trace' = trace /\ stage' \in {"saved", "epsilonize", "epsilonizeBest"}
    BY <1>3 DEF WritePlan, EpsilonizePlan
  <2>2. TraceRuns(trace')
    BY <1>1, <2>1
  <2>3. QED
    BY <2>1, <2>2, OtherStages
<1>4. QED
  BY <1>2, <1>3

LEMMA StutterKeepsInv ==
    ASSUME ScheduleInv, UNCHANGED <<vars, fileVars>>
    PROVE  ScheduleInv'
<1>1. /\ stage' = stage /\ trace' = trace /\ instants' = instants /\ order' = order
      /\ ordering' = ordering /\ stn' = stn /\ distances' = distances /\ queue' = queue
      /\ neighbors' = neighbors
  BY DEF vars
<1>2. Size' = Size /\ Top' = Top
  BY <1>1, NetworkStays
<1>3. /\ ChordalInv = ChordalInv' /\ SolvingInv = SolvingInv' /\ AtStart = AtStart'
      /\ ExtractingInv = ExtractingInv' /\ NoSchedule = NoSchedule'
  BY <1>1, <1>2 DEF ChordalInv, SolvingInv, AtStart, ExtractingInv, NoSchedule
<1>4. QED
  BY <1>1, <1>3 DEF ScheduleInv

\* The invariant holds of every run of the planner.
LEMMA ScheduleIsInv == PlanFilesSpec => []ScheduleInv
<1>1. PlanFilesInit => ScheduleInv
  <2> SUFFICES ASSUME PlanFilesInit
               PROVE  ScheduleInv
    OBVIOUS
  <2>1. stage = "search" /\ trace = <<InitialState>>
    BY DEF PlanFilesInit, Init
  <2>2. TraceRuns(trace)
    BY <2>1, InitialTrace
  <2>3. QED
    BY <2>1, <2>2 DEF ScheduleInv, Built, Lifted, Networked, Solving3C, Solved
<1>2. ScheduleInv /\ [PlanFilesNext]_<<vars, fileVars>> => ScheduleInv'
  <2> SUFFICES ASSUME ScheduleInv, [PlanFilesNext]_<<vars, fileVars>>
               PROVE  ScheduleInv'
    OBVIOUS
  <2>1. CASE FindPlan
    <3>1. Next
      BY <2>1 DEF FindPlan
    <3>2. \/ (\E o \in Op : StartOperator(o)) \/ PassTime \/ SolutionFound
          \/ BuildInstantPlan \/ BuildPartialOrder
          \/ CreateSTN
          \/ EliminateNode
          \/ PerformDPC \/ Tighten
          \/ ExtractMinimalDistances \/ Reschedule
      BY <3>1 DEF Next
    <3>3. QED
      BY <3>2, BranchKeepsInv, LiftKeepsInv, CreateKeepsInv, EliminateKeepsInv, SolveKeepsInv,
         ExtractKeepsInv, Zenon
  <2>2. CASE DropPlan \/ WritePlan \/ EpsilonizePlan \/ NextPlan
    BY <2>2, FilesKeepInv
  <2>3. CASE UNCHANGED <<vars, fileVars>>
    BY <2>3, StutterKeepsInv
  <2>4. QED
    BY <2>1, <2>2, <2>3 DEF PlanFilesNext
<1>3. QED
  BY <1>1, <1>2, PTL DEF PlanFilesSpec

----------------------------------------------------------------------------
(* What a schedule keeps                                                   *)

\* A distance of the network as it was made bounds those to X0.
LEMMA DistanceIsKept ==
    ASSUME Size \in Nat \ {0}, SolvingInv, ExtractingInv, queue = <<>>,
           NEW i \in 1..Size, NEW j \in 1..Size, Top \in Matrices(Size)
    PROVE  distances[i] <= Add(distances[j], Top[<<i, j>>])
<1>1. /\ stn.n = Size /\ stn.matrix \in Matrices(Size) /\ Connected(stn.arcs, Top, Size)
      /\ stn.matrix[<<i, j>>] <= Top[<<i, j>>]
      /\ stn.matrix[<<i, j>>] \in Int /\ Top[<<i, j>>] \in Int /\ Top[<<i, j>>] <= INF
  BY DEF SolvingInv, Solving, Tightenings, Matrices, Square
<1>2. distances[i] \in Int /\ distances[j] \in Int /\ distances[i] <= INF /\ distances[j] <= INF
  BY DEF ExtractingInv, DistancesBound
<1>3. Settled(stn, distances, j)
  <2>1. Queued(<<>>) = {}
    BY DEF Queued
  <2>2. QED
    BY <2>1 DEF ExtractingInv
<1>4. CASE <<j, i>> \in stn.arcs
  <2>1. i \in Children(stn, j, {})
    BY <1>1, <1>4 DEF Children, Nodes
  <2>2. distances[i] <= Add(distances[j], stn.matrix[<<i, j>>])
    BY <1>3, <2>1 DEF Settled
  <2> DEFINE d == distances[j]
             m == stn.matrix[<<i, j>>]
             t == Top[<<i, j>>]
  <2>3. d \in Int /\ m \in Int /\ t \in Int /\ m <= t /\ d <= INF /\ t <= INF
    BY <1>1, <1>2
  <2> HIDE DEF d, m, t
  <2>4. Add(d, m) <= Add(d, t)
    <3>1. d <= d
      BY <2>3
    <3>2. QED
      BY <2>3, <3>1, AddGrows
  <2>5. Add(d, m) \in Int /\ Add(d, t) \in Int
    BY <2>3, AddIs
  <2> DEFINE e == distances[i]
  <2>6. e \in Int /\ e <= Add(d, m)
    BY <1>2, <2>2 DEF d, m
  <2> HIDE DEF e
  <2>7. e <= Add(d, t)
    BY <2>4, <2>5, <2>6
  <2>8. QED
    BY <2>7 DEF d, t, e
<1>5. CASE <<j, i>> \notin stn.arcs
  <2>1. <<i, j>> \notin stn.arcs
    BY <1>1, <1>5 DEF Connected
  <2>2. Top[<<i, j>>] = IF i = j THEN 0 ELSE INF
    BY <1>1, <2>1 DEF Connected
  <2>3. CASE i = j
    <3> DEFINE d == distances[j]
    <3> HIDE DEF d
    <3>1. d \in Int /\ d <= INF
      BY <1>2 DEF d
    <3>2. Add(d, 0) = d
      BY <3>1, InfIs DEF Add
    <3>3. d <= d
      BY <3>1
    <3>4. QED
      BY <2>2, <2>3, <3>2, <3>3 DEF d
  <2>4. CASE i # j
    <3>1. Add(distances[j], Top[<<i, j>>]) = INF
      BY <2>2, <2>4, Zenon DEF Add
    <3>2. QED
      BY <1>2, <3>1
  <2>5. QED
    BY <2>3, <2>4
<1>6. QED
  BY <1>4, <1>5

\* In a schedule every instant has a time, not before X0.
LEMMA InstantsHaveTimes ==
    ASSUME ScheduleInv, stage \in Solved, queue = <<>>, NEW i \in 1..Len(instants)
    PROVE  distances[i] \in Int /\ distances[i] <= 0
<1>1. /\ Instants(instants) /\ Ordering(instants, order)
      /\ SolvingInv /\ ExtractingInv /\ queue = <<>>
  BY DEF ScheduleInv, Built, Lifted, Networked, Solved
<1>2. /\ Size \in Nat \ {0} /\ Top \in Matrices(Size)
      /\ Size = Len(instants) + 1 /\ Len(instants) \in Nat
      /\ DurationsKept(Top, instants, Size, 1..Len(instants))
  BY <1>1, TopIs
<1>3. Size \in 1..Size /\ \A k \in 1..Len(instants) : k \in 1..Size
  BY <1>2
<1>4. /\ \A k \in 1..Size : distances[k] \in Int
      /\ distances[Size] <= 0
  BY <1>1 DEF ExtractingInv, DistancesBound
<1>5. \A a, b \in Int : a <= 0 /\ b <= 0 => Add(a, b) = a + b /\ Add(a, b) <= 0
  BY InfIs DEF Add
<1>6. ASSUME NEW s \in 1..Len(instants), instants[s].type = "start"
      PROVE  distances[s] <= 0
  <2>1. Top[<<s, Size>>] = 0
    BY <1>2, <1>6 DEF DurationsKept
  <2>2. distances[s] <= Add(distances[Size], 0)
    BY <1>1, <1>2, <1>3, <2>1, DistanceIsKept
  <2>3. Add(distances[Size], 0) <= 0 /\ Add(distances[Size], 0) = distances[Size] + 0
    <3> DEFINE z == distances[Size]
    <3>1. z \in Int /\ z <= 0 /\ 0 \in Int /\ 0 <= 0
      BY <1>3, <1>4
    <3> HIDE DEF z
    <3>2. Add(z, 0) <= 0 /\ Add(z, 0) = z + 0
      BY <1>5, <3>1
    <3>3. QED
      BY <3>2 DEF z
  <2>4. distances[s] \in Int /\ distances[Size] \in Int
    BY <1>3, <1>4
  <2>5. QED
    BY <2>2, <2>3, <2>4
<1>7. CASE instants[i].type = "start"
  BY <1>3, <1>4, <1>6, <1>7
<1>8. CASE instants[i].type = "end"
  <2>1. PICK s \in 1..Len(instants) : instants[s].type = "start" /\ instants[s].endAction = i
    BY <1>1, <1>8 DEF Instants
  <2> DEFINE D == Duration[instants[s].op]
  <2>2. D \in Nat
    <3>1. instants[s].op \in Op
      BY <1>1 DEF Instants
    <3>2. QED
      BY <3>1, TaskAssumption
  <2>3. Top[<<i, s>>] = 0 - D
    <3>1. i # 0
      OBVIOUS
    <3>2. QED
      BY <1>2, <2>1, <3>1 DEF DurationsKept
  <2> HIDE DEF D
  <2>4. distances[i] <= Add(distances[s], 0 - D)
    BY <1>1, <1>2, <1>3, <2>3, DistanceIsKept
  <2>5. distances[s] <= 0 /\ distances[s] \in Int /\ distances[i] \in Int
    BY <1>3, <1>4, <1>6, <2>1
  <2>6. 0 - D \in Int /\ 0 - D <= 0
    BY <2>2
  <2> DEFINE z == 0 - D
  <2> HIDE DEF z
  <2>7. Add(distances[s], z) <= 0 /\ Add(distances[s], z) = distances[s] + z
    BY <1>5, <2>5, <2>6 DEF z
  <2>8. z \in Int
    BY <2>6 DEF z
  <2>9. distances[i] <= Add(distances[s], z)
    BY <2>4 DEF z
  <2>10. QED
    BY <2>5, <2>7, <2>8, <2>9
<1>9. instants[i].type \in {"start", "end"}
  BY <1>1 DEF Instants
<1>10. QED
  BY <1>7, <1>8, <1>9

LEMMA DistancesInOrder ==
    ASSUME ScheduleInv, stage = "done"
    PROVE  OrderIsKept
<1>1. /\ Instants(instants) /\ Ordering(instants, order)
      /\ SolvingInv /\ ExtractingInv /\ queue = <<>>
  BY DEF ScheduleInv, Built, Lifted, Networked, Solved
<1> DEFINE L == Len(instants)
<1>2. /\ Size \in Nat \ {0} /\ Top \in Matrices(Size)
      /\ Size = L + 1 /\ L \in Nat
      /\ DurationsKept(Top, instants, Size, 1..L)
      /\ OrderKept(Top, Size, order, L, L)
  BY <1>1, TopIs
<1>3. \A k \in 1..L : k \in 1..Size
  BY <1>2
<1>4. \A k \in 1..L : distances[k] \in Int /\ distances[k] <= 0
  BY <1>1, InstantsHaveTimes DEF Solved
<1>5. \A a, b \in Int : a <= 0 /\ b < INF => Add(a, b) = a + b
  BY InfIs DEF Add
\* What a finite distance of the network is worth for two instants.
<1>6. ASSUME NEW a \in 1..L, NEW b \in 1..L, Top[<<a, b>>] \in Int, Top[<<a, b>>] < INF
      PROVE  distances[a] <= distances[b] + Top[<<a, b>>]
  <2>1. distances[a] <= Add(distances[b], Top[<<a, b>>])
    BY <1>1, <1>2, <1>3, DistanceIsKept
  <2>2. Add(distances[b], Top[<<a, b>>]) = distances[b] + Top[<<a, b>>]
    BY <1>4, <1>5, <1>6
  <2>3. QED
    BY <2>1, <2>2
<1>7. ASSUME NEW pair \in order, <<pair[2], pair[1]>> \notin order
      PROVE  -distances[pair[1]] + Eps <= -distances[pair[2]]
  <2>1. PICK a, b \in 1..L : pair = <<a, b>>
    BY <1>1 DEF Ordering
  <2>2. Top[<<b, a>>] = 0 - Eps
    <3>1. <<b, a>> \notin order /\ a \in 1..Size /\ b \in 1..Size
      BY <1>3, <1>7, <2>1
    <3>2. a < L \/ (a = L /\ b <= L)
      BY <1>2
    <3>3. QED
      BY <1>2, <2>1, <3>1, <3>2 DEF OrderKept
  <2>3. Eps \in Nat /\ 0 - Eps < INF /\ 0 - Eps \in Int
    BY ReschedulingAssumption, InfIs
  <2>4. distances[b] <= distances[a] + (0 - Eps)
    BY <1>6, <2>2, <2>3
  <2>5. distances[a] \in Int /\ distances[b] \in Int
    BY <1>4
  <2>6. pair[1] = a /\ pair[2] = b
    BY <2>1
  <2> DEFINE x == distances[a]
             y == distances[b]
  <2>7. x \in Int /\ y \in Int /\ y <= x + (0 - Eps)
    BY <2>4, <2>5
  <2> HIDE DEF x, y
  <2>8. -x + Eps <= -y
    BY <2>3, <2>7
  <2>9. QED
    BY <2>6, <2>8 DEF x, y
<1>8. ASSUME NEW i \in 1..L, instants[i].type = "start", instants[i].endAction # 0
      PROVE  -distances[instants[i].endAction] = -distances[i] + Duration[instants[i].op]
  <2> DEFINE e == instants[i].endAction
             D == Duration[instants[i].op]
  <2>1. e \in 1..L /\ D \in Nat /\ D < INF
    <3>1. e \in 0..L /\ instants[i].op \in Op
      BY <1>1 DEF Instants
    <3>2. D \in Nat /\ D < INF
      BY <3>1, TaskAssumption, DurationsFit
    <3>3. QED
      BY <1>2, <1>8, <3>1, <3>2
  <2>2. Top[<<i, e>>] = D /\ Top[<<e, i>>] = 0 - D
    BY <1>2, <1>8 DEF DurationsKept
  <2> DEFINE x == distances[i]
             y == distances[e]
  <2> HIDE DEF e, D
  <2>3. x \in Int /\ y \in Int
    BY <1>4, <2>1
  <2>4. D \in Int /\ 0 - D \in Int /\ 0 - D < INF
    BY <2>1, InfIs
  <2>5. x <= y + D
    BY <1>6, <2>1, <2>2, <2>4
  <2>6. y <= x + (0 - D)
    BY <1>6, <2>1, <2>2, <2>4
  <2> HIDE DEF x, y
  <2>7. -y = -x + D
    BY <2>3, <2>4, <2>5, <2>6
  <2>8. QED
    BY <2>7 DEF x, y, e, D
<1>9. DOMAIN instants = 1..L
  BY <1>1 DEF Instants, Listed
<1>10. QED
  BY <1>7, <1>8, <1>9 DEF OrderIsKept

\* Every schedule keeps the order in which what comes first of two instants has to,
\* and the durations of the actions: of all plans that buildInstantPlan is given, and
\* all networks that they make.
THEOREM OrderIsAlwaysKept == PlanFilesSpec => []OrderIsKept
<1>1. ScheduleInv => OrderIsKept
  <2>1. stage # "done" => OrderIsKept
    BY DEF OrderIsKept
  <2>2. QED
    BY <2>1, DistancesInOrder
<1>2. QED
  BY <1>1, ScheduleIsInv, PTL

\* The times of a schedule: those of the instants, counted backwards from X0.
IsSchedule(t) == t \in Times(Size) /\ Keep(t, Top, Size)

\* A schedule satisfies every constraint of the network, and no action could start
\* or end earlier: whatever else keeps the network has every instant at the same time
\* or later.  extractMinimalDistances promises that of what performDPC and
\* solveWithP3C leave.
EarliestSchedule ==
    stage = "done" =>
        /\ \A i, j \in 1..Size : distances[i] <= Add(distances[j], Top[<<i, j>>])
        /\ \A t : IsSchedule(t) => \A i \in 1..Size : -distances[i] <= t[Size] - t[i]

THEOREM ScheduleIsEarliest == PlanFilesSpec => []EarliestSchedule
<1>1. ASSUME ScheduleInv, stage = "done"
      PROVE  EarliestSchedule
  <2>1. /\ Instants(instants) /\ Ordering(instants, order)
        /\ SolvingInv /\ ExtractingInv /\ queue = <<>>
    BY <1>1 DEF ScheduleInv, Built, Lifted, Networked, Solved
  <2>2. Size \in Nat \ {0} /\ Top \in Matrices(Size)
    BY <2>1, TopIs
  <2>3. \A i, j \in 1..Size : distances[i] <= Add(distances[j], Top[<<i, j>>])
    BY <2>1, <2>2, DistanceIsKept
  <2>4. ASSUME NEW t, IsSchedule(t), NEW i \in 1..Size
        PROVE  -distances[i] <= t[Size] - t[i]
    <3>1. t[i] - t[Size] <= distances[i]
      BY <2>1, <2>4 DEF ExtractingInv, DistancesBound, IsSchedule
    <3>2. t[i] \in Int /\ t[Size] \in Int /\ distances[i] \in Int
      <4>1. Size \in 1..Size
        BY <2>2
      <4>2. QED
        BY <2>1, <2>4, <4>1 DEF ExtractingInv, DistancesBound, IsSchedule, Times
    <3> DEFINE x == t[i]
               y == t[Size]
               d == distances[i]
    <3>3. x \in Int /\ y \in Int /\ d \in Int /\ x - y <= d
      BY <3>1, <3>2
    <3> HIDE DEF x, y, d
    <3>4. -d <= y - x
      BY <3>3
    <3>5. QED
      BY <3>4 DEF x, y, d
  <2>5. QED
    BY <2>3, <2>4 DEF EarliestSchedule
<1>2. ScheduleInv => EarliestSchedule
  <2>1. stage # "done" => EarliestSchedule
    BY DEF EarliestSchedule
  <2>2. QED
    BY <1>1, <2>1
<1>3. QED
  BY <1>2, ScheduleIsInv, PTL

\* performDPC fails the assertion isValid only where no times keep the network.
AbortsWithoutSchedule == stage = "aborted" => \A t : ~IsSchedule(t)

THEOREM OnlyContradictionsAbort == PlanFilesSpec => []AbortsWithoutSchedule
<1>1. ScheduleInv => AbortsWithoutSchedule
  BY DEF ScheduleInv, AbortsWithoutSchedule, NoSchedule, IsSchedule
<1>2. QED
  BY <1>1, ScheduleIsInv, PTL

----------------------------------------------------------------------------
(* The plan files                                                          *)

\* The plan that was last found to be better, before and while its files are
\* epsilonized.
FilesInv ==
    /\ stage \notin {"search", "saved", "epsilonize", "epsilonizeBest"} => planNumber <= MaxPlans
    /\ planNumber \in 1..(MaxPlans + 1)
    /\ stage \in {"epsilonize", "epsilonizeBest"} => planNumber > 1
    /\ DOMAIN files = File /\ DOMAIN originals = File
    /\ stage = "epsilonize" => files[planNumber - 1] = output
    /\ stage = "epsilonizeBest" => IsSaved(planNumber - 1)
    /\ stage \in {"epsilonize", "epsilonizeBest"} /\ "openBest" \notin faults => files[Best] = output
    /\ stage \notin {"epsilonize", "epsilonizeBest"} /\ planNumber > 1 /\ "open" \notin faults =>
          LastIsSaved

\* No other copy is changed.
LEMMA OriginalsOf ==
    ASSUME NEW f \in File, DOMAIN originals = File, EpsilonizeFile(f)
    PROVE  /\ DOMAIN originals' = File
           /\ \A g \in File \ {f} : originals'[g] = originals[g]
<1>1. originals' = originals \/ \E x : originals' = [originals EXCEPT ![f] = x]
  BY Zenon DEF EpsilonizeFile
<1>2. QED
  BY <1>1

\* The last plan that was better is saved by it.
LEMMA OutputIsSaved ==
    ASSUME NEW f \in File, DOMAIN files = File, DOMAIN originals = File,
           files[f] = output, output' = output, EpsilonizeFile(f)
    PROVE  IsSaved(f)'
<1>1. CASE files' = [files EXCEPT ![f] = EpsilonizedPlan(@)]
  <2> DEFINE new == EpsilonizedPlan(output)
  <2>1. files' = [files EXCEPT ![f] = new]
    BY <1>1
  <2> HIDE DEF new
  <2>2. files'[f] = new
    BY <2>1
  <2>3. EpsilonizedPlan(output)' = EpsilonizedPlan(output)
    BY SMT
  <2>4. QED
    BY <2>2, <2>3, Zenon DEF IsSaved, new
<1>2. CASE files' = files
  BY <1>2 DEF IsSaved
<1>3. CASE files' = [files EXCEPT ![f] = <<>>] /\ originals' = [originals EXCEPT ![f] = files[f]]
  BY <1>3 DEF IsSaved
<1>4. QED
  BY <1>1, <1>2, <1>3, Zenon DEF EpsilonizeFile, MovedBack

\* epsilonize_plan leaves the other files alone, and this one as it was, as the script
\* makes it, or moved away.
LEMMA FileIs ==
    ASSUME NEW f \in File, DOMAIN files = File, DOMAIN originals = File, EpsilonizeFile(f)
    PROVE  /\ DOMAIN files' = File /\ DOMAIN originals' = File
           /\ \/ files'[f] \in {files[f], <<>>}
              \/ files[f] # None /\ files'[f] = EpsilonizedPlan(files[f])
           /\ \A g \in File \ {f} : files'[g] = files[g] /\ originals'[g] = originals[g]
           /\ faults \subseteq faults'
<1>1. faults \subseteq faults'
  BY DEF EpsilonizeFile, Fault
<1>2. CASE /\ files[f] # None
           /\ \/ files' = [files EXCEPT ![f] = EpsilonizedPlan(@)]
              \/ files' = [files EXCEPT ![f] = <<>>]
  <2> DEFINE new == EpsilonizedPlan(files[f])
  <2>1. files' = [files EXCEPT ![f] = new] \/ files' = [files EXCEPT ![f] = <<>>]
    BY <1>2
  <2> HIDE DEF new
  <2>2. /\ DOMAIN files' = File /\ files'[f] \in {new, <<>>}
        /\ \A g \in File \ {f} : files'[g] = files[g]
    BY <2>1
  <2>3. DOMAIN originals' = File /\ \A g \in File \ {f} : originals'[g] = originals[g]
    BY <1>2, OriginalsOf
  <2>4. QED
    BY <1>1, <1>2, <2>2, <2>3 DEF new
<1>3. CASE files' = files
  <2>1. DOMAIN originals' = File /\ \A g \in File \ {f} : originals'[g] = originals[g]
    BY OriginalsOf
  <2>2. QED
    BY <1>1, <1>3, <2>1
<1>4. QED
  BY <1>2, <1>3, Zenon DEF EpsilonizeFile, MovedBack

\* What is saved stays saved while its files are left alone.
LEMMA SavedStays ==
    ASSUME NEW f, IsSaved(f), files'[f] = files[f], originals'[f] = originals[f], output' = output
    PROVE  IsSaved(f)'
<1>1. EpsilonizedPlan(output)' = EpsilonizedPlan(output)
  BY SMT
<1>2. QED
  BY <1>1, Zenon DEF IsSaved

LEMMA FilesStep ==
    ASSUME FilesInv, PlanFilesNext
    PROVE  FilesInv'
<1>1. /\ MaxPlans \in Nat /\ planNumber \in 1..(MaxPlans + 1)
      /\ DOMAIN files = File /\ DOMAIN originals = File
  BY PlanFilesAssumption DEF FilesInv
<1>2. Best \in File /\ \A n \in 1..MaxPlans : n \in File /\ n # Best
  BY <1>1 DEF File, Best
<1>3. File' = File /\ Best' = Best
  BY DEF File, Best
<1>4. CASE FindPlan
  <2>1. /\ planNumber <= MaxPlans
        /\ planNumber' = planNumber /\ files' = files /\ output' = output /\ faults' = faults
        /\ originals' = originals
    BY <1>4 DEF FindPlan, fileVars
  <2>2. /\ stage \notin {"epsilonize", "epsilonizeBest"}
        /\ stage' \notin {"epsilonize", "epsilonizeBest"}
    BY <1>4 DEF FindPlan, Next, StartOperator, PassTime, SolutionFound, BuildInstantPlan,
                BuildPartialOrder, CreateSTN, EliminateNode, PerformDPC, Tighten,
                ExtractMinimalDistances, Reschedule
  <2>3. LastIsSaved => LastIsSaved'
    BY <1>3, <2>1, SavedStays DEF LastIsSaved
  <2>4. QED
    BY <1>1, <1>3, <2>1, <2>2, <2>3 DEF FilesInv
<1>5. CASE DropPlan \/ NextPlan
  <2>1. /\ planNumber' = planNumber /\ files' = files /\ output' = output /\ faults' = faults
        /\ originals' = originals
        /\ stage \in {"done", "saved"} /\ stage' = "search"
    BY <1>5 DEF DropPlan, NextPlan, Continue, fileVars
  <2>2. LastIsSaved => LastIsSaved'
    BY <1>3, <2>1, SavedStays DEF LastIsSaved
  <2>3. QED
    BY <1>1, <1>3, <2>1, <2>2 DEF FilesInv
<1>6. CASE WritePlan
  <2>1. stage = "done" /\ planNumber <= MaxPlans /\ originals' = originals
    BY <1>6 DEF WritePlan, FilesInv
  <2>2. planNumber \in 1..MaxPlans /\ planNumber \in File /\ (planNumber + 1) - 1 = planNumber
    BY <1>1, <1>2, <2>1
  <2>3. CASE /\ \/ files' = [f \in File |-> IF f \in {Best, planNumber} THEN output' ELSE files[f]]
                \/ files' = [files EXCEPT ![planNumber] = output'] /\ "openBest" \in faults'
             /\ planNumber' = planNumber + 1
             /\ stage' = IF EpsilonizeExternally THEN "epsilonize" ELSE "saved"
    <3>1. /\ DOMAIN files' = File /\ files'[planNumber] = output'
          /\ "openBest" \notin faults' => files'[Best] = output'
      BY <1>1, <1>2, <2>2, <2>3
    <3>2. files'[planNumber' - 1] = output' /\ planNumber' \in 1..(MaxPlans + 1) /\ planNumber' > 1
      BY <1>1, <2>2, <2>3, <3>1
    <3>3. LastIsSaved'
      BY <1>3, <3>1, <3>2, Zenon DEF LastIsSaved, IsSaved
    <3>4. stage' \in {"epsilonize", "saved"}
      BY <2>3
    <3>5. QED
      BY <1>1, <1>3, <2>1, <3>1, <3>2, <3>3, <3>4 DEF FilesInv
  <2>4. CASE /\ faults' = faults \cup {"open"}
             /\ files' \in {files, [files EXCEPT ![Best] = <<>>]}
             /\ stage' = "saved" /\ planNumber' = planNumber
    <3>1. "open" \in faults' /\ DOMAIN files' = File
      BY <1>1, <2>4
    <3>2. QED
      BY <1>1, <1>3, <2>1, <2>4, <3>1 DEF FilesInv
  <2>5. "openBest" \in faults' \/ ~Fault("openBest")
    BY DEF Fault
  <2>6. QED
    BY <1>6, <2>3, <2>4, <2>5, Zenon DEF WritePlan, Fault
<1>7. CASE EpsilonizePlan
  <2>1. planNumber' = planNumber /\ output' = output
    BY <1>7 DEF EpsilonizePlan
  <2>2. planNumber > 1 /\ planNumber - 1 \in 1..MaxPlans
    <3>1. stage \in {"epsilonize", "epsilonizeBest"}
      BY <1>7 DEF EpsilonizePlan
    <3>2. QED
      BY <1>1, <3>1 DEF FilesInv
  <2>3. planNumber - 1 \in File /\ planNumber - 1 # Best
    BY <1>2, <2>2
  <2>4. CASE /\ stage = "epsilonize" /\ EpsilonizeFile(planNumber - 1) /\ stage' = "epsilonizeBest"
    <3>1. files[planNumber - 1] = output /\ ("openBest" \notin faults => files[Best] = output)
      BY <2>4 DEF FilesInv
    <3> DEFINE n == planNumber - 1
    <3>2. n \in File /\ n # Best /\ EpsilonizeFile(n) /\ files[n] = output /\ planNumber' - 1 = n
      BY <2>1, <2>3, <2>4, <3>1
    <3> HIDE DEF n
    <3>3. PICK m : m = n
      OBVIOUS
    <3>4. /\ DOMAIN files' = File /\ DOMAIN originals' = File /\ faults \subseteq faults'
          /\ files'[Best] = files[Best]
      BY <1>1, <1>2, <3>2, FileIs
    <3>5. IsSaved(m)'
      BY <1>1, <2>1, <3>2, <3>3, OutputIsSaved
    <3>6. IsSaved(planNumber - 1)'
      BY <3>2, <3>3, <3>5, Zenon DEF IsSaved
    <3>7. QED
      BY <1>1, <1>3, <2>1, <2>2, <2>4, <3>1, <3>4, <3>6 DEF FilesInv
  <2>5. CASE /\ stage = "epsilonizeBest" /\ EpsilonizeFile(Best) /\ stage' = "saved"
    <3>1. IsSaved(planNumber - 1) /\ ("openBest" \notin faults => files[Best] = output)
      BY <2>5 DEF FilesInv
    <3>2. PICK m : m = planNumber - 1
      OBVIOUS
    <3>3. PICK b : b = Best
      OBVIOUS
    <3>4. /\ DOMAIN files' = File /\ DOMAIN originals' = File /\ faults \subseteq faults'
          /\ files'[m] = files[m] /\ originals'[m] = originals[m]
      BY <1>1, <1>2, <2>3, <2>5, <3>2, FileIs
    <3>5. "openBest" \notin faults' => IsSaved(b)'
      BY <1>1, <1>2, <2>1, <2>5, <3>1, <3>3, <3>4, OutputIsSaved
    <3>6. IsSaved(m)
      BY <3>1, <3>2
    <3>7. IsSaved(m)'
      BY <2>1, <3>4, <3>6, SavedStays
    <3>8. LastIsSaved'
      BY <1>3, <2>1, <3>2, <3>3, <3>5, <3>7, Zenon DEF LastIsSaved, IsSaved
    <3>9. QED
      BY <1>1, <1>3, <2>1, <2>2, <2>5, <3>4, <3>8 DEF FilesInv
  <2>6. QED
    BY <1>7, <2>4, <2>5 DEF EpsilonizePlan
<1>8. QED
  BY <1>4, <1>5, <1>6, <1>7 DEF PlanFilesNext

LEMMA FilesAreSaved == PlanFilesSpec => []FilesInv
<1>1. PlanFilesInit => FilesInv
  <2> SUFFICES ASSUME PlanFilesInit
               PROVE  FilesInv
    OBVIOUS
  <2>1. stage = "search" /\ planNumber = 1 /\ DOMAIN files = File /\ DOMAIN originals = File
    BY DEF PlanFilesInit, Init
  <2>2. planNumber \in 1..(MaxPlans + 1) /\ ~(planNumber > 1)
    BY <2>1, PlanFilesAssumption
  <2>3. QED
    BY <2>1, <2>2 DEF FilesInv
<1>2. FilesInv /\ [PlanFilesNext]_<<vars, fileVars>> => FilesInv'
  <2> SUFFICES ASSUME FilesInv, UNCHANGED <<vars, fileVars>>
               PROVE  FilesInv'
    BY FilesStep
  <2>1. /\ stage' = stage /\ planNumber' = planNumber /\ files' = files
        /\ output' = output /\ faults' = faults /\ originals' = originals
    BY DEF vars, fileVars
  <2>2. \A f : IsSaved(f) => IsSaved(f)'
    BY <2>1, SavedStays
  <2>3. LastIsSaved => LastIsSaved'
    <3>1. PICK m : m = planNumber - 1
      OBVIOUS
    <3>2. PICK b : b = Best
      OBVIOUS
    <3>3. QED
      BY <2>1, <2>2, <3>1, <3>2, Zenon DEF LastIsSaved, IsSaved, Best
  <2>4. stage = "epsilonizeBest" => IsSaved(planNumber - 1)'
    <3>1. PICK m : m = planNumber - 1
      OBVIOUS
    <3>2. QED
      BY <2>1, <2>2, <3>1, Zenon DEF FilesInv, IsSaved
  <2>5. QED
    BY <2>1, <2>3, <2>4 DEF FilesInv, Best, File
<1>3. QED
  BY <1>1, <1>2, PTL DEF PlanFilesSpec

\* Whenever no plan is being saved.
SavedWhileSearching ==
    stage \notin {"epsilonize", "epsilonizeBest"} /\ planNumber > 1 /\ "open" \notin faults =>
        LastIsSaved

\* Whatever epsilonize_plan meets: plan.best and the last plan.N, or their copies, hold
\* the same plan, the last that was better; only plan.N, if plan.best could not be opened.
THEOREM LastIsAlwaysSaved == PlanFilesSpec => []SavedWhileSearching
<1>1. FilesInv => SavedWhileSearching
  BY DEF FilesInv, SavedWhileSearching
<1>2. QED
  BY <1>1, FilesAreSaved, PTL

----------------------------------------------------------------------------
(* The script                                                              *)

\* An action as the script reads it.
Entry == [start : Nat, op : Op, duration : Nat]

\* A plan file as the planner writes it, and the script.
Written == {p \in Seq(Entry) :
              Len(p) <= MaxStarts /\ \A i \in DOMAIN p : p[i].duration % PlanUnit = 0}

\* A set of numbers that has a greatest one, and that it is the one.
Bounded(S) == S \in SUBSET Nat /\ S # {} /\ \E b \in Nat : \A x \in S : x <= b
IsGreatest(m, S) == m \in Nat /\ m \in S /\ \A x \in S : x <= m

LEMMA BoundedIs ==
    ASSUME NEW S \in SUBSET Nat, S # {}, NEW b \in Nat, \A x \in S : x <= b
    PROVE  Bounded(S)
  BY DEF Bounded

LEMMA GreatestIs ==
    ASSUME NEW S, Bounded(S)
    PROVE  IsGreatest(Greatest(S), S) /\ IsGreatest(Latest(S), S)
<1> DEFINE Bounds == {c \in Nat : \A x \in S : x <= c}
           top == Least(Bounds)
<1>1. Bounds \in SUBSET Nat /\ Bounds # {}
  BY DEF Bounded
<1>2. top \in Bounds /\ \A c \in Bounds : top <= c
  <2> HIDE DEF Bounds
  <2>1. QED
    BY <1>1, LeastIsLeast
<1> HIDE DEF top
<1>3. top \in Nat /\ \A x \in S : x <= top
  BY <1>2
<1>4. top \in S
  <2> SUFFICES ASSUME top \notin S PROVE FALSE
    OBVIOUS
  <2>1. \A x \in S : x \in Nat /\ x < top
    BY <1>3 DEF Bounded
  <2>2. PICK x \in S : TRUE
    BY DEF Bounded
  <2>3. top - 1 \in Nat /\ \A y \in S : y <= top - 1
    BY <1>3, <2>1, <2>2
  <2>4. top - 1 \in Bounds
    BY <2>3
  <2>5. QED
    BY <1>2, <1>3, <2>4
<1>5. /\ Greatest(S) \in S /\ \A x \in S : x <= Greatest(S)
      /\ Latest(S) \in S /\ \A x \in S : x <= Latest(S)
  BY <1>3, <1>4, Zenon DEF Greatest, Latest
<1>6. Greatest(S) \in Nat /\ Latest(S) \in Nat
  BY <1>5 DEF Bounded
<1>7. QED
  BY <1>5, <1>6, Zenon DEF IsGreatest

\* Products and divisions of numbers.
LEMMA ProductGrows ==
    ASSUME NEW u \in Nat, NEW k \in Nat, NEW l \in Nat, k < l
    PROVE  u * k \in Nat /\ u * l \in Nat /\ u * k + u <= u * l
<1>1. PICK d \in Nat : l = k + 1 + d
  <2>1. l - k - 1 \in Nat /\ l = k + 1 + (l - k - 1)
    OBVIOUS
  <2>2. QED
    BY <2>1
<1>2. u * l = u * k + u + u * d /\ u * d \in Nat /\ u * k \in Nat
  BY <1>1
<1>3. QED
  BY <1>2

LEMMA DivisionIs ==
    ASSUME NEW a \in Nat, NEW u \in Nat \ {0}
    PROVE  a \div u \in Nat /\ u * (a \div u) \in Nat /\ u * (a \div u) <= a /\ a < u * (a \div u) + u
  OBVIOUS

LEMMA MultipleIs ==
    ASSUME NEW u \in Nat \ {0}, NEW k \in Nat, NEW r \in 0..(u - 1)
    PROVE  (u * k + r) \div u = k
<1> DEFINE a == u * k + r
           q == a \div u
<1>1. u * k \in Nat /\ a \in Nat
  OBVIOUS
<1>2. q \in Nat /\ u * q \in Nat /\ u * q <= a /\ a < u * q + u
  BY <1>1, DivisionIs
<1>3. /\ q < k => u * q + u <= u * k
      /\ k < q => u * k + u <= u * q
  BY <1>2, ProductGrows
<1> HIDE DEF q
<1>4. ~(q < k)
  BY <1>1, <1>2, <1>3
<1>5. ~(k < q)
  BY <1>1, <1>2, <1>3
<1>6. q = k
  BY <1>2, <1>4, <1>5
<1>7. QED
  BY <1>6 DEF q

LEMMA NoRemainder ==
    ASSUME NEW u \in Nat \ {0}, NEW k \in Nat
    PROVE  (u * k) % u = 0
<1>1. (u * k + 0) \div u = k
  BY MultipleIs
<1>2. u * k \in Nat /\ u * k = u * ((u * k) \div u) + ((u * k) % u)
  <2>1. \A m \in Nat : m = u * (m \div u) + (m % u)
    OBVIOUS
  <2>2. u * k \in Nat
    OBVIOUS
  <2>3. QED
    BY <2>1, <2>2
<1>3. (u * k) \div u = k
  BY <1>1, <1>2
<1> DEFINE m == u * k
           r == m % u
<1>4. r \in Nat /\ m \in Nat
  OBVIOUS
<1>5. m = m + r
  BY <1>2, <1>3
<1> HIDE DEF m, r
<1>6. r = 0
  BY <1>4, <1>5
<1>7. QED
  BY <1>6 DEF m, r

\* Rounding to a unit: whole numbers of it are not lost.
LEMMA RoundedIs ==
    ASSUME NEW u \in Nat \ {0}, NEW a \in Nat, NEW d \in Nat
    PROVE  /\ Rounded(a, u) \in Nat
           /\ Rounded(d * u, u) = d
           /\ Rounded(a + d * u, u) = Rounded(a, u) + d
<1> DEFINE h == u \div 2
           x == a + h
           q == x \div u
<1>1. h \in Nat /\ h < u /\ x \in Nat
  OBVIOUS
<1>2. q \in Nat /\ u * q \in Nat /\ u * q <= x /\ x < u * q + u
  BY <1>1, DivisionIs
<1>3. d * u = u * d /\ u * d \in Nat
  OBVIOUS
<1>4. (u * d + h) \div u = d
  BY <1>1, MultipleIs
<1> DEFINE r == x - u * q
           e == u * d
<1>5. r \in 0..(u - 1)
  <2> HIDE DEF q, x
  <2>1. QED
    BY <1>1, <1>2
<1>6. (u * (q + d) + r) \div u = q + d
  BY <1>2, <1>5, MultipleIs
<1>7. u * (q + d) + r = x + u * d
  <2>1. u * (q + d) = u * q + u * d
    <3> HIDE DEF q
    <3>1. QED
      BY <1>2
  <2> HIDE DEF q, x
  <2>2. QED
    BY <1>1, <1>2, <1>3, <2>1
<1>8. x + u * d = (a + d * u) + h
  <2> HIDE DEF h
  <2>1. QED
    BY <1>1, <1>3
<1> HIDE DEF r
<1>9. ((a + d * u) + h) \div u = q + d
  BY <1>6, <1>7, <1>8
<1>10. (d * u + h) \div u = d
  BY <1>3, <1>4
<1>11. QED
  BY <1>2, <1>9, <1>10 DEF Rounded

\* What is a unit apart is still apart when it is rounded.
LEMMA RoundedInOrder ==
    ASSUME NEW u \in Nat \ {0}, NEW a \in Nat, NEW b \in Nat
    PROVE  /\ a <= b => Rounded(a, u) <= Rounded(b, u)
           /\ a + u <= b => Rounded(a, u) < Rounded(b, u)
<1> DEFINE h == u \div 2
           x == a + h
           y == b + h
           k == x \div u
           l == y \div u
<1>1. h \in Nat /\ x \in Nat /\ y \in Nat
  OBVIOUS
<1>2. /\ k \in Nat /\ u * k \in Nat /\ u * k <= x /\ x < u * k + u
      /\ l \in Nat /\ u * l \in Nat /\ u * l <= y /\ y < u * l + u
  BY <1>1, DivisionIs
<1>3. l < k => u * l + u <= u * k
  BY <1>2, ProductGrows
<1>4. k = l => u * k = u * l
  OBVIOUS
<1>5. a <= b => x <= y
  OBVIOUS
<1>6. a + u <= b => x + u <= y
  <2> HIDE DEF h
  <2>1. QED
    BY <1>1
<1>7. Rounded(a, u) = k /\ Rounded(b, u) = l
  BY DEF Rounded
<1> HIDE DEF k, l, x, y
<1>8. x <= y => k <= l
  BY <1>1, <1>2, <1>3
<1>9. x + u <= y => k < l
  BY <1>1, <1>2, <1>3, <1>4
<1>10. QED
  BY <1>5, <1>6, <1>7, <1>8, <1>9

----------------------------------------------------------------------------
(* The decimals of a plan                                                  *)

\* There are powers of ten up to the length of every plan.
LEMMA PartsIs ==
    ASSUME NEW p, Len(p) \in Nat, Len(p) <= MaxStarts
    PROVE  Parts(p) \in Nat \ {0}
<1> DEFINE Q == {q \in PowersOfTen : Len(p) <= q}
<1>1. Q \in SUBSET Nat
  BY DecimalsAssumption
<1>2. Q # {}
  <2>1. PICK q \in PowersOfTen : MaxStarts <= q
    BY DecimalsAssumption
  <2>2. q \in Nat /\ MaxStarts \in Nat
    BY DecimalsAssumption, ReschedulingAssumption
  <2>3. Len(p) <= q
    BY <2>1, <2>2
  <2>4. QED
    BY <2>1, <2>3
<1>3. NextPowerOfTen(Len(p)) = Least(Q)
  BY Zenon DEF NextPowerOfTen
<1> HIDE DEF Q
<1>4. Least(Q) \in Q
  BY <1>1, <1>2, LeastIsLeast
<1>5. Least(Q) \in PowersOfTen
  BY <1>4 DEF Q
<1>6. NextPowerOfTen(Len(p)) \in Nat \ {0}
  BY <1>3, <1>5, DecimalsAssumption
<1>7. QED
  BY <1>6 DEF Parts

\* The decimal places that no duration has a fraction of.
Places(p) == {g \in DecimalPlaces : \A i \in DOMAIN p : p[i].duration % (g * Parts(p)) = 0}

\* The separation is a decimal place.
LEMMA SeparationIs ==
    ASSUME NEW p \in Seq(Entry), \A i \in DOMAIN p : p[i].duration % (PlanUnit * Parts(p)) = 0
    PROVE  RequiredSeparation(p) \in Nat \ {0}
<1> DEFINE S == Places(p)
<1>1. RequiredSeparation(p) = Greatest(S)
  BY Zenon DEF RequiredSeparation, Granularity, Places
<1>2. PlanUnit \in S
  BY DecimalsAssumption DEF Places
<1>3. S \subseteq DecimalPlaces
  BY DEF Places
<1> HIDE DEF S
<1>4. PICK second \in DecimalPlaces : \A g \in DecimalPlaces : g <= second
  BY DecimalsAssumption
<1>5. second \in Nat /\ S \in SUBSET Nat /\ \A g \in S : g <= second
  BY <1>3, <1>4, DecimalsAssumption
<1>6. Bounded(S)
  BY <1>2, <1>5, BoundedIs
<1>7. Greatest(S) \in S
  BY <1>6, GreatestIs, Zenon DEF IsGreatest
<1>8. QED
  BY <1>1, <1>3, <1>7, DecimalsAssumption

\* It depends on the durations alone.
LEMMA SameSeparation ==
    ASSUME NEW p \in Seq(Entry), NEW q \in Seq(Entry), Len(q) = Len(p),
           \A i \in DOMAIN p : q[i].duration = p[i].duration
    PROVE  RequiredSeparation(q) = RequiredSeparation(p)
<1>1. Parts(q) = Parts(p) /\ DOMAIN q = DOMAIN p
  BY DEF Parts
<1>2. Places(q) = Places(p)
  BY <1>1 DEF Places
<1>3. /\ RequiredSeparation(q) = Greatest(Places(q))
      /\ RequiredSeparation(p) = Greatest(Places(p))
  BY Zenon DEF RequiredSeparation, Granularity, Places
<1>4. QED
  BY <1>2, <1>3

\* A plan in parts of a unit: whatever was written divides into them.
LEMMA InPartsIs ==
    ASSUME NEW p \in Written
    PROVE  LET x == InParts(p)
           IN  /\ x \in Seq(Entry) /\ Len(x) = Len(p) /\ Parts(x) = Parts(p)
               /\ Parts(p) \in Nat \ {0}
               /\ \A i \in 1..Len(p) : /\ x[i].start = p[i].start * Parts(p)
                                       /\ x[i].duration = p[i].duration * Parts(p)
               /\ \A i \in DOMAIN x : x[i].duration % (PlanUnit * Parts(x)) = 0
<1> DEFINE n == Len(p)
           u == Parts(p)
           x == InParts(p)
           a(i) == [p[i] EXCEPT !.start = @ * u, !.duration = @ * u]
           f == [i \in 1..n |-> a(i)]
<1>1. p \in Seq(Entry) /\ n \in Nat /\ DOMAIN p = 1..n /\ n <= MaxStarts
  BY DEF Written
<1>2. u \in Nat \ {0}
  BY <1>1, PartsIs
<1>3. x = SubSeq(f, 1, n)
  BY <1>1, Zenon DEF InParts
<1> HIDE DEF u, n
<1>4. ASSUME NEW i \in 1..n
      PROVE  /\ a(i) \in Entry /\ a(i).start = p[i].start * u
             /\ a(i).duration = p[i].duration * u /\ p[i].duration \in Nat
  <2>1. p[i] \in Entry
    BY <1>1
  <2>2. p[i].start \in Nat /\ p[i].duration \in Nat
    BY <2>1 DEF Entry
  <2>3. PICK y, z \in Nat : y = p[i].start * u /\ z = p[i].duration * u
    BY <1>2, <2>2
  <2>4. a(i) = [p[i] EXCEPT !.start = y, !.duration = z]
    BY <2>3
  <2> HIDE DEF a
  <2>5. QED
    BY <2>1, <2>2, <2>3, <2>4 DEF Entry
<1>5. f \in Seq(Entry) /\ Len(f) = n /\ \A i \in 1..n : f[i] = a(i)
  <2> HIDE DEF a
  <2>1. QED
    BY <1>1, <1>4
<1> HIDE DEF f
<1>6. x \in Seq(Entry) /\ Len(x) = n /\ \A i \in 1..n : x[i] = f[i]
  <2> HIDE DEF a
  <2>1. /\ SubSeq(f, 1, n) \in Seq(Entry) /\ Len(SubSeq(f, 1, n)) = n
        /\ \A i \in 1..n : SubSeq(f, 1, n)[i] = f[i]
    BY <1>1, <1>5
  <2>2. QED
    BY <1>3, <2>1
<1> HIDE DEF x, a
<1>7. Parts(x) = u /\ DOMAIN x = 1..n
  BY <1>6 DEF Parts, u, n
<1>8. ASSUME NEW i \in 1..n
      PROVE  x[i].duration % (PlanUnit * u) = 0
  <2> DEFINE d == p[i].duration
  <2>1. d \in Nat /\ d % PlanUnit = 0
    BY <1>1, <1>4 DEF Written
  <2>2. PICK k \in Nat : d = PlanUnit * k
    <3> HIDE DEF d
    <3>1. d \div PlanUnit \in Nat /\ d = PlanUnit * (d \div PlanUnit)
      BY <2>1 DEF PlanUnit
    <3>2. QED
      BY <3>1
  <2>3. x[i].duration = d * u
    BY <1>4, <1>5, <1>6
  <2> HIDE DEF d
  <2>4. d * u = (PlanUnit * u) * k /\ PlanUnit * u \in Nat \ {0}
    BY <1>2, <2>2 DEF PlanUnit
  <2>5. QED
    BY <2>3, <2>4, NoRemainder
<1>9. \A i \in 1..n : x[i].start = p[i].start * u /\ x[i].duration = p[i].duration * u
  BY <1>4, <1>5, <1>6
<1>10. QED
  BY <1>2, <1>6, <1>7, <1>8, <1>9 DEF n, u, x

\* The actions keep their order in the file, their operators and durations.
LEMMA AddedIs ==
    ASSUME NEW p \in Seq(Entry), RequiredSeparation(p) \in Nat
    PROVE  /\ AddSeparation(p) \in Seq(Entry) /\ Len(AddSeparation(p)) = Len(p)
           /\ \A i \in 1..Len(p) :
                 AddSeparation(p)[i] = [p[i] EXCEPT !.start = @ + i * RequiredSeparation(p)]
<1> DEFINE n == Len(p)
           sep == RequiredSeparation(p)
           a(i) == [p[i] EXCEPT !.start = @ + i * sep]
           f == [i \in 1..n |-> a(i)]
<1>1. n \in Nat /\ DOMAIN p = 1..n
  OBVIOUS
<1>2. \A i \in 1..n : a(i) \in Entry
  <2> TAKE i \in 1..n
  <2>1. p[i] \in Entry
    OBVIOUS
  <2>2. PICK k \in Nat : k = i * sep
    OBVIOUS
  <2> HIDE DEF sep
  <2>3. PICK c \in Entry : c = p[i]
    BY <2>1
  <2>4. PICK s \in Nat : s = c.start + k
    BY DEF Entry
  <2>5. [c EXCEPT !.start = s] \in Entry
    BY DEF Entry
  <2>6. QED
    BY <2>2, <2>3, <2>4, <2>5
<1>3. AddSeparation(p) = SubSeq(f, 1, n)
  BY <1>1, Zenon DEF AddSeparation
<1> HIDE DEF n
<1>4. f \in Seq(Entry) /\ Len(f) = n
  <2> HIDE DEF a
  <2>1. QED
    BY <1>1, <1>2
<1>5. \A i \in 1..n : f[i] = a(i)
  OBVIOUS
<1> HIDE DEF f, a
<1>6. SubSeq(f, 1, n) \in Seq(Entry) /\ Len(SubSeq(f, 1, n)) = n
      /\ \A i \in 1..n : SubSeq(f, 1, n)[i] = f[i]
  BY <1>1, <1>4
<1>7. QED
  BY <1>3, <1>5, <1>6 DEF n, a

\* The i-th of a list of actions comes before the j-th, by their starts.
Earlier(q, i, j) == q[i].start < q[j].start \/ (q[i].start = q[j].start /\ i <= j)

\* ByStart is every action once, none after one that starts later.
LEMMA ByStartIs ==
    ASSUME NEW q \in Seq(Entry)
    PROVE  LET n == Len(q)
               b == ByStart(q)
           IN  /\ \A r \in 1..n : b[r] \in 1..n
               /\ \A i \in 1..n : \E r \in 1..n : b[r] = i
               /\ \A r, t \in 1..n : r < t => b[r] # b[t] /\ q[b[r]].start <= q[b[t]].start
<1> DEFINE n == Len(q)
           b == ByStart(q)
           rank(i) == Rank(q, i)
           f == [i \in 1..n |-> rank(i)]
<1>1. n \in Nat /\ DOMAIN q = 1..n /\ \A i \in 1..n : q[i].start \in Nat
  <2>1. \A i \in 1..n : q[i] \in Entry
    OBVIOUS
  <2>2. QED
    BY <2>1 DEF Entry
<1>2. b = [r \in DOMAIN q |-> CHOOSE i \in DOMAIN q : rank(i) = r]
  BY Zenon DEF ByStart
<1> HIDE DEF n, b
<1>3. /\ \A i \in 1..n : i \in NoLater(q, i) /\ NoLater(q, i) \subseteq 1..n
      /\ \A i, j \in 1..n : j \in NoLater(q, i) <=> Earlier(q, j, i)
  <2>1. \A i, j \in 1..n : j \in NoLater(q, i) <=> Earlier(q, j, i)
    <3> TAKE i, j \in 1..n
    <3>1. j \in DOMAIN q
      BY <1>1
    <3>2. j \in NoLater(q, i) <=>
             (q[j].start < q[i].start \/ (q[j].start = q[i].start /\ j <= i))
      BY <3>1 DEF NoLater
    <3>3. QED
      BY <3>2, Zenon DEF Earlier
  <2>2. \A i \in 1..n : Earlier(q, i, i)
    BY <1>1 DEF Earlier
  <2>3. \A i : NoLater(q, i) \subseteq 1..n
    BY <1>1 DEF NoLater
  <2>4. QED
    BY <2>1, <2>2, <2>3
<1>4. \A i : rank(i) = Cardinality(NoLater(q, i))
  BY Zenon DEF Rank
<1>5. IsFiniteSet(1..n) /\ Cardinality(1..n) = n
  BY <1>1, FS_Interval
<1>6. \A i \in 1..n : IsFiniteSet(NoLater(q, i)) /\ rank(i) \in 1..n
  <2> TAKE i \in 1..n
  <2>1. IsFiniteSet(NoLater(q, i)) /\ rank(i) <= n
    <3>1. NoLater(q, i) \in SUBSET (1..n)
      BY <1>3
    <3>2. IsFiniteSet(NoLater(q, i)) /\ Cardinality(NoLater(q, i)) <= Cardinality(1..n)
      BY <1>5, <3>1, FS_Subset
    <3>3. QED
      BY <1>4, <1>5, <3>2
  <2>2. rank(i) \in Nat /\ rank(i) # 0
    BY <1>3, <1>4, <2>1, FS_CardinalityType, FS_EmptySet
  <2> HIDE DEF rank
  <2>3. QED
    BY <1>1, <2>1, <2>2
\* Of two actions, the one that comes before the other has the lower rank.
<1>7. ASSUME NEW i \in 1..n, NEW j \in 1..n, Earlier(q, i, j), i # j
      PROVE  rank(i) < rank(j)
  <2>1. \A k \in 1..n : Earlier(q, k, i) => Earlier(q, k, j)
    <3> TAKE k \in 1..n
    <3>1. q[i].start \in Nat /\ q[j].start \in Nat /\ q[k].start \in Nat
      BY <1>1
    <3>2. QED
      BY <1>7, <3>1 DEF Earlier
  <2>2. ~Earlier(q, j, i)
    BY <1>1, <1>7 DEF Earlier
  <2>3. NoLater(q, i) \subseteq NoLater(q, j)
    BY <1>3, <2>1
  <2>4. j \in NoLater(q, j) /\ j \notin NoLater(q, i)
    BY <1>3, <2>2
  <2>5. rank(i) <= rank(j) /\ rank(i) # rank(j)
    BY <1>3, <1>4, <1>6, <2>3, <2>4, FS_Subset
  <2>6. rank(i) \in Nat /\ rank(j) \in Nat
    BY <1>6
  <2> HIDE DEF rank
  <2>7. QED
    BY <2>5, <2>6
<1>8. \A i, j \in 1..n : Earlier(q, i, j) \/ Earlier(q, j, i)
  BY <1>1 DEF Earlier
<1> HIDE DEF rank
<1>9. \A i, j \in 1..n : rank(i) = rank(j) => i = j
  <2> SUFFICES ASSUME NEW i \in 1..n, NEW j \in 1..n, rank(i) = rank(j), i # j
               PROVE  FALSE
    OBVIOUS
  <2>1. rank(i) < rank(j) \/ rank(j) < rank(i)
    BY <1>7, <1>8
  <2>2. rank(i) \in 1..n /\ rank(j) \in 1..n
    BY <1>6
  <2>3. QED
    BY <2>1, <2>2
<1>10. \A r \in 1..n : \E i \in 1..n : rank(i) = r
  <2>1. f \in [1..n -> 1..n]
    BY <1>6
  <2>2. f \in Injection(1..n, 1..n)
    BY <1>9, <2>1 DEF Injection, IsInjective
  <2> HIDE DEF f
  <2>3. f \in Surjection(1..n, 1..n)
    BY <1>5, <2>2, FS_Injection
  <2>4. \A r \in 1..n : \E i \in 1..n : f[i] = r
    BY <2>3 DEF Surjection
  <2>5. QED
    BY <2>4 DEF f
<1>11. \A r \in 1..n : b[r] \in 1..n /\ rank(b[r]) = r
  <2> TAKE r \in 1..n
  <2>1. b[r] = CHOOSE i \in DOMAIN q : rank(i) = r
    BY <1>1, <1>2
  <2>2. \E i \in DOMAIN q : rank(i) = r
    BY <1>1, <1>10
  <2>3. b[r] \in DOMAIN q /\ rank(b[r]) = r
    BY <2>1, <2>2, Zenon
  <2>4. QED
    BY <1>1, <2>3
<1>12. \A i \in 1..n : \E r \in 1..n : b[r] = i
  BY <1>6, <1>9, <1>11
<1>13. \A r, t \in 1..n : r < t => b[r] # b[t] /\ q[b[r]].start <= q[b[t]].start
  <2> SUFFICES ASSUME NEW r \in 1..n, NEW t \in 1..n, r < t
               PROVE  b[r] # b[t] /\ q[b[r]].start <= q[b[t]].start
    OBVIOUS
  <2>1. PICK i \in 1..n : i = b[r] /\ rank(i) = r
    BY <1>11
  <2>2. PICK j \in 1..n : j = b[t] /\ rank(j) = t
    BY <1>11
  <2>3. i # j
    BY <1>1, <2>1, <2>2
  <2>4. ~Earlier(q, j, i)
    <3> SUFFICES ASSUME Earlier(q, j, i) PROVE FALSE
      OBVIOUS
    <3>1. t < r
      BY <1>7, <2>1, <2>2, <2>3
    <3>2. QED
      BY <1>1, <3>1
  <2>5. Earlier(q, i, j)
    BY <1>8, <2>4
  <2>6. q[i].start <= q[j].start
    BY <1>1, <2>5 DEF Earlier
  <2>7. QED
    BY <2>1, <2>2, <2>3, <2>6
<1>14. QED
  BY <1>11, <1>12, <1>13 DEF n, b

\* The last happening until a time is none of those after it, and no other one until
\* then is later.
LEMMA HappeningIs ==
    ASSUME NEW n \in Nat, NEW q \in [1..n -> Entry], NEW i \in 1..n, NEW time \in Nat
    PROVE  LET last == LastHappeningBefore(q, time, i)
           IN  /\ last \in Nat /\ last <= time
               /\ \A j \in 1..n \ {i} :
                     /\ q[j].start <= time => q[j].start <= last
                     /\ ActionEnd(q[j]) <= time => ActionEnd(q[j]) <= last
<1> DEFINE starts == {q[j].start : j \in {k \in DOMAIN q \ {i} : q[k].start <= time}}
           ends == {ActionEnd(q[j]) : j \in {k \in DOMAIN q \ {i} : ActionEnd(q[k]) <= time}}
           S == {0} \cup starts \cup ends
<1>1. \A j \in 1..n : q[j].start \in Nat /\ ActionEnd(q[j]) \in Nat
  <2> TAKE j \in 1..n
  <2>1. q[j] \in Entry
    OBVIOUS
  <2>2. q[j].start \in Nat /\ q[j].duration \in Nat
    BY <2>1 DEF Entry
  <2>3. QED
    BY <2>2 DEF ActionEnd
<1>2. LastHappeningBefore(q, time, i) = Greatest(S)
  BY Zenon DEF LastHappeningBefore
<1>3. \A x \in starts : x \in Nat /\ x <= time
  BY <1>1
<1>4. \A x \in ends : x \in Nat /\ x <= time
  <2> HIDE DEF starts
  <2>1. DOMAIN q = 1..n
    OBVIOUS
  <2>2. QED
    BY <1>1, <2>1
<1>5. \A j \in 1..n \ {i} : /\ q[j].start <= time => q[j].start \in starts
                            /\ ActionEnd(q[j]) <= time => ActionEnd(q[j]) \in ends
  OBVIOUS
<1> HIDE DEF starts, ends
<1>6. S \in SUBSET Nat /\ \A x \in S : x <= time
  BY <1>3, <1>4
<1>7. Bounded(S)
  BY <1>6 DEF Bounded
<1>8. IsGreatest(Greatest(S), S)
  BY <1>7, GreatestIs, Zenon
<1>9. Greatest(S) \in Nat /\ Greatest(S) \in S /\ \A x \in S : x <= Greatest(S)
  BY <1>8, Zenon DEF IsGreatest
<1>10. starts \subseteq S /\ ends \subseteq S
  OBVIOUS
<1> HIDE DEF S
<1>11. QED
  BY <1>2, <1>5, <1>6, <1>9, <1>10

\* The script's loop: an action starts at the last happening before it.
MovedUp(q, i) == [q EXCEPT ![i].start = LastHappeningBefore(q, @, i)]

LEMMA MovedUpIs ==
    ASSUME NEW n \in Nat, NEW q \in [1..n -> Entry], NEW i \in 1..n
    PROVE  /\ MovedUp(q, i) \in [1..n -> Entry]
           /\ MovedUp(q, i)[i].duration = q[i].duration
           /\ MovedUp(q, i)[i].start = LastHappeningBefore(q, q[i].start, i)
           /\ \A j \in 1..n \ {i} : MovedUp(q, i)[j] = q[j]
<1> DEFINE last == LastHappeningBefore(q, q[i].start, i)
           e == [q[i] EXCEPT !.start = last]
<1>1. q[i] \in Entry
  OBVIOUS
<1>2. q[i].start \in Nat
  BY <1>1 DEF Entry
<1>3. last \in Nat
  BY <1>2, HappeningIs
<1>4. MovedUp(q, i) = [q EXCEPT ![i] = [q[i] EXCEPT !.start = last]]
  BY DEF MovedUp
<1> HIDE DEF last
<1>5. e \in Entry /\ e.duration = q[i].duration /\ e.start = last
  BY <1>1, <1>3 DEF Entry
<1>6. MovedUp(q, i) = [q EXCEPT ![i] = e]
  BY <1>4
<1> HIDE DEF e
<1>7. QED
  BY <1>5, <1>6 DEF last

\* After k rounds, of the actions a in the order b: those that have not been moved are
\* as they were, none has become later, and those that have been moved are in order.
HaveMoved(q, k, a, b, n) ==
    /\ \A i \in 1..n : q[i].duration = a[i].duration /\ q[i].start <= a[i].start
    /\ \A r \in 1..n : r > k => q[b[r]].start = a[b[r]].start
    /\ \A r, t \in 1..n : r < t /\ t <= k =>
          /\ q[b[r]].start <= q[b[t]].start
          /\ ActionEnd(a[b[r]]) <= a[b[t]].start => ActionEnd(q[b[r]]) <= q[b[t]].start

\* b is an order of the actions by their starts.
IsByStart(b, a, n) ==
    /\ \A r \in 1..n : b[r] \in 1..n
    /\ \A i \in 1..n : \E r \in 1..n : b[r] = i
    /\ \A r, t \in 1..n : r < t => b[r] # b[t] /\ a[b[r]].start <= a[b[t]].start

LEMMA MoveKeepsOrder ==
    ASSUME NEW n \in Nat, NEW a \in [1..n -> Entry], NEW b, IsByStart(b, a, n),
           NEW k \in 0..(n - 1), NEW q \in [1..n -> Entry], HaveMoved(q, k, a, b, n)
    PROVE  HaveMoved(MovedUp(q, b[k + 1]), k + 1, a, b, n)
<1>1. k + 1 \in 1..n
  OBVIOUS
<1>2. PICK i \in 1..n : i = b[k + 1]
  BY <1>1 DEF IsByStart
<1> DEFINE m == MovedUp(q, i)
           time == q[i].start
           last == LastHappeningBefore(q, time, i)
\* The starts and durations of the actions are numbers.
<1>3. ASSUME NEW c \in [1..n -> Entry], NEW j \in 1..n
      PROVE  c[j].start \in Nat /\ c[j].duration \in Nat
             /\ ActionEnd(c[j]) = c[j].start + c[j].duration
  <2>1. c[j] \in Entry
    OBVIOUS
  <2>2. QED
    BY <2>1 DEF Entry, ActionEnd
<1>4. /\ m \in [1..n -> Entry] /\ m[i].duration = q[i].duration /\ m[i].start = last
      /\ \A j \in 1..n \ {i} : m[j] = q[j]
  BY MovedUpIs
<1>5. time \in Nat /\ time = a[i].start
  BY <1>1, <1>2, <1>3 DEF HaveMoved
<1>6. /\ last \in Nat /\ last <= time
      /\ \A j \in 1..n \ {i} : /\ q[j].start <= time => q[j].start <= last
                               /\ ActionEnd(q[j]) <= time => ActionEnd(q[j]) <= last
  BY <1>5, HappeningIs
<1> HIDE DEF m, time, last
<1>7. \A j \in 1..n : m[j].duration = a[j].duration /\ m[j].start <= a[j].start
  BY <1>4, <1>5, <1>6 DEF HaveMoved
<1>8. \A r \in 1..n : r # k + 1 => b[r] \in 1..n \ {i}
  <2> SUFFICES ASSUME NEW r \in 1..n, r # k + 1 PROVE b[r] \in 1..n \ {i}
    OBVIOUS
  <2>1. r < k + 1 \/ k + 1 < r
    OBVIOUS
  <2>2. QED
    BY <1>1, <1>2, <2>1 DEF IsByStart
<1>9. \A r \in 1..n : r > k + 1 => m[b[r]].start = a[b[r]].start
  BY <1>4, <1>8 DEF HaveMoved
\* An action that was moved before is, where it has become no later, one of the
\* happenings that count.
<1>10. ASSUME NEW r \in 1..n, r < k + 1
       PROVE  /\ m[b[r]].start <= m[i].start
              /\ ActionEnd(a[b[r]]) <= a[i].start => ActionEnd(m[b[r]]) <= m[i].start
  <2>1. PICK j \in 1..n \ {i} : j = b[r]
    BY <1>8, <1>10
  <2>2. a[j].start <= a[i].start
    BY <1>1, <1>2, <1>10, <2>1 DEF IsByStart
  <2>3. q[j].start <= a[j].start /\ q[j].duration = a[j].duration
    BY DEF HaveMoved
  <2>4. q[j].start \in Nat /\ a[j].start \in Nat /\ a[i].start \in Nat
    BY <1>3
  <2>5. q[j].start <= last
    BY <1>5, <1>6, <2>2, <2>3, <2>4
  <2>6. ActionEnd(a[j]) <= a[i].start => ActionEnd(q[j]) <= last
    <3>1. q[j].duration = a[j].duration /\ a[j].duration \in Nat
      BY <1>3, <2>3
    <3>2. ActionEnd(q[j]) = q[j].start + q[j].duration
      BY <1>3
    <3>3. ActionEnd(a[j]) = a[j].start + a[j].duration
      BY <1>3
    <3>4. ActionEnd(q[j]) <= ActionEnd(a[j]) /\ ActionEnd(a[j]) \in Nat /\ ActionEnd(q[j]) \in Nat
      BY <2>3, <2>4, <3>1, <3>2, <3>3
    <3>5. QED
      BY <1>5, <1>6, <3>4
  <2>7. QED
    BY <1>4, <2>1, <2>5, <2>6
<1>11. \A r, t \in 1..n : r < t /\ t <= k + 1 =>
          /\ m[b[r]].start <= m[b[t]].start
          /\ ActionEnd(a[b[r]]) <= a[b[t]].start => ActionEnd(m[b[r]]) <= m[b[t]].start
  <2> SUFFICES ASSUME NEW r \in 1..n, NEW t \in 1..n, r < t, t <= k + 1
               PROVE  /\ m[b[r]].start <= m[b[t]].start
                      /\ ActionEnd(a[b[r]]) <= a[b[t]].start => ActionEnd(m[b[r]]) <= m[b[t]].start
    OBVIOUS
  <2>1. CASE t = k + 1
    BY <1>2, <1>10, <2>1
  <2>2. CASE t # k + 1
    <3>1. t <= k /\ r # k + 1
      BY <2>2
    <3>2. m[b[r]] = q[b[r]] /\ m[b[t]] = q[b[t]]
      BY <1>4, <1>8, <2>2, <3>1
    <3>3. QED
      BY <3>1, <3>2 DEF HaveMoved
  <2>3. QED
    BY <2>1, <2>2
<1>12. HaveMoved(m, k + 1, a, b, n)
  BY <1>7, <1>9, <1>11, Zenon DEF HaveMoved
<1>13. QED
  BY <1>2, <1>12 DEF m

\* What the script makes of the actions a whose time it removes.
LEMMA RemovedIs ==
    ASSUME NEW p \in Seq(Entry), RequiredSeparation(p) \in Nat
    PROVE  LET n == Len(p)
               a == AddSeparation(p)
           IN  /\ RemoveWastedTime(p) \in [1..n -> Entry]
               /\ \E b : IsByStart(b, a, n) /\ HaveMoved(RemoveWastedTime(p), n, a, b, n)
<1> DEFINE n == Len(p)
           a == AddSeparation(p)
           b == ByStart(a)
           T == [1..n -> Entry]
           step == [x \in (1..n) \X T |-> MovedUp(x[2], b[x[1]])]
           Solves(f) == f = [k \in 0..n |-> IF k = 0 THEN a ELSE MovedUp(f[k - 1], b[k])]
<1>1. n \in Nat
  OBVIOUS
<1>2. a \in Seq(Entry) /\ Len(a) = n
  BY AddedIs
<1>3. a \in T
  <2> HIDE DEF a, n
  <2>1. QED
    BY <1>1, <1>2
<1>4. IsByStart(b, a, n)
  <2> HIDE DEF a, n
  <2>1. \A r \in 1..Len(a) : b[r] \in 1..Len(a)
    BY <1>2, ByStartIs
  <2>2. \A i \in 1..Len(a) : \E r \in 1..Len(a) : b[r] = i
    BY <1>2, ByStartIs
  <2>3. \A r, t \in 1..Len(a) : r < t => b[r] # b[t] /\ a[b[r]].start <= a[b[t]].start
    BY <1>2, ByStartIs
  <2> HIDE DEF b
  <2>4. QED
    BY <1>2, <2>1, <2>2, <2>3, Zenon DEF IsByStart
<1>5. RemoveWastedTime(p) = (CHOOSE f : Solves(f))[n]
  BY Zenon DEF RemoveWastedTime, MovedUp
<1> HIDE DEF a, b, n
<1>6. \A k \in 1..n : \A q \in T : step[<<k, q>>] = MovedUp(q, b[k])
  OBVIOUS
<1>7. \A k \in 1..n : b[k] \in 1..n
  BY <1>4 DEF IsByStart
<1>8. \A k \in 1..n : \A q \in T : MovedUp(q, b[k]) \in T
  BY <1>1, <1>7, MovedUpIs
<1>9. step \in [(1..n) \X T -> T]
  BY <1>8
<1> HIDE DEF step, T
<1>10. \E f : Solves(f) /\ \A k \in 0..n : f[k] \in T
  <2>1. PICK f \in [0..n -> T] : IsLoop(f, n, a, step)
    BY <1>1, <1>3, <1>9, Iterates
  <2>2. \A k \in 0..n : f[k] = IF k = 0 THEN a ELSE MovedUp(f[k - 1], b[k])
    <3> TAKE k \in 0..n
    <3>1. f[k] = IF k = 0 THEN a ELSE step[<<k, f[k - 1]>>]
      BY <2>1, Zenon DEF IsLoop
    <3>2. k # 0 => k \in 1..n /\ k - 1 \in 0..n
      BY <1>1
    <3>3. QED
      BY <1>6, <2>1, <3>1, <3>2
  <2>3. f = [k \in 0..n |-> f[k]]
    OBVIOUS
  <2>4. Solves(f)
    BY <2>2, <2>3
  <2>5. QED
    BY <2>4
<1>11. PICK f : Solves(f) /\ RemoveWastedTime(p) = f[n]
  <2> DEFINE g == CHOOSE f : Solves(f)
  <2>1. Solves(g)
    <3> HIDE DEF Solves
    <3>1. QED
      BY <1>10, Zenon
  <2> HIDE DEF Solves
  <2>2. RemoveWastedTime(p) = g[n]
    BY <1>5
  <2> HIDE DEF g
  <2>3. QED
    BY <2>1, <2>2
<1>12. \A k \in 0..n : f[k] = IF k = 0 THEN a ELSE MovedUp(f[k - 1], b[k])
  BY <1>11, Zenon
<1> HIDE DEF Solves
<1> DEFINE Good == {k \in Nat : f[k] \in T /\ HaveMoved(f[k], k, a, b, n)}
<1>13. 0 \in Good
  <2>1. f[0] = a
    BY <1>1, <1>12
  <2>2. \A i \in 1..n : a[i].start \in Nat
    <3> TAKE i \in 1..n
    <3>1. a[i] \in Entry
      BY <1>3 DEF T
    <3>2. QED
      BY <3>1 DEF Entry
  <2>3. HaveMoved(a, 0, a, b, n)
    BY <1>1, <2>2 DEF HaveMoved
  <2>4. QED
    BY <1>3, <2>1, <2>3
<1>14. ASSUME NEW k \in 0..(n - 1), k \in Good
       PROVE  k + 1 \in Good
  <2>1. k + 1 \in 1..n /\ k + 1 # 0 /\ (k + 1) - 1 = k /\ k + 1 \in Nat
    BY <1>1
  <2>2. f[k + 1] = MovedUp(f[k], b[k + 1])
    BY <1>12, <2>1
  <2>3. f[k] \in T /\ HaveMoved(f[k], k, a, b, n)
    BY <1>14
  <2>4. f[k + 1] \in T
    BY <1>8, <2>1, <2>2, <2>3
  <2>5. HaveMoved(MovedUp(f[k], b[k + 1]), k + 1, a, b, n)
    BY <1>1, <1>3, <1>4, <2>3, MoveKeepsOrder DEF T
  <2>6. QED
    BY <2>1, <2>2, <2>4, <2>5
<1>15. n \in Good
  <2> HIDE DEF Good
  <2>1. n \in 0..n
    BY <1>1
  <2>2. QED
    BY <1>1, <1>13, <1>14, <2>1, UpTo
<1>16. f[n] \in T /\ HaveMoved(f[n], n, a, b, n)
  BY <1>15
<1>17. QED
  BY <1>4, <1>11, <1>16 DEF T, a, n

\* What becomes of the end of an action that is moved.
LEMMA LaterIs ==
    ASSUME NEW c \in Entry, NEW x \in Nat
    PROVE  LET e == [c EXCEPT !.start = @ + x]
           IN  /\ c.start \in Nat /\ c.duration \in Nat
               /\ ActionEnd(c) \in Nat /\ ActionEnd(c) = c.start + c.duration
               /\ e.start = c.start + x /\ ActionEnd(e) = ActionEnd(c) + x
<1>1. c.start \in Nat /\ c.duration \in Nat
  BY DEF Entry
<1> DEFINE e == [c EXCEPT !.start = @ + x]
<1>2. e.start = c.start + x /\ e.duration = c.duration
  BY DEF Entry
<1> HIDE DEF e
<1>3. e.start + e.duration = (c.start + c.duration) + x /\ c.start + c.duration \in Nat
  BY <1>1, <1>2
<1>4. QED
  BY <1>1, <1>2, <1>3 DEF e, ActionEnd

\* What the script makes of a plan, before it is rounded, keeps the order of its actions,
\* and separates them.
LEMMA SeparatedKeepsOrder ==
    ASSUME NEW p \in Seq(Entry), \A i \in DOMAIN p : p[i].duration % (PlanUnit * Parts(p)) = 0
    PROVE  LET q == AddSeparation(RemoveWastedTime(p))
               sep == RequiredSeparation(p)
           IN  /\ q \in Seq(Entry) /\ Len(q) = Len(p) /\ sep \in Nat \ {0}
               /\ \A i \in 1..Len(p) : q[i].duration = p[i].duration
               /\ \A i, j \in 1..Len(p) : i < j =>
                     /\ p[i].start <= p[j].start => q[i].start + sep <= q[j].start
                     /\ ActionEnd(p[i]) <= p[j].start => ActionEnd(q[i]) + sep <= q[j].start
<1> DEFINE n == Len(p)
           a == AddSeparation(p)
           m == RemoveWastedTime(p)
           q == AddSeparation(m)
           sep == RequiredSeparation(p)
<1>1. n \in Nat /\ DOMAIN p = 1..n
  OBVIOUS
<1>2. sep \in Nat \ {0}
  BY SeparationIs
<1>3. /\ Len(a) = n
      /\ \A i \in 1..n : a[i] = [p[i] EXCEPT !.start = @ + i * sep]
  BY <1>2, AddedIs
<1>4. m \in [1..n -> Entry] /\ \E b : IsByStart(b, a, n) /\ HaveMoved(m, n, a, b, n)
  BY <1>2, RemovedIs
<1>5. PICK b : IsByStart(b, a, n) /\ HaveMoved(m, n, a, b, n)
  BY <1>4
<1> HIDE DEF n, m, a, sep
<1>6. m \in Seq(Entry) /\ Len(m) = n
  BY <1>1, <1>4
<1>7. \A i \in 1..n : m[i].duration = p[i].duration
  <2> TAKE i \in 1..n
  <2>1. p[i] \in Entry
    BY <1>1 DEF n
  <2>2. PICK x \in Nat : x = i * sep
    BY <1>2
  <2>3. a[i] = [p[i] EXCEPT !.start = @ + x]
    BY <1>3, <2>2
  <2>4. a[i].duration = p[i].duration
    BY <2>1, <2>3 DEF Entry
  <2>5. QED
    BY <1>5, <2>4 DEF HaveMoved
<1>8. RequiredSeparation(m) = sep
  <2>1. Len(m) = Len(p) /\ \A i \in DOMAIN p : m[i].duration = p[i].duration
    BY <1>1, <1>6, <1>7 DEF n
  <2>2. QED
    BY <1>6, <2>1, SameSeparation DEF sep
<1>9. /\ q \in Seq(Entry) /\ Len(q) = n
      /\ \A i \in 1..n : q[i] = [m[i] EXCEPT !.start = @ + i * sep]
  BY <1>2, <1>6, <1>8, AddedIs
<1> HIDE DEF q
\* The starts and ends, in numbers.
<1>10. ASSUME NEW i \in 1..n
      PROVE  /\ p[i].start \in Nat /\ p[i].duration \in Nat
             /\ m[i].start \in Nat /\ m[i].duration \in Nat
             /\ a[i].start = p[i].start + i * sep /\ ActionEnd(a[i]) = ActionEnd(p[i]) + i * sep
             /\ q[i].start = m[i].start + i * sep /\ ActionEnd(q[i]) = ActionEnd(m[i]) + i * sep
             /\ ActionEnd(p[i]) = p[i].start + p[i].duration
             /\ ActionEnd(m[i]) = m[i].start + m[i].duration
             /\ ActionEnd(p[i]) \in Nat /\ ActionEnd(m[i]) \in Nat
  <2>1. p[i] \in Entry /\ m[i] \in Entry
    BY <1>1, <1>4 DEF n
  <2>2. PICK x \in Nat : x = i * sep
    BY <1>2
  <2>3. a[i] = [p[i] EXCEPT !.start = @ + x]
    BY <1>3, <2>2
  <2>4. q[i] = [m[i] EXCEPT !.start = @ + x]
    BY <1>9, <2>2
  <2>5. /\ p[i].start \in Nat /\ p[i].duration \in Nat
        /\ ActionEnd(p[i]) \in Nat /\ ActionEnd(p[i]) = p[i].start + p[i].duration
        /\ a[i].start = p[i].start + x /\ ActionEnd(a[i]) = ActionEnd(p[i]) + x
    <3>1. PICK c \in Entry : c = p[i]
      BY <2>1
    <3>2. QED
      BY <2>3, <3>1, LaterIs
  <2>6. /\ m[i].start \in Nat /\ m[i].duration \in Nat
        /\ ActionEnd(m[i]) \in Nat /\ ActionEnd(m[i]) = m[i].start + m[i].duration
        /\ q[i].start = m[i].start + x /\ ActionEnd(q[i]) = ActionEnd(m[i]) + x
    <3>1. PICK c \in Entry : c = m[i]
      BY <2>1
    <3>2. QED
      BY <2>4, <3>1, LaterIs
  <2>7. QED
    BY <2>2, <2>5, <2>6
<1>11. ASSUME NEW i \in 1..n, NEW j \in 1..n, a[i].start < a[j].start
       PROVE  /\ m[i].start <= m[j].start
              /\ ActionEnd(a[i]) <= a[j].start => ActionEnd(m[i]) <= m[j].start
  <2>1. PICK r \in 1..n : b[r] = i
    BY <1>5 DEF IsByStart
  <2>2. PICK t \in 1..n : b[t] = j
    BY <1>5 DEF IsByStart
  <2>3. a[i].start \in Int /\ a[j].start \in Int
    <3>1. \A k \in 1..n : k * sep \in Nat
      BY <1>2
    <3>2. PICK x, y \in Nat : x = i * sep /\ y = j * sep
      BY <3>1
    <3>3. a[i].start = p[i].start + x /\ a[j].start = p[j].start + y
      BY <1>10, <3>2
    <3>4. p[i].start \in Nat /\ p[j].start \in Nat
      BY <1>10
    <3>5. QED
      BY <3>3, <3>4
  <2>4. r # t
    BY <1>11, <2>1, <2>2, <2>3
  <2>5. ~(t < r)
    <3>1. t < r => a[b[t]].start <= a[b[r]].start
      BY <1>5 DEF IsByStart
    <3>2. QED
      BY <1>11, <2>1, <2>2, <2>3, <3>1
  <2>6. r < t /\ t <= n
    BY <1>1, <2>4, <2>5
  <2>7. QED
    BY <1>5, <2>1, <2>2, <2>6 DEF HaveMoved
<1>12. ASSUME NEW i \in 1..n, NEW j \in 1..n, i < j
       PROVE  /\ p[i].start <= p[j].start => q[i].start + sep <= q[j].start
              /\ ActionEnd(p[i]) <= p[j].start => ActionEnd(q[i]) + sep <= q[j].start
  <2>1. PICK x, y \in Nat : x = i * sep /\ y = j * sep
    BY <1>2
  <2>2. x + sep <= y
    <3>1. sep * i + sep <= sep * j /\ sep * i = x /\ sep * j = y
      BY <1>2, <1>12, <2>1, ProductGrows
    <3>2. QED
      BY <3>1
  <2>3. /\ p[i].start \in Nat /\ p[i].duration \in Nat /\ ActionEnd(p[i]) = p[i].start + p[i].duration
        /\ m[i].start \in Nat /\ p[j].start \in Nat /\ m[j].start \in Nat
        /\ ActionEnd(p[i]) \in Nat /\ ActionEnd(m[i]) \in Nat
    BY <1>10
  <2>4. /\ a[i].start = p[i].start + x /\ ActionEnd(a[i]) = ActionEnd(p[i]) + x
        /\ a[j].start = p[j].start + y
    BY <1>10, <2>1
  <2>5. /\ q[i].start = m[i].start + x /\ ActionEnd(q[i]) = ActionEnd(m[i]) + x
        /\ q[j].start = m[j].start + y
    BY <1>10, <2>1
  <2>6. \A s, t \in Nat : s <= t => /\ s + x < t + y /\ s + x <= t + y
                                  /\ (s + x) + sep <= t + y
    BY <1>2, <2>2
  <2>7. p[i].start <= p[j].start => a[i].start < a[j].start
    BY <2>3, <2>4, <2>6, Zenon
  <2>8. p[i].start <= p[j].start => q[i].start + sep <= q[j].start
    <3>1. p[i].start <= p[j].start => m[i].start <= m[j].start
      BY <1>11, <2>7
    <3>2. QED
      BY <2>3, <2>5, <2>6, <3>1, Zenon
  <2>9. ASSUME ActionEnd(p[i]) <= p[j].start
        PROVE  ActionEnd(q[i]) + sep <= q[j].start
    <3>1. p[i].start <= p[j].start
      BY <2>3, <2>9
    <3>2. ActionEnd(a[i]) <= a[j].start
      BY <2>3, <2>4, <2>6, <2>9, Zenon
    <3>3. ActionEnd(m[i]) <= m[j].start
      BY <1>11, <2>7, <3>1, <3>2
    <3>4. QED
      BY <2>3, <2>5, <2>6, <3>3, Zenon
  <2>10. QED
    BY <2>8, <2>9
<1>13. \A i \in 1..n : q[i].duration = p[i].duration
  <2> TAKE i \in 1..n
  <2>1. m[i] \in Entry
    BY <1>4
  <2>2. PICK x \in Nat : x = i * sep
    BY <1>2
  <2>3. q[i] = [m[i] EXCEPT !.start = @ + x]
    BY <1>9, <2>2
  <2>4. q[i].duration = m[i].duration
    BY <2>1, <2>3 DEF Entry
  <2>5. QED
    BY <1>7, <2>4
<1>14. QED
  BY <1>2, <1>9, <1>12, <1>13 DEF n, m, q, sep

\* What the script writes of a plan: the durations are those it has read.
LEMMA EpsilonizedIs ==
    ASSUME NEW p \in Written
    PROVE  LET q == SeparatedPlan(p)
               r == EpsilonizedPlan(p)
           IN  /\ r \in Written /\ Len(r) = Len(p)
               /\ \A i \in 1..Len(p) :
                     /\ q[i].start \in Nat /\ ActionEnd(q[i]) \in Nat
                     /\ r[i].start = Rounded(q[i].start, Parts(p))
                     /\ ActionEnd(r[i]) = Rounded(ActionEnd(q[i]), Parts(p))
<1> DEFINE n == Len(p)
           u == Parts(p)
           x == InParts(p)
           q == SeparatedPlan(p)
           r == EpsilonizedPlan(p)
           a(i) == [q[i] EXCEPT !.start = Rounded(@, Parts(p)), !.duration = Rounded(@, Parts(p))]
           f == [i \in DOMAIN q |-> a(i)]
<1>1. p \in Seq(Entry) /\ n \in Nat /\ DOMAIN p = 1..n /\ n <= MaxStarts
  BY DEF Written
<1>2. /\ x \in Seq(Entry) /\ Len(x) = n /\ u \in Nat \ {0}
      /\ \A i \in 1..n : x[i].duration = p[i].duration * u
      /\ \A i \in DOMAIN x : x[i].duration % (PlanUnit * Parts(x)) = 0
  BY InPartsIs
<1>3. /\ q \in Seq(Entry) /\ Len(q) = n
      /\ \A i \in 1..n : q[i].duration = x[i].duration
  <2>1. q = AddSeparation(RemoveWastedTime(x))
    BY DEF SeparatedPlan
  <2> HIDE DEF n, x, q
  <2>2. QED
    BY <1>2, <2>1, SeparatedKeepsOrder
<1>4. r = SubSeq(f, 1, n)
  BY Zenon DEF EpsilonizedPlan
<1> HIDE DEF n, u, x, q
<1>5. ASSUME NEW i \in 1..n
      PROVE  /\ q[i].start \in Nat /\ ActionEnd(q[i]) \in Nat
             /\ a(i) \in Entry /\ a(i).start = Rounded(q[i].start, u)
             /\ a(i).duration = p[i].duration
             /\ ActionEnd(a(i)) = Rounded(ActionEnd(q[i]), u)
  <2> DEFINE s == q[i].start
             d == p[i].duration
  <2>1. q[i] \in Entry /\ p[i] \in Entry
    BY <1>1, <1>3
  <2>2. s \in Nat /\ d \in Nat /\ q[i].duration = d * u /\ d * u \in Nat
    BY <1>2, <1>3, <2>1 DEF Entry
  <2>3. a(i) = [q[i] EXCEPT !.start = Rounded(s, u), !.duration = Rounded(d * u, u)]
    BY <2>2 DEF u
  <2>4. ActionEnd(q[i]) = s + d * u /\ ActionEnd(q[i]) \in Nat
    BY <2>2 DEF ActionEnd
  <2> HIDE DEF a, s, d
  <2>5. /\ Rounded(s, u) \in Nat /\ Rounded(d * u, u) = d
        /\ Rounded(s + d * u, u) = Rounded(s, u) + d
    BY <1>2, <2>2, RoundedIs
  <2>6. a(i) \in Entry /\ a(i).start = Rounded(s, u) /\ a(i).duration = d
    BY <2>1, <2>2, <2>3, <2>5 DEF Entry
  <2>7. ActionEnd(a(i)) = Rounded(s, u) + d
    BY <2>6, Zenon DEF ActionEnd
  <2>8. QED
    BY <2>2, <2>4, <2>5, <2>6, <2>7 DEF s, d
<1>6. f \in Seq(Entry) /\ Len(f) = n /\ \A i \in 1..n : f[i] = a(i)
  <2>1. DOMAIN q = 1..n
    BY <1>1, <1>3
  <2> HIDE DEF a
  <2>2. QED
    BY <1>1, <1>5, <2>1
<1> HIDE DEF f, r
<1>7. r \in Seq(Entry) /\ Len(r) = n /\ \A i \in 1..n : r[i] = f[i]
  <2> HIDE DEF a
  <2>1. /\ SubSeq(f, 1, n) \in Seq(Entry) /\ Len(SubSeq(f, 1, n)) = n
        /\ \A i \in 1..n : SubSeq(f, 1, n)[i] = f[i]
    BY <1>1, <1>6
  <2>2. QED
    BY <1>4, <2>1
<1> HIDE DEF a
<1>8. \A i \in 1..n : r[i].duration = p[i].duration
  BY <1>5, <1>6, <1>7
<1>9. r \in Written
  <2>1. DOMAIN r = 1..n
    BY <1>7
  <2>2. \A i \in 1..n : p[i].duration % PlanUnit = 0
    BY <1>1 DEF Written
  <2>3. QED
    BY <1>1, <1>7, <1>8, <2>1, <2>2 DEF Written
<1>10. QED
  BY <1>5, <1>6, <1>7, <1>9 DEF n, u, q, r

\* What the script makes of a plan file keeps the order of its actions.
LEMMA EpsilonizedKeepsOrder ==
    ASSUME NEW p \in Written
    PROVE  KeepsOrder(p, EpsilonizedPlan(p))
<1> DEFINE n == Len(p)
           u == Parts(p)
           x == InParts(p)
           q == SeparatedPlan(p)
           r == EpsilonizedPlan(p)
           sep == RequiredSeparation(x)
<1>1. p \in Seq(Entry) /\ n \in Nat /\ DOMAIN p = 1..n
  BY DEF Written
<1>2. /\ x \in Seq(Entry) /\ Len(x) = n /\ Parts(x) = u /\ u \in Nat \ {0}
      /\ \A i \in 1..n : x[i].start = p[i].start * u /\ x[i].duration = p[i].duration * u
      /\ \A i \in DOMAIN x : x[i].duration % (PlanUnit * Parts(x)) = 0
  BY InPartsIs
<1>3. /\ sep \in Nat \ {0}
      /\ \A i, j \in 1..n : i < j =>
            /\ x[i].start <= x[j].start => q[i].start + sep <= q[j].start
            /\ ActionEnd(x[i]) <= x[j].start => ActionEnd(q[i]) + sep <= q[j].start
  <2>1. q = AddSeparation(RemoveWastedTime(x))
    BY DEF SeparatedPlan
  <2> HIDE DEF n, x, q
  <2>2. QED
    BY <1>2, <2>1, SeparatedKeepsOrder DEF sep
<1>4. \A i \in 1..n : /\ q[i].start \in Nat /\ ActionEnd(q[i]) \in Nat
                      /\ r[i].start = Rounded(q[i].start, u)
                      /\ ActionEnd(r[i]) = Rounded(ActionEnd(q[i]), u)
  BY EpsilonizedIs
<1> HIDE DEF n, u, x, q, r, sep
<1>5. ASSUME NEW s \in Nat, NEW t \in Nat, s + sep <= t
      PROVE  IsWrittenBefore(p, Rounded(s, u), Rounded(t, u))
  <2>1. s <= t /\ (sep >= u => s + u <= t)
    BY <1>2, <1>3, <1>5
  <2>2. /\ Rounded(s, u) <= Rounded(t, u)
        /\ sep >= u => Rounded(s, u) < Rounded(t, u)
    BY <1>2, <2>1, RoundedInOrder
  <2>3. SeparationIsWritten(p) <=> sep >= u
    BY Zenon DEF SeparationIsWritten, sep, x, u
  <2>4. QED
    BY <2>2, <2>3, Zenon DEF IsWrittenBefore
<1>6. ASSUME NEW i \in 1..n, NEW j \in 1..n, i < j
      PROVE  /\ p[i].start <= p[j].start => IsWrittenBefore(p, r[i].start, r[j].start)
             /\ ActionEnd(p[i]) <= p[j].start => IsWrittenBefore(p, ActionEnd(r[i]), r[j].start)
  <2>1. /\ p[i].start \in Nat /\ p[i].duration \in Nat /\ p[j].start \in Nat
        /\ ActionEnd(p[i]) = p[i].start + p[i].duration /\ ActionEnd(p[i]) \in Nat
    <3>1. p[i] \in Entry /\ p[j] \in Entry
      BY <1>1 DEF n
    <3>2. QED
      BY <3>1 DEF Entry, ActionEnd
  <2>2. ActionEnd(x[i]) = ActionEnd(p[i]) * u
    <3>1. ActionEnd(x[i]) = p[i].start * u + p[i].duration * u
      BY <1>2 DEF ActionEnd
    <3>2. \A y, z \in Nat : y * u + z * u = (y + z) * u
      BY <1>2
    <3>3. QED
      BY <2>1, <3>1, <3>2
  <2>3. \A y, z \in Nat : y <= z => y * u <= z * u
    <3> SUFFICES ASSUME NEW y \in Nat, NEW z \in Nat, y <= z PROVE y * u <= z * u
      OBVIOUS
    <3>1. y < z => u * y + u <= u * z /\ u * y \in Nat /\ u * z \in Nat
      BY <1>2, ProductGrows
    <3>2. u * y = y * u /\ u * z = z * u
      BY <1>2
    <3>3. y < z => y * u <= z * u
      BY <1>2, <3>1, <3>2
    <3>4. y = z => y * u <= z * u
      BY <1>2
    <3>5. QED
      BY <3>3, <3>4
  <2>4. p[i].start <= p[j].start => q[i].start + sep <= q[j].start
    BY <1>2, <1>3, <1>6, <2>1, <2>3
  <2>5. ActionEnd(p[i]) <= p[j].start => ActionEnd(q[i]) + sep <= q[j].start
    BY <1>2, <1>3, <1>6, <2>1, <2>2, <2>3
  <2>6. QED
    BY <1>4, <1>5, <2>4, <2>5
<1>7. QED
  BY <1>1, <1>6, Zenon DEF KeepsOrder, n, r

----------------------------------------------------------------------------
(* The plans that are saved                                                *)

\* What the clock of the branch needs to know of a state.
Clocked(s) ==
    s.timestamp \in Nat /\ IsFiniteSet(s.operators) /\ s.operators \subseteq ScheduledOperator

\* Some multiple of the gap is not the end of an operator: there are more of them.
LEMMA EpsTimeIs ==
    ASSUME NEW s, Clocked(s), NEW offset \in Nat, Gap > 0
    PROVE  EpsTime(s, offset) \in Nat
<1> DEFINE c == Cardinality(s.operators)
           multiples == {Gap * k : k \in 1..(c + 1)}
           free == {t \in multiples : \A x \in s.operators : x.increment # offset + t}
           f == [k \in 1..(c + 1) |-> CHOOSE x \in s.operators : x.increment = offset + Gap * k]
<1>1. Gap \in Nat /\ c \in Nat
  BY StateAssumption, FS_CardinalityType DEF Clocked
<1>2. EpsTime(s, offset) = Least(free)
  BY Zenon DEF EpsTime
<1>3. \A k \in Nat : Gap * k \in Nat
  BY <1>1
<1>4. \A k, l \in 1..(c + 1) : k # l => Gap * k # Gap * l
  <2> SUFFICES ASSUME NEW k \in 1..(c + 1), NEW l \in 1..(c + 1), k < l
               PROVE  Gap * k # Gap * l
    BY <1>1
  <2>1. Gap * l = Gap * k + Gap * (l - k) /\ Gap * (l - k) > 0
    BY <1>1
  <2>2. QED
    BY <1>1, <1>3, <2>1
<1> HIDE DEF c
<1>5. free \in SUBSET Nat
  BY <1>1, <1>3
<1>6. free # {}
  <2> SUFFICES ASSUME free = {} PROVE FALSE
    OBVIOUS
  <2>1. \A k \in 1..(c + 1) : \E x \in s.operators : x.increment = offset + Gap * k
    OBVIOUS
  <2>2. \A k \in 1..(c + 1) : f[k] \in s.operators /\ f[k].increment = offset + Gap * k
    <3> TAKE k \in 1..(c + 1)
    <3>1. f[k] = CHOOSE x \in s.operators : x.increment = offset + Gap * k
      OBVIOUS
    <3>2. QED
      BY <2>1, <3>1, Zenon
  <2>3. \A k, l \in 1..(c + 1) : f[k] = f[l] => k = l
    <3> SUFFICES ASSUME NEW k \in 1..(c + 1), NEW l \in 1..(c + 1), f[k] = f[l]
                 PROVE  Gap * k = Gap * l
      BY <1>4
    <3>1. offset + Gap * k = offset + Gap * l
      BY <2>2
    <3>2. PICK x, y \in Nat : x = Gap * k /\ y = Gap * l
      BY <1>1, <1>3
    <3>3. QED
      BY <3>1, <3>2
  <2>4. f \in [1..(c + 1) -> s.operators]
    BY <2>2
  <2>5. f \in Injection(1..(c + 1), s.operators)
    <3> HIDE DEF f
    <3>1. QED
      BY <2>3, <2>4 DEF Injection, IsInjective
  <2> HIDE DEF f
  <2>6. Cardinality(1..(c + 1)) <= c
    BY <2>5, FS_Injection DEF Clocked, c
  <2>7. Cardinality(1..(c + 1)) = c + 1
    <3>1. c + 1 \in Int /\ 1 \in Int /\ c + 1 >= 1
      BY <1>1
    <3>2. Cardinality(1..(c + 1)) = (c + 1) - 1 + 1
      BY <1>1, <3>1, FS_Interval
    <3>3. QED
      BY <1>1, <3>2
  <2>8. QED
    BY <1>1, <2>6, <2>7
<1> HIDE DEF free
<1>7. QED
  BY <1>2, <1>5, <1>6, LeastIsLeast

\* The time between two happenings is never negative.
LEMMA ClockedAfter ==
    ASSUME NEW s, Clocked(s)
    PROVE  /\ \A o \in Op : Duration[o] > 0 => Clocked(ApplyOperator(s, o))
           /\ Clocked(LetTimePass(s, TRUE))
<1>1. ASSUME NEW o \in Op, Duration[o] > 0
      PROVE  Clocked(ApplyOperator(s, o))
  <2> DEFINE x == [increment |-> Duration[o], op |-> o]
  <2>1. /\ ApplyOperator(s, o).operators = s.operators \cup {x}
        /\ ApplyOperator(s, o).timestamp = s.timestamp + Gap
    BY Zenon DEF ApplyOperator
  <2>2. x \in ScheduledOperator
    BY <1>1, ScheduleTyped
  <2> HIDE DEF x
  <2>3. IsFiniteSet(s.operators \cup {x})
    BY FS_AddElement DEF Clocked
  <2>4. s.timestamp + Gap \in Nat
    BY StateAssumption DEF Clocked
  <2>5. QED
    BY <2>1, <2>2, <2>3, <2>4 DEF Clocked
<1>2. NextHappening(s) \in Nat
  <2> DEFINE ends == {x.increment : x \in {y \in s.operators : y.increment > 0}}
  <2>1. NextHappening(s) = IF ends = {} THEN 0 ELSE Least(ends)
    BY Zenon DEF NextHappening
  <2>2. \A x \in s.operators : x.increment \in Nat
    BY DEF Clocked, ScheduledOperator
  <2>3. ends \in SUBSET Nat
    BY <2>2
  <2> HIDE DEF ends
  <2>4. ends # {} => Least(ends) \in Nat
    BY <2>3, LeastIsLeast
  <2>5. QED
    BY <2>1, <2>4
<1> DEFINE next == NextHappening(s)
           dt == IF TRUE /\ Gap > 0 THEN next + EpsTime(s, next) ELSE next
<1>3. dt \in Nat
  <2> HIDE DEF next
  <2>1. next \in Nat
    BY <1>2 DEF next
  <2>2. Gap > 0 => EpsTime(s, next) \in Nat
    BY <2>1, EpsTimeIs
  <2>3. QED
    BY <2>1, <2>2
<1>4. LetTimePass(s, TRUE) = PassBy(s, dt)
  BY Zenon DEF LetTimePass
<1> HIDE DEF dt
<1>5. /\ PassBy(s, dt).operators = Future(s.operators, dt)
      /\ PassBy(s, dt).timestamp = s.timestamp + dt
  BY Zenon DEF PassBy
<1>6. Future(s.operators, dt) \subseteq ScheduledOperator /\ IsFiniteSet(Future(s.operators, dt))
  BY <1>3, FutureTyped, CloserIsFinite DEF Clocked
<1>7. s.timestamp + dt \in Nat
  BY <1>3 DEF Clocked
<1>8. Clocked(LetTimePass(s, TRUE))
  BY <1>4, <1>5, <1>6, <1>7 DEF Clocked
<1>9. QED
  BY <1>1, <1>8

\* What has been appended is the state the branch has reached.
LEMMA NowIs ==
    ASSUME NEW tr, TraceRuns(tr), NEW s
    PROVE  Append(tr, s)[Len(Append(tr, s))] = s
<1>1. PICK S : tr \in Seq(S)
  BY DEF TraceRuns
<1> DEFINE R == S \cup {s}
<1>2. tr \in Seq(R) /\ s \in R
  <2>1. Len(tr) \in Nat /\ tr = [k \in 1..Len(tr) |-> tr[k]] /\ \A k \in 1..Len(tr) : tr[k] \in S
    BY <1>1
  <2>2. \A x \in S : x \in R
    OBVIOUS
  <2> HIDE DEF R
  <2>3. tr \in Seq(R)
    BY <2>1, <2>2
  <2>4. QED
    BY <2>3 DEF R
<1> HIDE DEF R
<1>3. QED
  BY <1>2

\* A step of a plan: when an action starts.
Step == [start : Nat, op : Op]

\* What is not late is not moved, and what is changes places.
LEMMA SwapIs ==
    ASSUME NEW q \in Seq(Step), NEW a \in 1..Len(q), NEW b \in 1..Len(q)
    PROVE  [q EXCEPT ![a] = q[b], ![b] = q[a]] \in Seq(Step)
           /\ Len([q EXCEPT ![a] = q[b], ![b] = q[a]]) = Len(q)
<1> DEFINE n == Len(q)
           t == [q EXCEPT ![a] = q[b], ![b] = q[a]]
<1>1. n \in Nat /\ q \in [1..n -> Step]
  OBVIOUS
<1>2. q[a] \in Step /\ q[b] \in Step
  BY <1>1
<1> HIDE DEF n
<1>3. t \in [1..n -> Step]
  BY <1>1, <1>2
<1> HIDE DEF t
<1>4. t \in Seq(Step) /\ Len(t) = n
  BY <1>1, <1>3
<1>5. QED
  BY <1>4 DEF t, n

\* sortPlan keeps the steps of a plan.
LEMMA SortIs ==
    ASSUME NEW p \in Seq(Step)
    PROVE  SortPlan(p) \in Seq(Step) /\ Len(SortPlan(p)) = Len(p)
<1> DEFINE n == Len(p) * Len(p)
           T == {q \in Seq(Step) : Len(q) = Len(p)}
           late(q) == {i \in 1..(Len(q) - 1) : q[i].start - Eps > q[i + 1].start}
           swapped(q, i) == [q EXCEPT ![i] = q[i + 1], ![i + 1] = q[i]]
           pass(q) == IF late(q) = {} THEN q ELSE swapped(q, Least(late(q)))
           step == [x \in (1..n) \X T |-> pass(x[2])]
           Solves(f) == f = [k \in 0..n |-> IF k = 0 THEN p ELSE pass(f[k - 1])]
<1>1. Len(p) \in Nat /\ p \in T
  OBVIOUS
<1>2. n \in Nat
  BY <1>1
<1>3. ASSUME NEW q \in T
      PROVE  pass(q) \in T
  <2>1. q \in Seq(Step) /\ Len(q) = Len(p)
    OBVIOUS
  <2>2. late(q) \in SUBSET Nat /\ \A i \in late(q) : i \in 1..Len(q) /\ i + 1 \in 1..Len(q)
    BY <1>1, <2>1
  <2> HIDE DEF late
  <2>3. CASE late(q) = {}
    BY <2>3
  <2>4. CASE late(q) # {}
    <3>1. Least(late(q)) \in late(q)
      BY <2>2, <2>4, LeastIsLeast
    <3>2. PICK i \in late(q) : i = Least(late(q))
      BY <3>1
    <3>3. i \in 1..Len(q) /\ i + 1 \in 1..Len(q)
      BY <2>2
    <3> DEFINE k == i + 1
    <3>4. k \in 1..Len(q)
      BY <3>3
    <3> HIDE DEF k
    <3>5. [q EXCEPT ![i] = q[k], ![k] = q[i]] \in T
      BY <2>1, <3>3, <3>4, SwapIs
    <3>6. pass(q) = [q EXCEPT ![i] = q[k], ![k] = q[i]]
      BY <2>4, <3>2, Zenon DEF k
    <3> HIDE DEF pass, T
    <3>7. QED
      BY <3>5, <3>6
  <2>5. QED
    BY <2>3, <2>4
<1>4. SortPlan(p) = (CHOOSE f : Solves(f))[n]
  BY Zenon DEF SortPlan
<1> HIDE DEF pass, n
<1>5. \A k \in 1..n : \A q \in T : step[<<k, q>>] = pass(q)
  OBVIOUS
<1>6. step \in [(1..n) \X T -> T]
  BY <1>3
<1> HIDE DEF step, T
<1>7. \E f : Solves(f) /\ f[n] \in T
  <2>1. PICK f \in [0..n -> T] : IsLoop(f, n, p, step)
    BY <1>1, <1>2, <1>6, Iterates
  <2>2. \A k \in 0..n : f[k] = IF k = 0 THEN p ELSE pass(f[k - 1])
    <3> TAKE k \in 0..n
    <3>1. f[k] = IF k = 0 THEN p ELSE step[<<k, f[k - 1]>>]
      BY <2>1, Zenon DEF IsLoop
    <3>2. k # 0 => k \in 1..n /\ k - 1 \in 0..n
      BY <1>2
    <3>3. QED
      BY <1>5, <2>1, <3>1, <3>2
  <2>3. f = [k \in 0..n |-> f[k]]
    OBVIOUS
  <2>4. Solves(f)
    BY <2>2, <2>3
  <2>5. f[n] \in T
    BY <1>2
  <2>6. QED
    BY <2>4, <2>5
<1> DEFINE g == CHOOSE f : Solves(f)
<1>8. Solves(g)
  <2> HIDE DEF Solves
  <2>1. QED
    BY <1>7, Zenon
<1>9. \A k \in 0..n : g[k] = IF k = 0 THEN p ELSE pass(g[k - 1])
  BY <1>8, Zenon
<1>10. SortPlan(p) = g[n]
  BY <1>4
<1> HIDE DEF g, Solves
<1> DEFINE Good == {k \in Nat : g[k] \in T}
<1>11. 0 \in Good
  BY <1>1, <1>2, <1>9
<1>12. ASSUME NEW k \in 0..(n - 1), k \in Good
       PROVE  k + 1 \in Good
  <2>1. k + 1 \in 0..n /\ k + 1 # 0 /\ (k + 1) - 1 = k /\ k + 1 \in Nat
    BY <1>2
  <2>2. g[k + 1] = pass(g[k]) /\ g[k] \in T
    BY <1>9, <1>12, <2>1
  <2>3. QED
    BY <1>3, <2>1, <2>2
<1>13. n \in Good
  <2> HIDE DEF Good
  <2>1. n \in 0..n
    BY <1>2
  <2>2. QED
    BY <1>2, <1>11, <1>12, <2>1, UpTo
<1>14. SortPlan(p) \in T
  BY <1>10, <1>13
<1>15. QED
  BY <1>14 DEF T

\* The new start of a step is not before X0.
LEMMA StartIs ==
    ASSUME ScheduleInv, stage \in Solved, queue = <<>>, plan \in Seq(Step), NEW s \in DOMAIN plan
    PROVE  StartOf(s) \in Nat
<1> DEFINE starts == {k \in DOMAIN instants : instants[k].type = "start" /\ instants[k].step = s}
           times == {-distances[i] : i \in starts}
<1>1. Instants(instants)
  BY DEF ScheduleInv, Built, Lifted, Networked
<1>2. Len(instants) \in Nat /\ DOMAIN instants = 1..Len(instants)
  BY <1>1 DEF Instants, Listed
<1>3. \A i \in 1..Len(instants) : -distances[i] \in Nat
  <2> TAKE i \in 1..Len(instants)
  <2>1. distances[i] \in Int /\ distances[i] <= 0
    BY InstantsHaveTimes
  <2>2. QED
    BY <2>1
<1>4. starts \in SUBSET (1..Len(instants))
  BY <1>2
<1>5. IsFiniteSet(starts)
  <2> HIDE DEF starts
  <2>1. IsFiniteSet(1..Len(instants))
    BY <1>2, FS_Interval
  <2>2. QED
    BY <1>4, <2>1, FS_Subset
<1>6. StartOf(s) = IF times = {} THEN plan[s].start ELSE Latest(times)
  BY Zenon DEF StartOf
<1>7. plan[s].start \in Nat
  <2>1. plan[s] \in Step
    OBVIOUS
  <2>2. QED
    BY <2>1 DEF Step
<1> HIDE DEF starts
<1>8. times \in SUBSET Nat
  BY <1>3, <1>4
<1>9. \E b \in Nat : \A i \in 1..Len(instants) : -distances[i] <= b
  <2> DEFINE Good == {k \in Nat : \E b \in Nat : \A i \in 1..k : k <= Len(instants) => -distances[i] <= b}
  <2>1. 0 \in Good
    OBVIOUS
  <2>2. ASSUME NEW k \in 0..(Len(instants) - 1), k \in Good
        PROVE  k + 1 \in Good
    <3>1. k \in Nat /\ k + 1 \in Nat /\ k + 1 \in 1..Len(instants) /\ k <= Len(instants)
      BY <1>2
    <3>2. PICK b \in Nat : \A i \in 1..k : -distances[i] <= b
      BY <2>2, <3>1
    <3>3. PICK d \in Nat : d = -distances[k + 1]
      BY <1>3, <3>1
    <3>4. \A i \in 1..(k + 1) : -distances[i] <= b + d
      <4> TAKE i \in 1..(k + 1)
      <4>1. CASE i = k + 1
        BY <3>3, <4>1
      <4>2. CASE i # k + 1
        <5>1. i \in 1..k /\ i \in 1..Len(instants)
          BY <3>1, <4>2
        <5>2. -distances[i] <= b /\ -distances[i] \in Nat
          BY <1>3, <3>2, <5>1
        <5>3. QED
          BY <5>2
      <4>3. QED
        BY <4>1, <4>2
    <3>5. b + d \in Nat
      OBVIOUS
    <3>6. QED
      BY <3>1, <3>4, <3>5
  <2>3. Len(instants) \in Good
    <3> HIDE DEF Good
    <3>1. Len(instants) \in 0..Len(instants)
      BY <1>2
    <3>2. QED
      BY <1>2, <2>1, <2>2, <3>1, UpTo
  <2>4. QED
    BY <1>2, <2>3
<1>10. times # {} => Latest(times) \in Nat
  <2> SUFFICES ASSUME times # {} PROVE Latest(times) \in Nat
    OBVIOUS
  <2>1. \E b \in Nat : \A x \in times : x <= b
    BY <1>4, <1>9
  <2> HIDE DEF times
  <2>2. Bounded(times)
    BY <1>8, <2>1 DEF Bounded
  <2>3. IsGreatest(Latest(times), times)
    BY <2>2, GreatestIs
  <2>4. QED
    BY <2>3 DEF IsGreatest
<1> HIDE DEF times
<1>11. QED
  BY <1>6, <1>7, <1>10

\* The plan that is built and the files that were written: the steps start at times of
\* the clock, and are no more than the branch may have.
PlanInv ==
    /\ stage = "search" => Clocked(Now)
    /\ plan \in Seq(Step) /\ Len(plan) <= MaxStarts
    /\ DOMAIN files = File /\ \A f \in File : files[f] = None \/ files[f] \in Written
    /\ DOMAIN originals = File

LEMMA RescheduledIs ==
    ASSUME ScheduleInv, Reschedule, plan \in Seq(Step)
    PROVE  plan' \in Seq(Step) /\ Len(plan') = Len(plan)
<1> DEFINE p == [s \in DOMAIN plan |-> [plan[s] EXCEPT !.start = StartOf(s)]]
           n == Len(plan)
<1>1. n \in Nat /\ DOMAIN plan = 1..n
  OBVIOUS
<1>2. plan' = SortPlan(p) /\ stage \in Solved /\ queue = <<>>
  BY DEF Reschedule, Solved
<1>3. \A s \in DOMAIN plan : [plan[s] EXCEPT !.start = StartOf(s)] \in Step
  <2> TAKE s \in DOMAIN plan
  <2>1. StartOf(s) \in Nat
    BY <1>2, StartIs
  <2>2. plan[s] \in Step
    OBVIOUS
  <2>3. QED
    BY <2>1, <2>2 DEF Step
<1>4. p \in [1..n -> Step]
  <2> HIDE DEF n
  <2>1. QED
    BY <1>1, <1>3
<1> HIDE DEF p, n
<1>5. p \in Seq(Step) /\ Len(p) = n
  BY <1>1, <1>4
<1>6. QED
  BY <1>2, <1>5, SortIs DEF n

\* A printed time is a whole number of what is written.
LEMMA PrintedIs ==
    ASSUME NEW time \in Nat
    PROVE  Printed(time) \in Nat /\ Printed(time) % PlanUnit = 0
<1>1. PlanUnit \in Nat \ {0}
  BY DEF PlanUnit
<1>2. Rounded(time, PlanUnit) \in Nat
  BY <1>1, RoundedIs
<1>3. PlanUnit * Rounded(time, PlanUnit) \in Nat
  BY <1>1, <1>2
<1>4. (PlanUnit * Rounded(time, PlanUnit)) % PlanUnit = 0
  BY <1>1, <1>2, NoRemainder
<1>5. QED
  BY <1>3, <1>4 DEF Printed

\* What is printed of a time is half a unit from it at most.
LEMMA PrintedIsClose ==
    ASSUME NEW time \in Nat
    PROVE  Printed(time) \in Nat /\ 2 * Printed(time) <= 2 * time + PlanUnit
           /\ 2 * time < 2 * Printed(time) + PlanUnit
<1> DEFINE x == time + PlanUnit \div 2
           q == x \div PlanUnit
<1>1. PlanUnit \in Nat \ {0} /\ 2 * (PlanUnit \div 2) = PlanUnit /\ PlanUnit \div 2 \in Nat
  BY DEF PlanUnit
<1>2. x \in Nat /\ 2 * x = 2 * time + PlanUnit
  BY <1>1
<1>3. q \in Nat /\ PlanUnit * q \in Nat /\ PlanUnit * q <= x /\ x < PlanUnit * q + PlanUnit
  BY <1>1, <1>2, DivisionIs
<1>4. Printed(time) = PlanUnit * q
  BY DEF Printed, Rounded
<1> DEFINE y == PlanUnit * q
<1> HIDE DEF x, q
<1>5. y \in Nat /\ y <= x /\ x < y + PlanUnit
  BY <1>3
<1> HIDE DEF y
<1>6. 2 * y <= 2 * time + PlanUnit /\ 2 * time < 2 * y + PlanUnit
  BY <1>1, <1>2, <1>5
<1>7. QED
  BY <1>4, <1>5, <1>6 DEF y

\* A time of the schedule, and what is written of it: a unit from it at most.
LEMMA WrittenIsClose ==
    ASSUME ScheduleInv, stage = "done", NEW i \in 1..Len(instants)
    PROVE  /\ -distances[i] \in Nat /\ WrittenTime(i) \in Nat
           /\ WrittenTime(i) <= -distances[i] + PlanUnit
           /\ -distances[i] < WrittenTime(i) + PlanUnit
<1>1. Instants(instants) /\ queue = <<>>
  BY DEF ScheduleInv, Built, Lifted, Networked, Solved
<1>2. PlanUnit \in Nat \ {0}
  BY DEF PlanUnit
<1>3. \A k \in 1..Len(instants) : -distances[k] \in Nat
  <2>1. TAKE k \in 1..Len(instants)
  <2> DEFINE d == distances[k]
  <2>2. d \in Int /\ d <= 0
    BY <1>1, InstantsHaveTimes DEF Solved
  <2> HIDE DEF d
  <2>3. -d \in Nat
    BY <2>2
  <2>4. QED
    BY <2>3 DEF d
<1>4. CASE instants[i].type = "start"
  <2> DEFINE t == -distances[i]
             w == Printed(t)
  <2>1. WrittenTime(i) = w
    BY <1>4 DEF WrittenTime
  <2>2. t \in Nat
    BY <1>3
  <2>3. w \in Nat /\ 2 * w <= 2 * t + PlanUnit /\ 2 * t < 2 * w + PlanUnit
    BY <2>2, PrintedIsClose
  <2> HIDE DEF t, w
  <2>4. w <= t + PlanUnit /\ t < w + PlanUnit
    BY <1>2, <2>2, <2>3
  <2>5. QED
    BY <2>1, <2>2, <2>3, <2>4 DEF t
<1>5. CASE instants[i].type = "end"
  <2> DEFINE IsStart(k) == instants[k].type = "start" /\ instants[k].endAction = i
             s == CHOOSE k \in DOMAIN instants : IsStart(k)
  <2>1. DOMAIN instants = 1..Len(instants)
    BY <1>1 DEF Instants, Listed
  <2>2. s \in 1..Len(instants) /\ IsStart(s)
    <3>1. \E k \in DOMAIN instants : IsStart(k)
      BY <1>1, <1>5, <2>1 DEF Instants
    <3> HIDE DEF IsStart
    <3>2. s \in DOMAIN instants /\ IsStart(s)
      BY <3>1
    <3>3. QED
      BY <2>1, <3>2
  <2> DEFINE D == Duration[instants[s].op]
             v == Printed(-distances[s])
             w == Printed(D)
             t == -distances[s]
             e == -distances[i]
  <2>4. D \in Nat
    BY <1>1, <2>2, TaskAssumption DEF Instants
  <2>5. e = t + D
    <3>1. OrderIsKept
      BY DistancesInOrder
    <3>2. i # 0
      OBVIOUS
    <3>3. QED
      BY <2>1, <2>2, <3>1, <3>2 DEF OrderIsKept
  <2>6. WrittenTime(i) = v + w
    BY <1>5 DEF WrittenTime
  <2>7. t \in Nat /\ e \in Nat
    BY <1>3, <2>2
  <2>8. /\ v \in Nat /\ 2 * v <= 2 * t + PlanUnit /\ 2 * t < 2 * v + PlanUnit
        /\ w \in Nat /\ 2 * w <= 2 * D + PlanUnit /\ 2 * D < 2 * w + PlanUnit
    BY <2>4, <2>7, PrintedIsClose
  <2> HIDE DEF s, D, v, w, t, e
  <2>9. v + w <= e + PlanUnit /\ e < v + w + PlanUnit /\ v + w \in Nat
    BY <1>2, <2>4, <2>5, <2>7, <2>8
  <2>10. QED
    BY <2>6, <2>7, <2>9 DEF e
<1>6. QED
  BY <1>1, <1>4, <1>5 DEF Instants

\* In the file, what has to come before something still does, for all plans: it is
\* kept by Eps, and rounding takes less than two units of that.
THEOREM OrderIsWritten == PlanFilesSpec => []WrittenInOrder
<1>1. ScheduleInv => WrittenInOrder
  <2>1. SUFFICES ASSUME ScheduleInv, stage = "done", NEW pair \in order,
                        <<pair[2], pair[1]>> \notin order
                 PROVE  WrittenTime(pair[1]) < WrittenTime(pair[2])
    BY DEF WrittenInOrder
  <2>2. PICK a, b \in 1..Len(instants) : pair = <<a, b>>
    BY <2>1 DEF Ordering, ScheduleInv, Built, Lifted, Networked, Solved
  <2> DEFINE s == -distances[a]
             t == -distances[b]
             v == WrittenTime(a)
             w == WrittenTime(b)
  <2>3. s + Eps <= t
    <3>1. OrderIsKept
      BY <2>1, DistancesInOrder
    <3>2. QED
      BY <2>1, <2>2, <3>1 DEF OrderIsKept
  <2>4. /\ s \in Nat /\ v \in Nat /\ v <= s + PlanUnit
        /\ t \in Nat /\ w \in Nat /\ t < w + PlanUnit
    BY <2>1, WrittenIsClose
  <2>5. Eps \in Nat /\ PlanUnit \in Nat /\ 2 * PlanUnit <= Eps
    BY ReschedulingAssumption, EpsilonIsWritten DEF PlanUnit
  <2> HIDE DEF s, t, v, w
  <2>6. v < w
    BY <2>3, <2>4, <2>5
  <2>7. QED
    BY <2>2, <2>6 DEF v, w
<1>2. QED
  BY <1>1, ScheduleIsInv, PTL

\* What is written of a plan: none of its steps twice.
LEMMA WrittenIs ==
    ASSUME NEW p \in Seq(Step)
    PROVE  /\ PlanSteps(p) \in Seq(Entry) /\ Len(PlanSteps(p)) <= Len(p)
           /\ \A k \in DOMAIN PlanSteps(p) : PlanSteps(p)[k].duration % PlanUnit = 0
<1> DEFINE n == Len(p)
           S == {i \in DOMAIN p : p[i].op \notin TimedInitial}
           kept == Ascending(S, n)
           m == Len(kept)
           entry(k) == [start |-> Printed(p[kept[k]].start), op |-> p[kept[k]].op,
                        duration |-> Printed(Duration[p[kept[k]].op])]
<1>1. n \in Nat /\ DOMAIN p = 1..n
  OBVIOUS
<1>2. S \in SUBSET (1..n)
  BY <1>1
<1>3. PlanSteps(p) = [k \in DOMAIN kept |-> entry(k)]
  BY Zenon DEF PlanSteps
<1> HIDE DEF S, n
<1>4. kept \in Seq(S) /\ \A k, l \in DOMAIN kept : kept[k] = kept[l] => k = l
  BY <1>1, <1>2, AscendingIs
<1> HIDE DEF kept
<1>5. m \in Nat /\ DOMAIN kept = 1..m /\ kept \in [1..m -> 1..n]
  <2>1. m \in Nat /\ DOMAIN kept = 1..m /\ kept = [k \in 1..m |-> kept[k]]
        /\ \A k \in 1..m : kept[k] \in S
    BY <1>4
  <2> HIDE DEF m
  <2>2. \A k \in 1..m : kept[k] \in 1..n
    BY <1>2, <2>1
  <2>3. QED
    BY <2>1, <2>2
<1>6. \A k \in 1..m : entry(k) \in Entry /\ entry(k).duration % PlanUnit = 0
  <2> TAKE k \in 1..m
  <2>1. PICK i \in 1..n : i = kept[k]
    BY <1>5
  <2>2. p[i] \in Step
    BY <1>1
  <2>3. p[i].start \in Nat /\ p[i].op \in Op /\ Duration[p[i].op] \in Nat
    BY <2>2, TaskAssumption DEF Step
  <2>4. PICK s, d \in Nat : s = Printed(p[i].start) /\ d = Printed(Duration[p[i].op]) /\ d % PlanUnit = 0
    BY <2>3, PrintedIs
  <2>5. QED
    BY <2>1, <2>3, <2>4 DEF Entry
<1>7. m <= n
  <2>1. kept \in Injection(1..m, 1..n)
    BY <1>4, <1>5 DEF Injection, IsInjective
  <2> HIDE DEF m
  <2>2. IsFiniteSet(1..n) /\ Cardinality(1..n) = n /\ Cardinality(1..m) = m
    BY <1>1, <1>5, FS_Interval
  <2>3. QED
    BY <2>1, <2>2, FS_Injection
<1> HIDE DEF m, entry
<1>8. PlanSteps(p) \in [1..m -> Entry]
  BY <1>3, <1>5, <1>6
<1>9. PlanSteps(p) \in Seq(Entry) /\ Len(PlanSteps(p)) = m /\ DOMAIN PlanSteps(p) = 1..m
  BY <1>5, <1>8
<1>10. \A k \in 1..m : PlanSteps(p)[k].duration % PlanUnit = 0
  BY <1>3, <1>5, <1>6
<1>11. QED
  BY <1>7, <1>9, <1>10 DEF n

\* One file is epsilonized at a time.
LEMMA EpsilonizedFile ==
    ASSUME FilesInv, EpsilonizePlan
    PROVE  \E g \in File : EpsilonizeFile(g)
<1>1. MaxPlans \in Nat /\ planNumber \in 1..(MaxPlans + 1)
  BY PlanFilesAssumption DEF FilesInv
<1>2. CASE stage = "epsilonize" /\ EpsilonizeFile(planNumber - 1)
  <2>1. planNumber > 1
    BY <1>2 DEF FilesInv
  <2>2. planNumber - 1 \in File
    BY <1>1, <2>1 DEF File
  <2>3. QED
    BY <1>2, <2>2, Zenon
<1>3. CASE stage = "epsilonizeBest" /\ EpsilonizeFile(Best)
  <2>1. Best \in File
    BY DEF File
  <2>2. QED
    BY <1>3, <2>1, Zenon
<1>4. QED
  BY <1>2, <1>3 DEF EpsilonizePlan

LEMMA PlanStep ==
    ASSUME ScheduleInv, FilesInv, PlanInv, PlanFilesNext
    PROVE  PlanInv'
<1>1. /\ plan \in Seq(Step) /\ Len(plan) <= MaxStarts /\ Len(plan) \in Nat
      /\ MaxStarts \in Nat
      /\ DOMAIN files = File /\ DOMAIN originals = File
      /\ \A f \in File : files[f] = None \/ files[f] \in Written
  BY ReschedulingAssumption DEF PlanInv
<1>2. TraceRuns(trace)
  BY DEF ScheduleInv
<1>3. Step' = Step /\ Written' = Written /\ File' = File
  BY DEF Step, Written, Entry, File
<1>4. ASSUME NEW s, trace' = Append(trace, s), Clocked(s)
      PROVE  Clocked(Now)'
  <2>1. trace'[Len(trace')] = s
    BY <1>2, <1>4, NowIs
  <2>2. QED
    BY <1>4, <2>1 DEF Clocked, Now
<1>5. CASE FindPlan
  <2>1. files' = files /\ originals' = originals /\ Next
    BY <1>5 DEF FindPlan, fileVars
  <2>2. CASE \E o \in Op : StartOperator(o)
    <3>1. PICK o \in Op : StartOperator(o)
      BY <2>2
    <3>2. /\ stage = "search" /\ Len(plan) < MaxStarts /\ Duration[o] > 0
          /\ trace' = Append(trace, ApplyOperator(Now, o))
          /\ plan' = Append(plan, [start |-> Now.timestamp, op |-> o])
      BY <3>1 DEF StartOperator
    <3>3. Clocked(Now)
      BY <3>2 DEF PlanInv
    <3>4. Clocked(Now)'
      BY <1>4, <3>2, <3>3, ClockedAfter
    <3>5. [start |-> Now.timestamp, op |-> o] \in Step
      BY <3>3 DEF Clocked, Step
    <3>6. plan' \in Seq(Step) /\ Len(plan') = Len(plan) + 1
      BY <1>1, <3>2, <3>5
    <3>7. Len(plan') <= MaxStarts
      BY <1>1, <3>2, <3>6
    <3>8. QED
      BY <1>1, <1>3, <2>1, <3>4, <3>6, <3>7 DEF PlanInv
  <2>3. CASE PassTime
    <3>1. stage = "search" /\ plan' = plan /\ trace' = Append(trace, LetTimePass(Now, TRUE))
      BY <2>3 DEF PassTime
    <3>2. Clocked(Now)
      BY <3>1 DEF PlanInv
    <3>3. Clocked(Now)'
      BY <1>4, <3>1, <3>2, ClockedAfter
    <3>4. QED
      BY <1>1, <1>3, <2>1, <3>1, <3>3 DEF PlanInv
  <2>4. CASE Reschedule
    <3>1. stage' = "done"
      BY <2>4 DEF Reschedule
    <3>2. plan' \in Seq(Step) /\ Len(plan') = Len(plan)
      BY <1>1, <2>4, RescheduledIs
    <3>3. QED
      BY <1>1, <1>3, <2>1, <3>1, <3>2 DEF PlanInv
  <2>5. CASE \/ SolutionFound \/ BuildInstantPlan \/ BuildPartialOrder \/ CreateSTN
             \/ EliminateNode \/ PerformDPC \/ Tighten \/ ExtractMinimalDistances
    <3>1. plan' = plan /\ stage' # "search"
      BY <2>5 DEF SolutionFound, BuildInstantPlan, BuildPartialOrder, CreateSTN, EliminateNode,
                  PerformDPC, Tighten, ExtractMinimalDistances
    <3>2. QED
      BY <1>1, <1>3, <2>1, <3>1 DEF PlanInv
  <2>6. QED
    BY <2>1, <2>2, <2>3, <2>4, <2>5 DEF Next
<1>6. CASE DropPlan \/ NextPlan
  <2>1. files' = files /\ originals' = originals /\ plan' = <<>> /\ trace' = <<InitialState>>
    BY <1>6 DEF DropPlan, NextPlan, Continue, fileVars
  <2>2. plan' \in Seq(Step) /\ Len(plan') <= MaxStarts
    BY <1>1, <2>1
  <2>3. Now' = InitialState
    <3>1. <<InitialState>>[Len(<<InitialState>>)] = InitialState
      OBVIOUS
    <3>2. QED
      BY <2>1, <3>1, Zenon DEF Now
  <2>4. Clocked(InitialState)
    BY FS_EmptySet DEF InitialState, Clocked
  <2>5. QED
    BY <1>1, <1>3, <2>1, <2>2, <2>3, <2>4 DEF PlanInv, Clocked
<1>7. CASE WritePlan
  <2>1. /\ output' = PlanSteps(plan) /\ plan' = plan /\ stage' \in {"epsilonize", "saved"}
        /\ originals' = originals
    BY <1>7 DEF WritePlan
  <2>2. output' \in Written
    <3>1. /\ output' \in Seq(Entry) /\ Len(output') <= Len(plan)
          /\ \A k \in DOMAIN output' : output'[k].duration % PlanUnit = 0
      BY <1>1, <2>1, WrittenIs
    <3>2. Len(output') \in Nat
      BY <3>1
    <3>3. Len(output') <= MaxStarts
      BY <1>1, <3>1, <3>2
    <3>4. QED
      BY <3>1, <3>3 DEF Written
  <2>3. <<>> \in Written
    <3>1. <<>> \in Seq(Entry) /\ Len(<<>>) = 0 /\ DOMAIN <<>> = {}
      OBVIOUS
    <3>2. QED
      BY <1>1, <3>1 DEF Written
  <2>4. DOMAIN files' = File /\ \A f \in File : files'[f] \in {files[f], output', <<>>}
    <3>1. \/ files' = [f \in File |-> IF f \in {Best, planNumber} THEN output' ELSE files[f]]
          \/ files' = [files EXCEPT ![planNumber] = output']
          \/ files' \in {files, [files EXCEPT ![Best] = <<>>]}
      BY <1>7, Zenon DEF WritePlan
    <3>2. QED
      BY <1>1, <3>1
  <2>5. \A f \in File : files'[f] = None \/ files'[f] \in Written
    BY <1>1, <2>2, <2>3, <2>4
  <2>6. QED
    BY <1>1, <1>3, <2>1, <2>4, <2>5 DEF PlanInv
<1>8. CASE EpsilonizePlan
  <2>1. plan' = plan /\ stage' \in {"epsilonizeBest", "saved"}
    BY <1>8 DEF EpsilonizePlan
  <2>2. PICK g \in File : EpsilonizeFile(g)
    BY <1>8, EpsilonizedFile DEF FilesInv
  <2>3. DOMAIN files' = File /\ DOMAIN originals' = File
    BY <1>1, <2>2, FileIs
  <2>4. \A f \in File : files'[f] = None \/ files'[f] \in Written
    <3>1. <<>> \in Written
      <4>1. <<>> \in Seq(Entry) /\ Len(<<>>) = 0 /\ DOMAIN <<>> = {}
        OBVIOUS
      <4>2. QED
        BY <1>1, <4>1 DEF Written
    <3>2. /\ \/ files'[g] \in {files[g], <<>>}
             \/ files[g] # None /\ files'[g] = EpsilonizedPlan(files[g])
          /\ \A h \in File \ {g} : files'[h] = files[h]
      BY <1>1, <2>2, FileIs
    <3>3. files[g] \in Written => EpsilonizedPlan(files[g]) \in Written
      BY EpsilonizedIs
    <3>4. QED
      BY <1>1, <3>1, <3>2, <3>3
  <2>5. QED
    BY <1>1, <1>3, <2>1, <2>3, <2>4 DEF PlanInv
<1>9. QED
  BY <1>5, <1>6, <1>7, <1>8 DEF PlanFilesNext

LEMMA PlansAreTyped == PlanFilesSpec => []PlanInv
<1>1. PlanFilesInit => PlanInv
  <2> SUFFICES ASSUME PlanFilesInit
               PROVE  PlanInv
    OBVIOUS
  <2>1. /\ trace = <<InitialState>> /\ plan = <<>>
        /\ DOMAIN files = File /\ DOMAIN originals = File /\ \A f \in File : files[f] = None
    BY DEF PlanFilesInit, Init
  <2>2. plan \in Seq(Step) /\ Len(plan) <= MaxStarts
    BY <2>1, ReschedulingAssumption
  <2>3. Now = InitialState
    <3>1. <<InitialState>>[Len(<<InitialState>>)] = InitialState
      OBVIOUS
    <3>2. QED
      BY <2>1, <3>1, Zenon DEF Now
  <2>4. Clocked(InitialState)
    BY FS_EmptySet DEF InitialState, Clocked
  <2>5. QED
    BY <2>1, <2>2, <2>3, <2>4 DEF PlanInv
<1>2. ScheduleInv /\ FilesInv /\ PlanInv /\ [PlanFilesNext]_<<vars, fileVars>> => PlanInv'
  <2> SUFFICES ASSUME PlanInv, UNCHANGED <<vars, fileVars>>
               PROVE  PlanInv'
    BY PlanStep
  <2>1. /\ stage' = stage /\ trace' = trace /\ plan' = plan /\ files' = files
        /\ originals' = originals
    BY DEF vars, fileVars
  <2>2. QED
    BY <2>1 DEF PlanInv, Clocked, Now, Step, Written, Entry, File
<1>3. QED
  BY <1>1, <1>2, ScheduleIsInv, FilesAreSaved, PTL DEF PlanFilesSpec

\* A step of the planner keeps the order of what it rewrites.
LEMMA RewritesInOrder ==
    ASSUME FilesInv, PlanInv, [PlanFilesNext]_<<vars, fileVars>>,
           NEW f \in File, Rewrites(f)
    PROVE  KeepsOrder(files[f], files'[f])
<1>1. /\ stage \in {"epsilonize", "epsilonizeBest"}
      /\ files'[f] # files[f] /\ files'[f] # <<>>
  BY DEF Rewrites
<1>2. EpsilonizePlan
  <2>1. files' # files
    BY <1>1
  <2>2. ~FindPlan /\ ~DropPlan /\ ~NextPlan /\ ~(UNCHANGED <<vars, fileVars>>)
    BY <2>1 DEF FindPlan, DropPlan, NextPlan, fileVars
  <2>3. ~WritePlan
    BY <1>1 DEF WritePlan
  <2>4. QED
    BY <2>2, <2>3 DEF PlanFilesNext
<1>3. PICK g \in File : EpsilonizeFile(g)
  BY <1>2, EpsilonizedFile
<1>4. /\ \/ files'[g] \in {files[g], <<>>}
         \/ files[g] # None /\ files'[g] = EpsilonizedPlan(files[g])
      /\ \A h \in File \ {g} : files'[h] = files[h]
  BY <1>3, FileIs DEF PlanInv
<1>5. f = g
  BY <1>1, <1>4
<1>6. files'[f] = EpsilonizedPlan(files[f]) /\ files[f] \in Written
  BY <1>1, <1>4, <1>5 DEF PlanInv
<1>7. QED
  BY <1>6, EpsilonizedKeepsOrder

\* Whatever plan file is epsilonized, the script keeps the order of its actions: an action
\* that starts after another one has started, or has ended, still does, and no longer at
\* the same time if the separation is not lost when it is written.
THEOREM PrecedenceIsAlwaysKept == PlanFilesSpec => PrecedenceIsKept
<1>1. FilesInv /\ PlanInv /\ [PlanFilesNext]_<<vars, fileVars>> =>
          [\A f \in File : Rewrites(f) => KeepsOrder(files[f], files'[f])]_<<vars, fileVars>>
  BY RewritesInOrder
<1>2. QED
  BY <1>1, FilesAreSaved, PlansAreTyped, PTL DEF PlanFilesSpec, PrecedenceIsKept
=============================================================================
