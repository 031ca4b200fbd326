-------------------------- MODULE PreprocessProofs --------------------------
(***************************************************************************)
(* Theorems about preprocess, for every well-formed file of the            *)
(* translator.                                                             *)
(***************************************************************************)
EXTENDS Preprocess, FiniteSetTheorems, WellFoundedInduction, TLAPS

----------------------------------------------------------------------------
(* Natural numbers                                                         *)

\* A set that holds 0, and with a number below n the next, holds all up to n.
LEMMA UpTo ==
    ASSUME NEW n \in Nat, NEW P, 0 \in P, \A k \in 0..(n - 1) : k \in P => k + 1 \in P
    PROVE  \A k \in 0..n : k \in P
<1> DEFINE Smaller == {p \in Nat \X Nat : p[1] < p[2]}
           Left == {k \in 0..n : k \notin P}
<1> SUFFICES ASSUME Left # {} PROVE FALSE
  OBVIOUS
<1>1. Smaller = OpToRel(<, Nat)
  BY DEF OpToRel
<1>2. IsWellFoundedOn(Smaller, Nat)
  BY <1>1, NatLessThanWellFounded, Zenon
<1>3. Left \in SUBSET Nat
  OBVIOUS
<1>4. PICK m \in Left : \A j \in Left : <<j, m>> \notin Smaller
  <2> HIDE DEF Smaller, Left
  <2>1. QED
    BY <1>2, <1>3, WFMin, Zenon
<1>5. m \in 1..n /\ m \notin P /\ m - 1 \in 0..(n - 1) /\ (m - 1) + 1 = m
  OBVIOUS
<1>6. m - 1 \notin P
  BY <1>5
<1>7. m - 1 \in Left
  BY <1>5, <1>6
<1>8. <<m - 1, m>> \in Smaller
  BY <1>5
<1>9. QED
  BY <1>4, <1>7, <1>8, Zenon

\* A set of natural numbers that is not empty has a least element.
LEMMA HasLeast ==
    ASSUME NEW S \in SUBSET Nat, S # {}
    PROVE  \E m \in S : \A j \in S : m <= j
<1> DEFINE Smaller == {p \in Nat \X Nat : p[1] < p[2]}
<1>1. Smaller = OpToRel(<, Nat)
  BY DEF OpToRel
<1>2. PICK m \in S : \A j \in S : <<j, m>> \notin Smaller
  <2> HIDE DEF Smaller
  <2>1. QED
    BY <1>1, NatLessThanWellFounded, WFMin, Zenon
<1>3. \A j \in S : m <= j
  <2> TAKE j \in S
  <2>1. <<j, m>> \in Nat \X Nat /\ <<j, m>>[1] = j /\ <<j, m>>[2] = m
    OBVIOUS
  <2>2. ~(j < m)
    BY <1>2, <2>1, Zenon
  <2>3. QED
    BY <2>2
<1>4. QED
  BY <1>3

\* The first n numbers are n.
LEMMA IntervalSize ==
    ASSUME NEW n \in Nat
    PROVE  IsFiniteSet(1..n) /\ Cardinality(1..n) = n
<1>1. IsFiniteSet(1..n) /\ Cardinality(1..n) = IF 1 > n THEN 0 ELSE n - 1 + 1
  BY FS_Interval
<1>2. QED
  BY <1>1

\* Each value of f but the first is a step from the one before.
Follows(f, base, step, n) == f[0] = base /\ \A k \in 1..n : f[k] = step[k][f[k - 1]]

\* Such a function exists.
LEMMA RecursionExists ==
    ASSUME NEW n \in Nat, NEW T, NEW base \in T, NEW step \in [1..n -> [T -> T]]
    PROVE  \E f \in [0..n -> T] : Follows(f, base, step, n)
<1> DEFINE Good == {m \in 0..n : \E f \in [0..m -> T] : Follows(f, base, step, m)}
<1>1. 0 \in Good
  <2> DEFINE f == [k \in 0..0 |-> base]
  <2>1. f \in [0..0 -> T] /\ Follows(f, base, step, 0)
    BY DEF Follows
  <2> HIDE DEF f
  <2>2. QED
    BY <2>1
<1>2. ASSUME NEW m \in 0..(n - 1), m \in Good
      PROVE  m + 1 \in Good
  <2>1. PICK f \in [0..m -> T] : Follows(f, base, step, m)
    BY <1>2
  <2> DEFINE g == [k \in 0..(m + 1) |-> IF k <= m THEN f[k] ELSE step[m + 1][f[m]]]
  <2>2. f[m] \in T /\ m + 1 \in 1..n /\ m + 1 \in 0..n /\ m \in Nat
    OBVIOUS
  <2>3. step[m + 1][f[m]] \in T
    BY <2>2
  <2>4. g \in [0..(m + 1) -> T]
    BY <2>3
  <2>5. g[0] = base
    BY <2>1, <2>2 DEF Follows
  <2>6. \A k \in 1..(m + 1) : g[k] = step[k][g[k - 1]]
    <3> TAKE k \in 1..(m + 1)
    <3>1. CASE k <= m
      <4>1. k \in 0..(m + 1) /\ k - 1 \in 0..(m + 1) /\ k - 1 <= m /\ k \in 1..m
        BY <3>1, <2>2
      <4>2. g[k] = f[k] /\ g[k - 1] = f[k - 1]
        BY <4>1, <3>1
      <4>3. QED
        BY <2>1, <4>1, <4>2 DEF Follows
    <3>2. CASE k = m + 1
      <4>1. ~(k <= m) /\ k - 1 = m /\ m \in 0..(m + 1) /\ k \in 0..(m + 1)
        BY <3>2, <2>2
      <4>2. g[k] = step[m + 1][f[m]] /\ g[k - 1] = f[m]
        BY <4>1
      <4>3. QED
        BY <3>2, <4>2
    <3>3. QED
      BY <3>1, <3>2, <2>2
  <2> HIDE DEF g
  <2>7. Follows(g, base, step, m + 1)
    BY <2>5, <2>6 DEF Follows
  <2>8. QED
    BY <2>2, <2>4, <2>7
<1>3. n \in Good
  <2> HIDE DEF Good
  <2>1. \A k \in 0..n : k \in Good
    BY <1>1, <1>2, UpTo
  <2>2. QED
    BY <2>1
<1>4. QED
  BY <1>3

----------------------------------------------------------------------------
(* Sequences                                                               *)

\* upTo of OnlyAt is what it is defined to be.
LEMMA OnlyAtUpTo ==
    ASSUME NEW T, NEW s \in Seq(T), NEW N
    PROVE  \E upTo : /\ OnlyAt(s, N) = upTo[Len(s)]
                     /\ \A n \in 0..Len(s) :
                           upTo[n] = IF n = 0 THEN <<>>
                                     ELSE IF n \in N THEN Append(upTo[n - 1], s[n]) ELSE upTo[n - 1]
<1> DEFINE body(f) == [n \in 0..Len(s) |->
                          IF n = 0 THEN <<>> ELSE IF n \in N THEN Append(f[n - 1], s[n]) ELSE f[n - 1]]
           step == [k \in 1..Len(s) |-> [u \in Seq(T) |-> IF k \in N THEN Append(u, s[k]) ELSE u]]
<1>1. Len(s) \in Nat /\ <<>> \in Seq(T)
  OBVIOUS
<1>2. step \in [1..Len(s) -> [Seq(T) -> Seq(T)]]
  OBVIOUS
<1>3. PICK f \in [0..Len(s) -> Seq(T)] : Follows(f, <<>>, step, Len(s))
  <2> HIDE DEF step
  <2>1. QED
    BY <1>1, <1>2, RecursionExists
<1>4. \A k \in 0..Len(s) : f[k] = body(f)[k]
  <2> TAKE k \in 0..Len(s)
  <2>1. CASE k = 0
    BY <1>3, <2>1 DEF Follows
  <2>2. CASE k # 0
    <3>1. k \in 1..Len(s) /\ k - 1 \in 0..Len(s)
      BY <2>2, <1>1
    <3>2. f[k] = step[k][f[k - 1]]
      BY <1>3, <3>1 DEF Follows
    <3>3. step[k][f[k - 1]] = IF k \in N THEN Append(f[k - 1], s[k]) ELSE f[k - 1]
      BY <3>1
    <3>4. QED
      BY <2>2, <3>2, <3>3
  <2>3. QED
    BY <2>1, <2>2
<1>5. f = body(f)
  <2>1. f = [k \in 0..Len(s) |-> f[k]]
    OBVIOUS
  <2>2. QED
    BY <1>4, <2>1
<1> DEFINE g == CHOOSE h : h = body(h)
<1>6. g = body(g)
  <2> HIDE DEF body
  <2>1. QED
    BY <1>5, Zenon
<1>7. OnlyAt(s, N) = g[Len(s)]
  BY Zenon DEF OnlyAt
<1> HIDE DEF g
<1>8. \A n \in 0..Len(s) : g[n] = body(g)[n]
  BY <1>6
<1>9. \A n \in 0..Len(s) : g[n] = IF n = 0 THEN <<>>
                                  ELSE IF n \in N THEN Append(g[n - 1], s[n]) ELSE g[n - 1]
  BY <1>8
<1> HIDE DEF body, step
<1>10. QED
  BY <1>7, <1>9

\* u has the elements of s at the positions up to m that are in N; at tells where
\* each one comes from.
Picks(u, at, s, N, m) ==
    /\ at \in [1..Len(u) -> 1..m]
    /\ \A j, k \in 1..Len(u) : j < k => at[j] < at[k]
    /\ \A k \in 1..Len(u) : at[k] \in N /\ u[k] = s[at[k]]
    /\ \A i \in 1..m : i \in N => \E k \in 1..Len(u) : at[k] = i

\* OnlyAt picks the elements at the positions N, in their order.
LEMMA OnlyAtPicks ==
    ASSUME NEW T, NEW s \in Seq(T), NEW N
    PROVE  /\ OnlyAt(s, N) \in Seq(T)
           /\ \E at : Picks(OnlyAt(s, N), at, s, N, Len(s))
<1>1. PICK upTo : /\ OnlyAt(s, N) = upTo[Len(s)]
                  /\ \A n \in 0..Len(s) :
                        upTo[n] = IF n = 0 THEN <<>>
                                  ELSE IF n \in N THEN Append(upTo[n - 1], s[n]) ELSE upTo[n - 1]
  BY OnlyAtUpTo
<1> DEFINE Good == {m \in 0..Len(s) : upTo[m] \in Seq(T) /\ \E at : Picks(upTo[m], at, s, N, m)}
<1>2. Len(s) \in Nat
  OBVIOUS
<1>3. 0 \in Good
  <2>1. upTo[0] = <<>>
    BY <1>1, <1>2
  <2>2. Picks(<<>>, <<>>, s, N, 0)
    BY DEF Picks
  <2>3. 0 \in 0..Len(s) /\ <<>> \in Seq(T)
    BY <1>2
  <2>4. QED
    BY <2>1, <2>2, <2>3
<1>4. ASSUME NEW m \in 0..(Len(s) - 1), m \in Good
      PROVE  m + 1 \in Good
  <2>1. m \in Nat /\ m + 1 \in 1..Len(s) /\ m + 1 \in 0..Len(s) /\ (m + 1) - 1 = m /\ m + 1 # 0
    BY <1>2
  <2> DEFINE u == upTo[m]
  <2>2. PICK at : Picks(u, at, s, N, m)
    BY <1>4
  <2>3. u \in Seq(T)
    BY <1>4
  <2>4. upTo[m + 1] = IF m + 1 \in N THEN Append(u, s[m + 1]) ELSE u
    BY <1>1, <2>1
  <2> HIDE DEF u
  <2>5. Len(u) \in Nat /\ \A k \in 1..Len(u) : at[k] \in 1..m
    BY <2>2, <2>3, SMTT(30) DEF Picks
  <2>6. CASE m + 1 \in N
    <3> DEFINE w == Append(u, s[m + 1])
               at2 == [k \in 1..(Len(u) + 1) |-> IF k <= Len(u) THEN at[k] ELSE m + 1]
    <3>1. s[m + 1] \in T
      BY <2>1
    <3>2. /\ w \in Seq(T) /\ Len(w) = Len(u) + 1
          /\ \A k \in 1..Len(u) : w[k] = u[k]
          /\ w[Len(u) + 1] = s[m + 1]
      BY <2>3, <3>1
    <3> HIDE DEF w
    <3>3. at2 \in [1..Len(w) -> 1..(m + 1)]
      BY <3>2, <2>1, <2>5
    <3>4. \A k \in 1..Len(u) : at2[k] = at[k]
      BY <2>5
    <3>5. at2[Len(u) + 1] = m + 1
      BY <2>5
    <3> HIDE DEF at2
    <3>6. \A j, k \in 1..Len(w) : j < k => at2[j] < at2[k]
      <4> SUFFICES ASSUME NEW j \in 1..Len(w), NEW k \in 1..Len(w), j < k
                   PROVE  at2[j] < at2[k]
        OBVIOUS
      <4>1. j \in 1..Len(u) /\ at2[j] = at[j] /\ at[j] \in 1..m
        BY <2>5, <3>2, <3>4
      <4>2. CASE k = Len(u) + 1
        BY <4>1, <4>2, <3>5, <2>1
      <4>3. CASE k \in 1..Len(u)
        BY <4>1, <4>3, <3>4, <2>2 DEF Picks
      <4>4. QED
        BY <4>2, <4>3, <3>2, <2>5
    <3>7. \A k \in 1..Len(w) : at2[k] \in N /\ w[k] = s[at2[k]]
      <4> TAKE k \in 1..Len(w)
      <4>1. CASE k = Len(u) + 1
        BY <4>1, <3>2, <3>5, <2>6
      <4>2. CASE k \in 1..Len(u)
        BY <4>2, <3>2, <3>4, <2>2 DEF Picks
      <4>3. QED
        BY <4>1, <4>2, <3>2, <2>5
    <3>8. \A i \in 1..(m + 1) : i \in N => \E k \in 1..Len(w) : at2[k] = i
      <4> SUFFICES ASSUME NEW i \in 1..(m + 1), i \in N
                   PROVE  \E k \in 1..Len(w) : at2[k] = i
        OBVIOUS
      <4>1. CASE i = m + 1
        <5>1. Len(u) + 1 \in 1..Len(w)
          BY <2>5, <3>2
        <5>2. QED
          BY <3>5, <4>1, <5>1
      <4>2. CASE i \in 1..m
        <5>1. PICK k \in 1..Len(u) : at[k] = i
          BY <2>2, <4>2 DEF Picks
        <5>2. k \in 1..Len(w) /\ at2[k] = i
          BY <2>5, <3>2, <3>4, <5>1
        <5>3. QED
          BY <5>2
      <4>3. QED
        BY <4>1, <4>2, <2>1
    <3>9. Picks(w, at2, s, N, m + 1)
      BY <3>3, <3>6, <3>7, <3>8 DEF Picks
    <3>10. upTo[m + 1] = w
      BY <2>4, <2>6 DEF w
    <3>11. QED
      BY <2>1, <3>2, <3>9, <3>10
  <2>7. CASE m + 1 \notin N
    <3>1. at \in [1..Len(u) -> 1..(m + 1)]
      BY <2>1, <2>2 DEF Picks
    <3>2. \A i \in 1..(m + 1) : i \in N => \E k \in 1..Len(u) : at[k] = i
      <4> SUFFICES ASSUME NEW i \in 1..(m + 1), i \in N
                   PROVE  \E k \in 1..Len(u) : at[k] = i
        OBVIOUS
      <4>1. i \in 1..m
        BY <2>1, <2>7
      <4>2. QED
        BY <4>1, <2>2 DEF Picks
    <3>3. Picks(u, at, s, N, m + 1)
      BY <3>1, <3>2, <2>2 DEF Picks
    <3>4. upTo[m + 1] = u
      BY <2>4, <2>7
    <3>5. QED
      BY <2>1, <2>3, <3>3, <3>4
  <2>8. QED
    BY <2>6, <2>7
<1>5. Len(s) \in Good
  <2> HIDE DEF Good
  <2>1. \A k \in 0..Len(s) : k \in Good
    BY <1>2, <1>3, <1>4, UpTo
  <2>2. QED
    BY <2>1, <1>2
<1>6. QED
  BY <1>1, <1>5

\* Its elements are those of s at the positions N.
LEMMA OnlyAtIs ==
    ASSUME NEW T, NEW s \in Seq(T), NEW N
    PROVE  /\ OnlyAt(s, N) \in Seq(T)
           /\ ToSet(OnlyAt(s, N)) = {s[i] : i \in {j \in DOMAIN s : j \in N}}
           /\ Len(OnlyAt(s, N)) <= Len(s)
<1>1. OnlyAt(s, N) \in Seq(T)
  BY OnlyAtPicks
<1>2. PICK at : Picks(OnlyAt(s, N), at, s, N, Len(s))
  BY OnlyAtPicks
<1> DEFINE u == OnlyAt(s, N)
<1> HIDE DEF u
<1>3. DOMAIN s = 1..Len(s) /\ Len(s) \in Nat
  OBVIOUS
<1>4. u \in Seq(T) /\ DOMAIN u = 1..Len(u) /\ Len(u) \in Nat
  BY <1>1 DEF u
<1>5. /\ at \in [1..Len(u) -> 1..Len(s)]
      /\ \A j, k \in 1..Len(u) : j < k => at[j] < at[k]
      /\ \A k \in 1..Len(u) : at[k] \in N /\ u[k] = s[at[k]]
      /\ \A i \in 1..Len(s) : i \in N => \E k \in 1..Len(u) : at[k] = i
  BY <1>2 DEF Picks, u
<1>6. ToSet(u) = {s[i] : i \in {j \in DOMAIN s : j \in N}}
  <2>1. ASSUME NEW y \in ToSet(u)
        PROVE  y \in {s[i] : i \in {j \in DOMAIN s : j \in N}}
    BY <1>3, <1>4, <1>5 DEF ToSet
  <2>2. ASSUME NEW i \in DOMAIN s, i \in N
        PROVE  s[i] \in ToSet(u)
    <3>1. PICK k \in 1..Len(u) : at[k] = i
      BY <1>3, <1>5, <2>2
    <3>2. QED
      BY <1>4, <1>5, <3>1 DEF ToSet
  <2>3. QED
    BY <2>1, <2>2
<1>7. Len(u) <= Len(s)
  <2>1. at \in Injection(1..Len(u), 1..Len(s))
    <3>1. \A j, k \in 1..Len(u) : at[j] = at[k] => j = k
      <4> TAKE j, k \in 1..Len(u)
      <4>1. j \in Int /\ k \in Int /\ at[j] \in Int /\ at[k] \in Int
        BY <1>3, <1>4, <1>5
      <4>2. (j < k => at[j] < at[k]) /\ (k < j => at[k] < at[j])
        BY <1>5
      <4>3. QED
        BY <4>1, <4>2
    <3>2. DOMAIN at = 1..Len(u)
      BY <1>5
    <3>3. QED
      BY <1>5, <3>1, <3>2, Zenon DEF Injection, IsInjective
  <2>2. /\ IsFiniteSet(1..Len(s)) /\ Cardinality(1..Len(s)) = Len(s)
        /\ Cardinality(1..Len(u)) = Len(u)
    BY <1>3, <1>4, IntervalSize
  <2>3. QED
    BY <2>1, <2>2, FS_Injection
<1>8. QED
  BY <1>1, <1>6, <1>7 DEF u

\* What two sequences hold, one after the other.
LEMMA ConcatHolds ==
    ASSUME NEW T, NEW s \in Seq(T), NEW u \in Seq(T)
    PROVE  /\ s \o u \in Seq(T)
           /\ ToSet(s \o u) = ToSet(s) \cup ToSet(u)
<1>1. /\ s \o u \in Seq(T) /\ Len(s \o u) = Len(s) + Len(u) /\ Len(s) \in Nat /\ Len(u) \in Nat
      /\ DOMAIN s = 1..Len(s) /\ DOMAIN u = 1..Len(u) /\ DOMAIN (s \o u) = 1..Len(s \o u)
  OBVIOUS
<1>2. \A i \in 1..Len(s) : (s \o u)[i] = s[i]
  OBVIOUS
<1>3. \A i \in (Len(s) + 1)..(Len(s) + Len(u)) : (s \o u)[i] = u[i - Len(s)]
  OBVIOUS
<1>4. ASSUME NEW y \in ToSet(s \o u)
      PROVE  y \in ToSet(s) \cup ToSet(u)
  <2>1. PICK i \in 1..(Len(s) + Len(u)) : y = (s \o u)[i]
    BY <1>1 DEF ToSet
  <2>2. CASE i <= Len(s)
    <3>1. i \in 1..Len(s)
      BY <1>1, <2>2
    <3>2. QED
      BY <1>1, <1>2, <2>1, <3>1 DEF ToSet
  <2>3. CASE ~(i <= Len(s))
    <3>1. i \in (Len(s) + 1)..(Len(s) + Len(u)) /\ i - Len(s) \in 1..Len(u)
      BY <1>1, <2>3
    <3>2. QED
      BY <1>1, <1>3, <2>1, <3>1 DEF ToSet
  <2>4. QED
    BY <2>2, <2>3
<1>5. ASSUME NEW y \in ToSet(s)
      PROVE  y \in ToSet(s \o u)
  <2>1. PICK i \in 1..Len(s) : y = s[i]
    BY <1>1 DEF ToSet
  <2>2. i \in 1..Len(s \o u) /\ (s \o u)[i] = y
    BY <1>1, <1>2, <2>1
  <2>3. QED
    BY <1>1, <2>2 DEF ToSet
<1>6. ASSUME NEW y \in ToSet(u)
      PROVE  y \in ToSet(s \o u)
  <2>1. PICK i \in 1..Len(u) : y = u[i]
    BY <1>1 DEF ToSet
  <2>2. /\ i + Len(s) \in (Len(s) + 1)..(Len(s) + Len(u)) /\ (i + Len(s)) - Len(s) = i
        /\ i + Len(s) \in 1..Len(s \o u)
    BY <1>1
  <2>3. (s \o u)[i + Len(s)] = y
    BY <1>3, <2>1, <2>2
  <2>4. QED
    BY <1>1, <2>2, <2>3 DEF ToSet
<1>7. QED
  BY <1>1, <1>4, <1>5, <1>6

\* FlattenSeq holds what its parts hold.
LEMMA FlattenSeqHolds ==
    ASSUME NEW T, NEW seqs \in Seq(Seq(T))
    PROVE  /\ FlattenSeq(seqs) \in Seq(T)
           /\ ToSet(FlattenSeq(seqs)) = UNION {ToSet(seqs[i]) : i \in DOMAIN seqs}
<1> DEFINE L == Len(seqs)
           body(f) == [i \in 1..L |-> IF i = 1 THEN seqs[i] ELSE f[i - 1] \o seqs[i]]
           step == [k \in 1..(L - 1) |-> [u \in Seq(T) |-> u \o seqs[k + 1]]]
           flatten == CHOOSE h : h = body(h)
<1>1. L \in Nat /\ DOMAIN seqs = 1..L /\ \A i \in 1..L : seqs[i] \in Seq(T)
  OBVIOUS
<1>2. CASE L = 0
  <2>1. seqs = <<>>
    BY <1>2
  <2>2. FlattenSeq(seqs) = seqs
    BY <1>2, Zenon DEF FlattenSeq
  <2>3. DOMAIN seqs = {} /\ seqs \in Seq(T)
    BY <2>1
  <2>4. ToSet(seqs) = {} /\ {ToSet(seqs[i]) : i \in DOMAIN seqs} = {}
    BY <2>3 DEF ToSet
  <2>5. UNION {ToSet(seqs[i]) : i \in DOMAIN seqs} = {}
    BY <2>4
  <2>6. QED
    BY <2>2, <2>3, <2>4, <2>5
<1>3. CASE L # 0
  <2>1. L - 1 \in Nat /\ 1 \in 1..L /\ \A k \in 1..(L - 1) : k + 1 \in 1..L
    BY <1>1, <1>3
  <2>2. step \in [1..(L - 1) -> [Seq(T) -> Seq(T)]]
    <3>1. ASSUME NEW k \in 1..(L - 1), NEW u \in Seq(T)
          PROVE  u \o seqs[k + 1] \in Seq(T)
      <4>1. seqs[k + 1] \in Seq(T)
        BY <1>1, <2>1
      <4>2. QED
        BY <4>1
    <3>2. QED
      BY <3>1
  <2>3. seqs[1] \in Seq(T)
    BY <1>1, <2>1
  <2>4. PICK f \in [0..(L - 1) -> Seq(T)] : Follows(f, seqs[1], step, L - 1)
    <3> HIDE DEF step, L
    <3>1. QED
      BY <2>1, <2>2, <2>3, RecursionExists
  <2> DEFINE g == [i \in 1..L |-> f[i - 1]]
  <2>5. \A i \in 1..L : g[i] = body(g)[i]
    <3> TAKE i \in 1..L
    <3>1. CASE i = 1
      BY <1>1, <2>4, <3>1 DEF Follows
    <3>2. CASE i # 1
      <4>1. i - 1 \in 1..(L - 1) /\ i - 1 \in 1..L /\ (i - 1) + 1 = i /\ i - 1 \in 0..(L - 1) /\ (i - 1) - 1 \in 0..(L - 1)
        BY <1>1, <3>2
      <4>2. f[i - 1] = step[i - 1][f[(i - 1) - 1]]
        <5> HIDE DEF step, L
        <5>1. QED
          BY <2>4, <4>1 DEF Follows
      <4>3. g[i - 1] = f[(i - 1) - 1] /\ g[i] = f[i - 1] /\ f[(i - 1) - 1] \in Seq(T)
        BY <4>1, <4>2
      <4>4. step[i - 1][f[(i - 1) - 1]] = f[(i - 1) - 1] \o seqs[i]
        <5>1. \A u \in Seq(T) : step[i - 1][u] = u \o seqs[(i - 1) + 1]
          BY <4>1
        <5>2. QED
          BY <4>1, <4>3, <5>1
      <4>5. g[i] = g[i - 1] \o seqs[i]
        BY <4>2, <4>3, <4>4
      <4> HIDE DEF g
      <4>6. QED
        BY <3>2, <4>5
    <3>3. QED
      BY <3>1, <3>2
  <2>6. g = body(g)
    <3>1. g = [i \in 1..L |-> g[i]]
      OBVIOUS
    <3> HIDE DEF g, L
    <3>2. QED
      BY <2>5, <3>1
  <2>7. flatten = body(flatten)
    <3> HIDE DEF body, g
    <3>1. QED
      BY <2>6, Zenon
  <2>8. FlattenSeq(seqs) = flatten[L]
    BY <1>3, Zenon DEF FlattenSeq
  <2> HIDE DEF flatten
  <2>9. \A i \in 1..L : flatten[i] = body(flatten)[i]
    BY <2>7
  <2>10. flatten[1] = seqs[1] /\ \A i \in 1..L : i # 1 => flatten[i] = flatten[i - 1] \o seqs[i]
    BY <2>1, <2>9
  <2> HIDE DEF body, step, g
  <2> DEFINE Good == {k \in 0..(L - 1) : /\ flatten[k + 1] \in Seq(T)
                                         /\ ToSet(flatten[k + 1]) = UNION {ToSet(seqs[i]) : i \in 1..(k + 1)}}
  <2>11. 0 \in Good
    <3>1. 0 \in 0..(L - 1) /\ 0 + 1 = 1 /\ 1..1 = {1}
      BY <2>1
    <3>2. UNION {ToSet(seqs[i]) : i \in {1}} = ToSet(seqs[1])
      OBVIOUS
    <3>3. QED
      BY <2>3, <2>10, <3>1, <3>2
  <2>12. ASSUME NEW k \in 0..((L - 1) - 1), k \in Good
         PROVE  k + 1 \in Good
    <3>1. k + 1 \in 0..(L - 1) /\ (k + 1) + 1 \in 1..L /\ (k + 1) + 1 # 1 /\ ((k + 1) + 1) - 1 = k + 1 /\ k \in Nat
      BY <2>1
    <3> DEFINE u == flatten[k + 1]
               w == seqs[(k + 1) + 1]
    <3>2. flatten[(k + 1) + 1] = u \o w
      BY <2>10, <3>1
    <3>3. u \in Seq(T) /\ w \in Seq(T)
      BY <1>1, <2>12, <3>1
    <3>4. ToSet(u) = UNION {ToSet(seqs[i]) : i \in 1..(k + 1)}
      BY <2>12
    <3> HIDE DEF u
    <3>5. u \o w \in Seq(T) /\ ToSet(u \o w) = ToSet(u) \cup ToSet(w)
      <4> HIDE DEF w
      <4>1. QED
        BY <3>3, ConcatHolds
    <3>6. 1..((k + 1) + 1) = (1..(k + 1)) \cup {(k + 1) + 1}
      BY <3>1
    <3>7. UNION {ToSet(seqs[i]) : i \in 1..((k + 1) + 1)}
             = (UNION {ToSet(seqs[i]) : i \in 1..(k + 1)}) \cup ToSet(w)
      BY <3>6
    <3> HIDE DEF w
    <3>8. QED
      BY <3>1, <3>2, <3>4, <3>5, <3>7
  <2>13. L - 1 \in Good
    <3> HIDE DEF Good, L
    <3>1. \A k \in 0..(L - 1) : k \in Good
      BY <2>1, <2>11, <2>12, UpTo
    <3>2. QED
      BY <2>1, <3>1
  <2>14. (L - 1) + 1 = L
    BY <2>1
  <2>15. QED
    BY <1>1, <2>8, <2>13, <2>14
<1>4. QED
  BY <1>2, <1>3

----------------------------------------------------------------------------
(* The task                                                                *)

\* The sets that the parts of a task on the variables V are members of.  The
\* conditions of an effect without conditions at end were never read.
WhenSet(V) ==
    {w \in [conditional : BOOLEAN, start : Conditions(V), overall : Conditions(V), end : Conditions(V)] :
        ~w.conditional => w.start = <<>> /\ w.overall = <<>> /\ w.end = <<>>}
PrePostSet(V) == [var : V, pre : Int, post : Int, when : WhenSet(V)]
NumericalSet(V) == [var : V, fop : Int, operand : V, when : WhenSet(V)]
EffectsSet(V) == [prePost : Seq(PrePostSet(V)), numerical : Seq(NumericalSet(V)), module : Seq([when : WhenSet(V)])]
PrevailSet(V) == [start : Conditions(V), overall : Conditions(V), end : Conditions(V)]
OperatorSet(V) == [groundings : Nat, durationOp : Int, duration : V, prevail : PrevailSet(V),
                   start : EffectsSet(V), end : EffectsSet(V)]
RelationalSet(V) == [conditions : Conditions(V), effect : V, old : Int, new : Int]
FunctionalSet(V) == [effect : V, op : Int, left : V, right : V, comparison : BOOLEAN]
VariableSet == [range : Int, layer : Int, functional : BOOLEAN, module : BOOLEAN,
                duration : BOOLEAN, comparison : BOOLEAN, subterm : BOOLEAN]

\* A task speaks of its own variables only.
TaskType(t) ==
    LET V == DOMAIN t.variables
    IN  /\ t.variables \in Seq(VariableSet)
        /\ t.initial \in Seq(Int)
        /\ t.goal \in Conditions(V)
        /\ t.operators \in Seq(OperatorSet(V))
        /\ t.relational \in Seq(RelationalSet(V))
        /\ t.functional \in Seq(FunctionalSet(V))
        /\ DOMAIN t = {"variables", "initial", "goal", "operators", "relational", "functional"}

\* The variables that hold the durations of operators are marked.
DurationsAreMarked(t) ==
    \A i \in DOMAIN t.operators : t.variables[t.operators[i].duration].duration = TRUE

\* What is read of an effect.
SasEffectSet(V, variables) ==
    {e \in [start : Conditions(V), overall : Conditions(V), end : Conditions(V),
            target : V \cup {0}, first : Int, second : Int] :
        e.target # 0 /\ variables[e.target].range = -1 => e.second \in V}

\* Conditions are read as such.
LEMMA ReadConditionsType ==
    ASSUME NEW V, NEW variables, NEW e \in SasEffectSet(V, variables)
    PROVE  ReadConditions(e) \in WhenSet(V)
  BY DEF ReadConditions, WhenSet, SasEffectSet, Conditions

\* Reading effects sorts them into effects on variables, on functional
\* variables, and of modules.
LEMMA ReadEffectsType ==
    ASSUME NEW V, NEW variables, NEW effects \in Seq(SasEffectSet(V, variables)), 0 \notin V
    PROVE  ReadEffects(variables, effects) \in EffectsSet(V)
<1> DEFINE E == SasEffectSet(V, variables)
           isModule(e) == e.target = 0
           isNumerical(e) == ~isModule(e) /\ variables[e.target].range = -1
           isPrePost(e) == ~isModule(e) /\ ~isNumerical(e)
           P == {i \in DOMAIN effects : isPrePost(effects[i])}
           N == {i \in DOMAIN effects : isNumerical(effects[i])}
           M == {i \in DOMAIN effects : isModule(effects[i])}
           pre == OnlyAt(effects, P)
           num == OnlyAt(effects, N)
           mod == OnlyAt(effects, M)
<1>1. /\ pre \in Seq(E) /\ ToSet(pre) = {effects[i] : i \in {j \in DOMAIN effects : j \in P}}
      /\ num \in Seq(E) /\ ToSet(num) = {effects[i] : i \in {j \in DOMAIN effects : j \in N}}
      /\ mod \in Seq(E)
  <2> HIDE DEF P, N, M, E
  <2>1. effects \in Seq(E)
    BY DEF E
  <2>2. QED
    BY <2>1, OnlyAtIs
<1>2. \A i \in DOMAIN pre : pre[i] \in E /\ pre[i].target \in V /\ pre[i].first \in Int /\ pre[i].second \in Int
  <2> TAKE i \in DOMAIN pre
  <2>1. pre[i] \in ToSet(pre) /\ pre[i] \in E
    <3> HIDE DEF pre, E
    <3>1. QED
      BY <1>1 DEF ToSet
  <2>2. pre[i].target # 0
    BY <1>1, <2>1
  <2>3. QED
    BY <2>1, <2>2 DEF SasEffectSet
<1>3. \A i \in DOMAIN num : num[i] \in E /\ num[i].target \in V /\ num[i].first \in Int /\ num[i].second \in V
  <2> TAKE i \in DOMAIN num
  <2>1. num[i] \in ToSet(num) /\ num[i] \in E
    <3> HIDE DEF num, E
    <3>1. QED
      BY <1>1 DEF ToSet
  <2>2. num[i].target # 0 /\ variables[num[i].target].range = -1
    BY <1>1, <2>1
  <2>3. QED
    BY <2>1, <2>2 DEF SasEffectSet
<1>4. \A i \in DOMAIN mod : mod[i] \in E
  <2> HIDE DEF mod, E
  <2>1. QED
    BY <1>1
<1>5. ReadEffects(variables, effects) =
        [prePost |-> [i \in DOMAIN pre |-> [var |-> pre[i].target, pre |-> pre[i].first, post |-> pre[i].second,
                                            when |-> ReadConditions(pre[i])]],
         numerical |-> [i \in DOMAIN num |-> [var |-> num[i].target, fop |-> num[i].first, operand |-> num[i].second,
                                              when |-> ReadConditions(num[i])]],
         module |-> [i \in DOMAIN mod |-> [when |-> ReadConditions(mod[i])]]]
  BY Zenon DEF ReadEffects
<1>6. /\ DOMAIN pre = 1..Len(pre) /\ DOMAIN num = 1..Len(num) /\ DOMAIN mod = 1..Len(mod)
      /\ Len(pre) \in Nat /\ Len(num) \in Nat /\ Len(mod) \in Nat
  <2> HIDE DEF pre, num, mod, E
  <2>1. QED
    BY <1>1
<1> HIDE DEF pre, num, mod, E
<1>7. [i \in DOMAIN pre |-> [var |-> pre[i].target, pre |-> pre[i].first, post |-> pre[i].second,
                             when |-> ReadConditions(pre[i])]] \in Seq(PrePostSet(V))
  <2>1. \A i \in DOMAIN pre : ReadConditions(pre[i]) \in WhenSet(V)
    BY <1>2, ReadConditionsType DEF E
  <2>2. \A i \in DOMAIN pre : [var |-> pre[i].target, pre |-> pre[i].first, post |-> pre[i].second,
                             when |-> ReadConditions(pre[i])] \in PrePostSet(V)
    BY <1>2, <2>1 DEF PrePostSet
  <2>3. QED
    BY <1>6, <2>2
<1>8. [i \in DOMAIN num |-> [var |-> num[i].target, fop |-> num[i].first, operand |-> num[i].second,
                             when |-> ReadConditions(num[i])]] \in Seq(NumericalSet(V))
  <2>1. \A i \in DOMAIN num : ReadConditions(num[i]) \in WhenSet(V)
    BY <1>3, ReadConditionsType DEF E
  <2>2. \A i \in DOMAIN num : [var |-> num[i].target, fop |-> num[i].first, operand |-> num[i].second,
                             when |-> ReadConditions(num[i])] \in NumericalSet(V)
    BY <1>3, <2>1 DEF NumericalSet
  <2>3. QED
    BY <1>6, <2>2
<1>9. [i \in DOMAIN mod |-> [when |-> ReadConditions(mod[i])]] \in Seq([when : WhenSet(V)])
  <2>1. \A i \in DOMAIN mod : ReadConditions(mod[i]) \in WhenSet(V)
    BY <1>4, ReadConditionsType DEF E
  <2>2. QED
    BY <1>6, <2>1
<1>10. QED
  BY <1>5, <1>7, <1>8, <1>9 DEF EffectsSet

\* What is read of an operator, an axiom and a variable.
SasOperatorSet(V, variables) ==
    [groundings : Nat, durationOp : Int, duration : V,
     prevailStart : Conditions(V), prevailOverall : Conditions(V), prevailEnd : Conditions(V),
     effectStart : Seq(SasEffectSet(V, variables)), effectEnd : Seq(SasEffectSet(V, variables))]
SasAxiomSet(V) == [effect : V, op : Int, left : V, right : V]
SasVariableSet == [range : Int, layer : Int]

\* An operator of a well-formed file is read as one.
LEMMA ReadOperatorType ==
    ASSUME NEW V, NEW variables, 0 \notin V, NEW o \in SasOperatorSet(V, variables)
    PROVE  ReadOperator(variables, o) \in OperatorSet(V) /\ ReadOperator(variables, o).duration = o.duration
<1>1. o.effectStart \in Seq(SasEffectSet(V, variables)) /\ o.effectEnd \in Seq(SasEffectSet(V, variables))
  BY DEF SasOperatorSet
<1>2. ReadEffects(variables, o.effectStart) \in EffectsSet(V) /\ ReadEffects(variables, o.effectEnd) \in EffectsSet(V)
  BY <1>1, ReadEffectsType
<1>3. QED
  BY <1>2 DEF ReadOperator, OperatorSet, PrevailSet, SasOperatorSet

\* Comparisons and subterms.
LEMMA ReadFunctionalAxiomsType ==
    ASSUME NEW V, NEW sas,
           sas.comparisons \in Seq(SasAxiomSet(V)),
           sas.subterms \in Seq(SasAxiomSet(V))
    PROVE  ReadFunctionalAxioms(sas) \in Seq(FunctionalSet(V))
<1> DEFINE read(axioms, isComparison) ==
            [i \in DOMAIN axioms |->
                [effect |-> axioms[i].effect, op |-> axioms[i].op, left |-> axioms[i].left,
                 right |-> axioms[i].right, comparison |-> isComparison]]
<1>1. ASSUME NEW axioms \in Seq(SasAxiomSet(V)), NEW b \in BOOLEAN
      PROVE  read(axioms, b) \in Seq(FunctionalSet(V))
  <2>1. DOMAIN axioms = 1..Len(axioms) /\ Len(axioms) \in Nat
    OBVIOUS
  <2>2. \A i \in DOMAIN axioms : read(axioms, b)[i] \in FunctionalSet(V)
    <3> TAKE i \in DOMAIN axioms
    <3>1. axioms[i] \in SasAxiomSet(V)
      BY <2>1
    <3>2. QED
      BY <3>1 DEF FunctionalSet, SasAxiomSet
  <2>3. DOMAIN read(axioms, b) = 1..Len(axioms) /\ read(axioms, b) = [i \in 1..Len(axioms) |-> read(axioms, b)[i]]
    BY <2>1
  <2> HIDE DEF read
  <2>4. QED
    BY <2>1, <2>2, <2>3
<1>2. ReadFunctionalAxioms(sas) = read(sas.comparisons, TRUE) \o read(sas.subterms, FALSE)
  BY Zenon DEF ReadFunctionalAxioms
<1>3. read(sas.comparisons, TRUE) \in Seq(FunctionalSet(V)) /\ read(sas.subterms, FALSE) \in Seq(FunctionalSet(V))
  BY <1>1
<1> DEFINE first == read(sas.comparisons, TRUE)
           second == read(sas.subterms, FALSE)
<1>4. first \in Seq(FunctionalSet(V)) /\ second \in Seq(FunctionalSet(V)) /\ ReadFunctionalAxioms(sas) = first \o second
  BY <1>2, <1>3
<1> HIDE DEF first, second
<1>5. QED
  BY <1>4, ConcatHolds

\* What preprocess reads speaks of its own variables, and marks the durations.
LEMMA ReadProblemType ==
    ASSUME NEW sas, WellFormed(sas)
    PROVE  TaskType(ReadProblem(sas)) /\ DurationsAreMarked(ReadProblem(sas))
<1> DEFINE t == ReadProblem(sas)
           V == DOMAIN sas.variables
<1>1. /\ sas.variables \in Seq(SasVariableSet)
      /\ sas.initial \in Seq(Int)
      /\ sas.goal \in Conditions(V)
      /\ sas.operators \in Seq(SasOperatorSet(V, sas.variables))
      /\ sas.rules \in Seq(RelationalSet(V))
      /\ sas.comparisons \in Seq(SasAxiomSet(V))
      /\ sas.subterms \in Seq(SasAxiomSet(V))
  BY Zenon DEF WellFormed, SasEffectSet, RelationalSet, SasOperatorSet, SasAxiomSet, SasVariableSet
<1>2. /\ t.variables = ReadVariables(sas) /\ t.initial = sas.initial /\ t.goal = sas.goal
      /\ t.operators = [i \in DOMAIN sas.operators |-> ReadOperator(sas.variables, sas.operators[i])]
      /\ t.relational = sas.rules /\ t.functional = ReadFunctionalAxioms(sas)
      /\ DOMAIN t = {"variables", "initial", "goal", "operators", "relational", "functional"}
  BY DEF ReadProblem
<1> HIDE DEF t
<1>3. V = 1..Len(sas.variables) /\ Len(sas.variables) \in Nat /\ 0 \notin V
  BY <1>1
<1>4. t.variables \in Seq(VariableSet) /\ DOMAIN t.variables = V
  <2>1. \A v \in V : sas.variables[v] \in SasVariableSet
    BY <1>1
  <2> DEFINE read(v) == [range |-> sas.variables[v].range,
         layer |-> sas.variables[v].layer,
         functional |-> sas.variables[v].range = -1,
         module |-> v \in ModuleVars(sas),
         duration |-> \E i \in DOMAIN sas.operators : sas.operators[i].duration = v,
         comparison |-> \E i \in DOMAIN sas.comparisons : sas.comparisons[i].effect = v,
         subterm |-> \E i \in DOMAIN sas.subterms : sas.subterms[i].effect = v]
  <2>2. \A v \in V : read(v) \in VariableSet
    <3> TAKE v \in V
    <3>1. sas.variables[v].range \in Int /\ sas.variables[v].layer \in Int
      BY <2>1 DEF SasVariableSet
    <3>2. QED
      BY <3>1 DEF VariableSet
  <2>3. ReadVariables(sas) = [v \in V |-> read(v)]
    BY Zenon DEF ReadVariables
  <2> HIDE DEF read
  <2>4. QED
    BY <1>2, <1>3, <2>2, <2>3
<1>5. DOMAIN sas.operators = 1..Len(sas.operators) /\ Len(sas.operators) \in Nat
  BY <1>1
<1>6. \A i \in DOMAIN sas.operators : sas.operators[i] \in SasOperatorSet(V, sas.variables)
  BY <1>1
<1> HIDE DEF V
<1>7. \A i \in DOMAIN sas.operators :
         /\ ReadOperator(sas.variables, sas.operators[i]) \in OperatorSet(V)
         /\ ReadOperator(sas.variables, sas.operators[i]).duration = sas.operators[i].duration
  BY <1>3, <1>6, ReadOperatorType
<1>8. t.operators \in Seq(OperatorSet(V))
  BY <1>2, <1>5, <1>7
<1>9. t.functional \in Seq(FunctionalSet(V))
  BY <1>1, <1>2, ReadFunctionalAxiomsType
<1>10. TaskType(t)
  BY <1>1, <1>2, <1>4, <1>8, <1>9 DEF TaskType
<1>11. DurationsAreMarked(t)
  <2> SUFFICES ASSUME NEW i \in DOMAIN t.operators
               PROVE  t.variables[t.operators[i].duration].duration = TRUE
    BY DEF DurationsAreMarked
  <2>1. i \in DOMAIN sas.operators /\ t.operators[i].duration = sas.operators[i].duration
    BY <1>2, <1>7
  <2>2. sas.operators[i].duration \in V
    BY <1>6, <2>1 DEF SasOperatorSet
  <2>3. t.variables[sas.operators[i].duration].duration
             = (\E j \in DOMAIN sas.operators : sas.operators[j].duration = sas.operators[i].duration)
    <3> DEFINE d == sas.operators[i].duration
               isDuration(v) == \E j \in DOMAIN sas.operators : sas.operators[j].duration = v
    <3>1. \A v \in DOMAIN sas.variables : ReadVariables(sas)[v].duration = isDuration(v)
      BY DEF ReadVariables
    <3> HIDE DEF isDuration
    <3>2. ReadVariables(sas)[d].duration = isDuration(d)
      BY <2>2, <3>1 DEF V
    <3>3. QED
      BY <1>2, <3>2 DEF isDuration
  <2>4. QED
    BY <2>1, <2>3
<1>12. QED
  BY <1>10, <1>11 DEF t

----------------------------------------------------------------------------
(* The causal graph                                                        *)

\* What three sequences hold, one after the other.
LEMMA Concat3Holds ==
    ASSUME NEW T, NEW s \in Seq(T), NEW u \in Seq(T), NEW w \in Seq(T)
    PROVE  /\ s \o u \o w \in Seq(T)
           /\ ToSet(s \o u \o w) = ToSet(s) \cup ToSet(u) \cup ToSet(w)
<1> DEFINE x == s \o u
<1>1. x \in Seq(T) /\ ToSet(x) = ToSet(s) \cup ToSet(u)
  BY ConcatHolds
<1> HIDE DEF x
<1>2. x \o w \in Seq(T) /\ ToSet(x \o w) = ToSet(x) \cup ToSet(w)
  BY <1>1, ConcatHolds
<1>3. QED
  BY <1>1, <1>2 DEF x

\* The variables of conditions.
LEMMA VarsOfHolds ==
    ASSUME NEW V, NEW conds \in Conditions(V)
    PROVE  /\ VarsOf(conds) \in Seq(V)
           /\ ToSet(VarsOf(conds)) = {c[1] : c \in ToSet(conds)}
<1>1. DOMAIN conds = 1..Len(conds) /\ Len(conds) \in Nat /\ \A i \in DOMAIN conds : conds[i] \in V \X Int
  BY DEF Conditions
<1>2. \A i \in DOMAIN conds : conds[i][1] \in V
  BY <1>1
<1>3. VarsOf(conds) = [i \in DOMAIN conds |-> conds[i][1]]
  BY DEF VarsOf, VarOf
<1>4. VarsOf(conds) \in Seq(V)
  BY <1>1, <1>2, <1>3
<1>5. ToSet(VarsOf(conds)) = {c[1] : c \in ToSet(conds)}
  BY <1>3 DEF ToSet
<1>6. QED
  BY <1>4, <1>5

\* Edges lead from each source to the target.
LEMMA EdgesHold ==
    ASSUME NEW V, NEW sources \in Seq(V), NEW target \in V
    PROVE  /\ Edges(sources, target) \in Seq(V \X V)
           /\ \A v \in ToSet(sources) : <<v, target>> \in ToSet(Edges(sources, target))
<1>1. DOMAIN sources = 1..Len(sources) /\ Len(sources) \in Nat /\ \A i \in DOMAIN sources : sources[i] \in V
  OBVIOUS
<1>2. Edges(sources, target) = [i \in 1..Len(sources) |-> <<sources[i], target>>]
  BY <1>1 DEF Edges
<1>3. \A i \in 1..Len(sources) : <<sources[i], target>> \in V \X V
  BY <1>1
<1>4. QED
  BY <1>1, <1>2, <1>3 DEF ToSet

\* The condition variables of an effect, and the conditions it has.
LEMMA ConditionVarsHold ==
    ASSUME NEW V, NEW e, e.when \in WhenSet(V)
    PROVE  /\ ConditionVars(e) \in Seq(V)
           /\ ToSet(ConditionVars(e)) = WhenVars(e)
<1> DEFINE w == e.when
<1>1. /\ w.start \in Conditions(V) /\ w.overall \in Conditions(V) /\ w.end \in Conditions(V)
      /\ w.conditional \in BOOLEAN
      /\ ~w.conditional => w.start = <<>> /\ w.overall = <<>> /\ w.end = <<>>
  BY DEF WhenSet
<1> HIDE DEF w
<1> DEFINE a == VarsOf(w.start)
           b == VarsOf(w.overall)
           c == VarsOf(w.end)
<1>2. a \in Seq(V) /\ b \in Seq(V) /\ c \in Seq(V)
  BY <1>1, VarsOfHolds
<1> HIDE DEF a, b, c
<1>3. a \o b \in Seq(V)
  BY <1>2
<1>4. (a \o b) \o c \in Seq(V)
  BY <1>2, <1>3
<1>5. WhenVars(e) = ToSet((a \o b) \o c)
  BY DEF WhenVars, a, b, c, w
<1>6. CASE w.conditional
  <2>1. ConditionVars(e) = (a \o b) \o c
    BY <1>6 DEF ConditionVars, a, b, c, w
  <2>2. QED
    BY <1>4, <1>5, <2>1
<1>7. CASE ~w.conditional
  <2>1. ConditionVars(e) = <<>>
    BY <1>7 DEF ConditionVars, w
  <2>2. VarsOf(<<>>) = <<>>
    BY DEF VarsOf
  <2>3. a = <<>> /\ b = <<>> /\ c = <<>>
    BY <1>1, <1>7, <2>2 DEF a, b, c
  <2>4. (a \o b) \o c = <<>>
    BY <2>3
  <2>5. QED
    BY <1>5, <2>1, <2>4
<1>8. QED
  BY <1>1, <1>6, <1>7

\* Every effect of an operator depends on what the operator asks for.
LEMMA OperatorVarsHold ==
    ASSUME NEW V, NEW o \in OperatorSet(V)
    PROVE  /\ OperatorVars(o) \in Seq(V)
           /\ ToSet(VarsOf(Prevails(o))) \subseteq ToSet(OperatorVars(o))
<1>1. /\ o.prevail.start \in Conditions(V) /\ o.prevail.overall \in Conditions(V) /\ o.prevail.end \in Conditions(V)
      /\ o.start.prePost \in Seq(PrePostSet(V)) /\ o.end.prePost \in Seq(PrePostSet(V))
  BY DEF OperatorSet, PrevailSet, EffectsSet
<1> DEFINE targets(prePosts) == [i \in DOMAIN prePosts |-> prePosts[i].var]
           a == VarsOf(o.prevail.start)
           b == VarsOf(o.prevail.overall)
           c == VarsOf(o.prevail.end)
           d == targets(o.start.prePost)
           e == targets(o.end.prePost)
<1>2. \A prePosts \in Seq(PrePostSet(V)) : targets(prePosts) \in Seq(V)
  <2> TAKE prePosts \in Seq(PrePostSet(V))
  <2>1. DOMAIN prePosts = 1..Len(prePosts) /\ Len(prePosts) \in Nat /\ \A i \in DOMAIN prePosts : prePosts[i] \in PrePostSet(V)
    OBVIOUS
  <2>2. \A i \in DOMAIN prePosts : prePosts[i].var \in V
    BY <2>1 DEF PrePostSet
  <2>3. QED
    BY <2>1, <2>2
<1>3. d \in Seq(V) /\ e \in Seq(V)
  BY <1>1, <1>2
<1>4. /\ a \in Seq(V) /\ ToSet(a) = {x[1] : x \in ToSet(o.prevail.start)}
      /\ b \in Seq(V) /\ ToSet(b) = {x[1] : x \in ToSet(o.prevail.overall)}
      /\ c \in Seq(V) /\ ToSet(c) = {x[1] : x \in ToSet(o.prevail.end)}
  BY <1>1, VarsOfHolds
<1>5. OperatorVars(o) = (((a \o b) \o c) \o d) \o e
  BY Zenon DEF OperatorVars
<1> HIDE DEF a, b, c, d, e
<1> DEFINE abc == a \o b \o c
<1>6. abc \in Seq(V) /\ ToSet(abc) = ToSet(a) \cup ToSet(b) \cup ToSet(c)
  BY <1>4, Concat3Holds
<1>7. OperatorVars(o) = abc \o d \o e
  BY <1>5
<1> HIDE DEF abc
<1>8. /\ abc \o d \o e \in Seq(V)
      /\ ToSet(abc \o d \o e) = ToSet(abc) \cup ToSet(d) \cup ToSet(e)
  BY <1>3, <1>6, Concat3Holds
<1>9. ToSet(VarsOf(Prevails(o))) = ToSet(a) \cup ToSet(b) \cup ToSet(c)
  <2> DEFINE p == o.prevail.start
             q == o.prevail.overall
             r == o.prevail.end
  <2>1. p \in Seq(V \X Int) /\ q \in Seq(V \X Int) /\ r \in Seq(V \X Int) /\ Prevails(o) = p \o q \o r
    BY <1>1 DEF Prevails, Conditions
  <2> HIDE DEF p, q, r
  <2>2. p \o q \o r \in Seq(V \X Int) /\ ToSet(p \o q \o r) = ToSet(p) \cup ToSet(q) \cup ToSet(r)
    BY <2>1, Concat3Holds
  <2>3. ToSet(VarsOf(Prevails(o))) = {x[1] : x \in ToSet(Prevails(o))}
    BY <2>1, <2>2, VarsOfHolds DEF Conditions
  <2>4. QED
    BY <1>4, <2>1, <2>2, <2>3 DEF p, q, r
<1>10. QED
  BY <1>6, <1>7, <1>8, <1>9

\* Sequences of one and of two elements.
LEMMA ShortSequences ==
    ASSUME NEW T, NEW x \in T, NEW y \in T
    PROVE  /\ <<x>> \in Seq(T) /\ ToSet(<<x>>) = {x}
           /\ <<x, y>> \in Seq(T) /\ ToSet(<<x, y>>) = {x, y}
<1>1. DOMAIN <<x>> = {1} /\ DOMAIN <<x, y>> = {1, 2} /\ <<x>>[1] = x /\ <<x, y>>[1] = x /\ <<x, y>>[2] = y
  OBVIOUS
<1>2. ToSet(<<x>>) = {x} /\ ToSet(<<x, y>>) = {x, y}
  BY <1>1, Zenon DEF ToSet
<1>3. QED
  BY <1>2

\* What the members of a sequence of effects are.
LEMMA EffectsAre ==
    ASSUME NEW V, NEW o \in OperatorSet(V)
    PROVE  /\ Effects(o) \in Seq(PrePostSet(V)) /\ NumEffects(o) \in Seq(NumericalSet(V))
           /\ \A i \in DOMAIN Effects(o) : Effects(o)[i].var \in V /\ Effects(o)[i].when \in WhenSet(V)
           /\ \A i \in DOMAIN NumEffects(o) : /\ NumEffects(o)[i].var \in V /\ NumEffects(o)[i].operand \in V
                                              /\ NumEffects(o)[i].when \in WhenSet(V)
<1>1. /\ o.start.prePost \in Seq(PrePostSet(V)) /\ o.end.prePost \in Seq(PrePostSet(V))
      /\ o.start.numerical \in Seq(NumericalSet(V)) /\ o.end.numerical \in Seq(NumericalSet(V))
  BY DEF OperatorSet, EffectsSet
<1>2. Effects(o) \in Seq(PrePostSet(V)) /\ NumEffects(o) \in Seq(NumericalSet(V))
  BY <1>1, ConcatHolds DEF Effects, NumEffects
<1>3. /\ \A i \in DOMAIN Effects(o) : Effects(o)[i] \in PrePostSet(V)
      /\ \A i \in DOMAIN NumEffects(o) : NumEffects(o)[i] \in NumericalSet(V)
  BY <1>2
<1>4. QED
  BY <1>2, <1>3 DEF PrePostSet, NumericalSet

\* An effect's variable depends on what its operator and its conditions ask for,
\* and on its operand.
LEMMA OperatorEdgesHold ==
    ASSUME NEW V, NEW o \in OperatorSet(V)
    PROVE  /\ OperatorEdges(o) \in Seq(V \X V)
           /\ \A i \in DOMAIN Effects(o) : \A v \in ToSet(VarsOf(Prevails(o))) \cup WhenVars(Effects(o)[i]) :
                 <<v, Effects(o)[i].var>> \in ToSet(OperatorEdges(o))
           /\ \A i \in DOMAIN NumEffects(o) :
                 \A v \in ToSet(VarsOf(Prevails(o))) \cup WhenVars(NumEffects(o)[i]) \cup {NumEffects(o)[i].operand} :
                    <<v, NumEffects(o)[i].var>> \in ToSet(OperatorEdges(o))
<1> DEFINE p == Effects(o)
           q == NumEffects(o)
           vars1(i) == OperatorVars(o) \o ConditionVars(p[i])
           vars2(i) == OperatorVars(o) \o ConditionVars(q[i]) \o <<q[i].operand>>
           first == [i \in DOMAIN p |-> Edges(vars1(i), p[i].var)]
           second == [i \in DOMAIN q |-> Edges(vars2(i), q[i].var)]
<1>1. OperatorEdges(o) = FlattenSeq(first) \o FlattenSeq(second)
  BY Zenon DEF OperatorEdges, Effects, NumEffects
<1>2. /\ p \in Seq(PrePostSet(V)) /\ DOMAIN p = 1..Len(p) /\ Len(p) \in Nat
      /\ q \in Seq(NumericalSet(V)) /\ DOMAIN q = 1..Len(q) /\ Len(q) \in Nat
  <2>1. p \in Seq(PrePostSet(V)) /\ q \in Seq(NumericalSet(V))
    BY EffectsAre
  <2> HIDE DEF p, q
  <2>2. QED
    BY <2>1
<1>3. /\ \A i \in DOMAIN p : p[i].var \in V /\ p[i].when \in WhenSet(V)
      /\ \A i \in DOMAIN q : q[i].var \in V /\ q[i].operand \in V /\ q[i].when \in WhenSet(V)
  BY EffectsAre
<1> HIDE DEF p, q
<1>4. OperatorVars(o) \in Seq(V) /\ ToSet(VarsOf(Prevails(o))) \subseteq ToSet(OperatorVars(o))
  BY OperatorVarsHold
<1>5. \A i \in DOMAIN p : /\ vars1(i) \in Seq(V)
                          /\ ToSet(vars1(i)) = ToSet(OperatorVars(o)) \cup WhenVars(p[i])
  <2> TAKE i \in DOMAIN p
  <2>1. ConditionVars(p[i]) \in Seq(V) /\ ToSet(ConditionVars(p[i])) = WhenVars(p[i])
    BY <1>3, ConditionVarsHold
  <2>2. QED
    BY <1>4, <2>1, ConcatHolds
<1>6. \A i \in DOMAIN q : /\ vars2(i) \in Seq(V)
                          /\ ToSet(vars2(i)) = ToSet(OperatorVars(o)) \cup WhenVars(q[i]) \cup {q[i].operand}
  <2> TAKE i \in DOMAIN q
  <2>1. ConditionVars(q[i]) \in Seq(V) /\ ToSet(ConditionVars(q[i])) = WhenVars(q[i])
    BY <1>3, ConditionVarsHold
  <2> DEFINE c == ConditionVars(q[i])
             u == <<q[i].operand>>
  <2>2. u \in Seq(V) /\ ToSet(u) = {q[i].operand}
    BY <1>3, ShortSequences
  <2>3. vars2(i) = OperatorVars(o) \o c \o u
    OBVIOUS
  <2> HIDE DEF u, c, vars2
  <2>4. QED
    BY <1>4, <2>1, <2>2, <2>3, Concat3Holds DEF c
<1> HIDE DEF vars1, vars2
<1>7. \A i \in DOMAIN p : /\ Edges(vars1(i), p[i].var) \in Seq(V \X V)
                          /\ \A v \in ToSet(vars1(i)) : <<v, p[i].var>> \in ToSet(Edges(vars1(i), p[i].var))
  BY <1>3, <1>5, EdgesHold
<1>8. \A i \in DOMAIN q : /\ Edges(vars2(i), q[i].var) \in Seq(V \X V)
                          /\ \A v \in ToSet(vars2(i)) : <<v, q[i].var>> \in ToSet(Edges(vars2(i), q[i].var))
  BY <1>3, <1>6, EdgesHold
<1>9. first \in Seq(Seq(V \X V)) /\ second \in Seq(Seq(V \X V))
  BY <1>2, <1>7, <1>8
<1>10. DOMAIN first = DOMAIN p /\ DOMAIN second = DOMAIN q
  OBVIOUS
<1>11. /\ \A i \in DOMAIN p : first[i] = Edges(vars1(i), p[i].var)
       /\ \A i \in DOMAIN q : second[i] = Edges(vars2(i), q[i].var)
  OBVIOUS
<1> HIDE DEF first, second
<1>12. /\ FlattenSeq(first) \in Seq(V \X V) /\ FlattenSeq(second) \in Seq(V \X V)
       /\ ToSet(FlattenSeq(first)) = UNION {ToSet(first[i]) : i \in DOMAIN first}
       /\ ToSet(FlattenSeq(second)) = UNION {ToSet(second[i]) : i \in DOMAIN second}
  BY <1>9, FlattenSeqHolds
<1>13. /\ OperatorEdges(o) \in Seq(V \X V)
       /\ ToSet(OperatorEdges(o)) = ToSet(FlattenSeq(first)) \cup ToSet(FlattenSeq(second))
  BY <1>1, <1>12, ConcatHolds
<1>14. \A i \in DOMAIN p : \A v \in ToSet(VarsOf(Prevails(o))) \cup WhenVars(p[i]) :
          <<v, p[i].var>> \in ToSet(OperatorEdges(o))
  <2> TAKE i \in DOMAIN p
  <2> TAKE v \in ToSet(VarsOf(Prevails(o))) \cup WhenVars(p[i])
  <2>1. v \in ToSet(vars1(i))
    BY <1>4, <1>5
  <2>2. <<v, p[i].var>> \in ToSet(first[i])
    BY <1>7, <1>11, <2>1
  <2>3. QED
    BY <1>10, <1>12, <1>13, <2>2
<1>15. \A i \in DOMAIN q : \A v \in ToSet(VarsOf(Prevails(o))) \cup WhenVars(q[i]) \cup {q[i].operand} :
          <<v, q[i].var>> \in ToSet(OperatorEdges(o))
  <2> TAKE i \in DOMAIN q
  <2> TAKE v \in ToSet(VarsOf(Prevails(o))) \cup WhenVars(q[i]) \cup {q[i].operand}
  <2>1. v \in ToSet(vars2(i))
    BY <1>4, <1>6
  <2>2. <<v, q[i].var>> \in ToSet(second[i])
    BY <1>8, <1>11, <2>1
  <2>3. QED
    BY <1>10, <1>12, <1>13, <2>2
<1>16. QED
  BY <1>13, <1>14, <1>15 DEF p, q

\* The causal graph has the edges of the operators and the axioms.
LEMMA AllEdgesHold ==
    ASSUME NEW t, TaskType(t), NEW V, V = DOMAIN t.variables
    PROVE  /\ AllEdges(t) \in Seq(V \X V)
           /\ \A i \in DOMAIN t.operators : ToSet(OperatorEdges(t.operators[i])) \subseteq ToSet(AllEdges(t))
           /\ \A i \in DOMAIN t.relational : \A v \in ToSet(VarsOf(t.relational[i].conditions)) :
                 <<v, t.relational[i].effect>> \in ToSet(AllEdges(t))
           /\ \A i \in DOMAIN t.functional : \A v \in {t.functional[i].left, t.functional[i].right} :
                 <<v, t.functional[i].effect>> \in ToSet(AllEdges(t))
<1> DEFINE a == [i \in DOMAIN t.operators |-> OperatorEdges(t.operators[i])]
           b == [i \in DOMAIN t.relational |-> RelationalEdges(t.relational[i])]
           c == [i \in DOMAIN t.functional |-> FunctionalEdges(t.functional[i])]
<1>1. /\ t.operators \in Seq(OperatorSet(V)) /\ t.relational \in Seq(RelationalSet(V))
      /\ t.functional \in Seq(FunctionalSet(V))
  BY Zenon DEF TaskType
<1>2. /\ DOMAIN t.operators = 1..Len(t.operators) /\ Len(t.operators) \in Nat
      /\ DOMAIN t.relational = 1..Len(t.relational) /\ Len(t.relational) \in Nat
      /\ DOMAIN t.functional = 1..Len(t.functional) /\ Len(t.functional) \in Nat
  BY <1>1
<1>3. /\ \A i \in DOMAIN t.operators : t.operators[i] \in OperatorSet(V)
      /\ \A i \in DOMAIN t.relational : t.relational[i] \in RelationalSet(V)
      /\ \A i \in DOMAIN t.functional : t.functional[i] \in FunctionalSet(V)
  BY <1>1
<1>4. \A i \in DOMAIN t.operators : OperatorEdges(t.operators[i]) \in Seq(V \X V)
  BY <1>3, OperatorEdgesHold
<1>5. \A i \in DOMAIN t.relational :
         /\ RelationalEdges(t.relational[i]) \in Seq(V \X V)
         /\ \A v \in ToSet(VarsOf(t.relational[i].conditions)) :
               <<v, t.relational[i].effect>> \in ToSet(RelationalEdges(t.relational[i]))
  <2> TAKE i \in DOMAIN t.relational
  <2>1. t.relational[i].conditions \in Conditions(V) /\ t.relational[i].effect \in V
    BY <1>3 DEF RelationalSet
  <2>2. VarsOf(t.relational[i].conditions) \in Seq(V)
    BY <2>1, VarsOfHolds
  <2>3. QED
    BY <2>1, <2>2, EdgesHold DEF RelationalEdges
<1>6. \A i \in DOMAIN t.functional :
         /\ FunctionalEdges(t.functional[i]) \in Seq(V \X V)
         /\ \A v \in {t.functional[i].left, t.functional[i].right} :
               <<v, t.functional[i].effect>> \in ToSet(FunctionalEdges(t.functional[i]))
  <2> TAKE i \in DOMAIN t.functional
  <2> DEFINE l == t.functional[i].left
             r == t.functional[i].right
             e == t.functional[i].effect
             u == <<l, r>>
  <2>1. l \in V /\ r \in V /\ e \in V
    BY <1>3 DEF FunctionalSet
  <2>2. FunctionalEdges(t.functional[i]) = Edges(u, e)
    BY DEF FunctionalEdges
  <2>3. u \in Seq(V) /\ ToSet(u) = {l, r}
    BY <2>1, ShortSequences, ZenonT(40)
  <2> HIDE DEF u
  <2>4. /\ Edges(u, e) \in Seq(V \X V)
        /\ \A v \in ToSet(u) : <<v, e>> \in ToSet(Edges(u, e))
    BY <2>1, <2>3, EdgesHold
  <2>5. QED
    BY <2>2, <2>3, <2>4
<1>7. a \in Seq(Seq(V \X V)) /\ b \in Seq(Seq(V \X V)) /\ c \in Seq(Seq(V \X V))
  <2>1. a \in Seq(Seq(V \X V))
    BY <1>2, <1>4
  <2>2. b \in Seq(Seq(V \X V))
    BY <1>2, <1>5
  <2>3. c \in Seq(Seq(V \X V))
    <3>1. \A i \in DOMAIN t.functional : FunctionalEdges(t.functional[i]) \in Seq(V \X V)
      BY <1>6
    <3>2. QED
      BY <1>2, <3>1
  <2>4. QED
    BY <2>1, <2>2, <2>3
<1>8. /\ DOMAIN a = DOMAIN t.operators /\ \A i \in DOMAIN a : a[i] = OperatorEdges(t.operators[i])
      /\ DOMAIN b = DOMAIN t.relational /\ \A i \in DOMAIN b : b[i] = RelationalEdges(t.relational[i])
      /\ DOMAIN c = DOMAIN t.functional /\ \A i \in DOMAIN c : c[i] = FunctionalEdges(t.functional[i])
  OBVIOUS
<1>9. AllEdges(t) = FlattenSeq(a) \o FlattenSeq(b) \o FlattenSeq(c)
  BY Zenon DEF AllEdges
<1> HIDE DEF a, b, c
<1>10. /\ FlattenSeq(a) \in Seq(V \X V) /\ ToSet(FlattenSeq(a)) = UNION {ToSet(a[i]) : i \in DOMAIN a}
       /\ FlattenSeq(b) \in Seq(V \X V) /\ ToSet(FlattenSeq(b)) = UNION {ToSet(b[i]) : i \in DOMAIN b}
       /\ FlattenSeq(c) \in Seq(V \X V) /\ ToSet(FlattenSeq(c)) = UNION {ToSet(c[i]) : i \in DOMAIN c}
  BY <1>7, FlattenSeqHolds
<1>11. /\ AllEdges(t) \in Seq(V \X V)
       /\ ToSet(AllEdges(t)) = ToSet(FlattenSeq(a)) \cup ToSet(FlattenSeq(b)) \cup ToSet(FlattenSeq(c))
  BY <1>9, <1>10, Concat3Holds
<1>12. \A i \in DOMAIN t.operators : ToSet(OperatorEdges(t.operators[i])) \subseteq ToSet(AllEdges(t))
  BY <1>8, <1>10, <1>11
<1>13. \A i \in DOMAIN t.relational : ToSet(RelationalEdges(t.relational[i])) \subseteq ToSet(AllEdges(t))
  BY <1>8, <1>10, <1>11
<1>14. \A i \in DOMAIN t.functional : ToSet(FunctionalEdges(t.functional[i])) \subseteq ToSet(AllEdges(t))
  BY <1>8, <1>10, <1>11
<1>15. QED
  BY <1>5, <1>6, <1>11, <1>12, <1>13, <1>14

\* A weight is a number, and positive for an edge between different variables.
LEMMA WeightedGraphIs ==
    ASSUME NEW t, TaskType(t), NEW V, V = DOMAIN t.variables
    PROVE  /\ WeightedGraph(t) \in Seq([V -> Nat]) /\ Len(WeightedGraph(t)) = Len(t.variables)
           /\ DOMAIN WeightedGraph(t) = V
           /\ \A v, w \in V : <<v, w>> \in ToSet(AllEdges(t)) /\ v # w => WeightedGraph(t)[v][w] > 0
<1> DEFINE edges == AllEdges(t)
           at(v, w) == {i \in DOMAIN edges : edges[i] = <<v, w>>}
<1>1. edges \in Seq(V \X V)
  BY AllEdgesHold
<1>2. t.variables \in Seq(VariableSet)
  BY DEF TaskType
<1>3. V = 1..Len(t.variables) /\ Len(t.variables) \in Nat
  BY <1>2
<1>4. WeightedGraph(t) = [v \in V |-> [w \in V |-> Count(edges, v, w)]]
  BY DEF WeightedGraph
<1> HIDE DEF edges
<1>5. DOMAIN edges = 1..Len(edges) /\ Len(edges) \in Nat
  BY <1>1
<1>6. \A v, w \in V : Cardinality(at(v, w)) \in Nat /\ IsFiniteSet(at(v, w))
  <2> TAKE v, w \in V
  <2>1. IsFiniteSet(1..Len(edges)) /\ at(v, w) \in SUBSET (1..Len(edges))
    BY <1>5, IntervalSize
  <2> HIDE DEF at
  <2>2. QED
    BY <2>1, FS_Subset, FS_CardinalityType
<1>7. \A v, w \in V : Count(edges, v, w) \in Nat
  BY <1>6 DEF Count
<1>8. \A v, w \in V : <<v, w>> \in ToSet(edges) /\ v # w => Count(edges, v, w) > 0
  <2> SUFFICES ASSUME NEW v \in V, NEW w \in V, <<v, w>> \in ToSet(edges), v # w
               PROVE  Count(edges, v, w) > 0
    OBVIOUS
  <2>1. at(v, w) # {}
    BY DEF ToSet
  <2>2. Count(edges, v, w) = Cardinality(at(v, w))
    BY DEF Count
  <2> HIDE DEF at
  <2>3. QED
    BY <1>6, <2>1, <2>2, FS_EmptySet
<1>9. QED
  BY <1>3, <1>4, <1>7, <1>8 DEF edges

\* The set is closed under the edges of the causal graph.
Closed(weights, S) == \A v, w \in DOMAIN weights : w \in S /\ weights[v][w] > 0 => v \in S

\* Following the edges as often as there are variables is enough: a set that is
\* not yet closed after n rounds has n variables.
LEMMA DependenciesAreClosed ==
    ASSUME NEW V, NEW weights \in Seq([V -> Nat]), V = DOMAIN weights, NEW start \in SUBSET V
    PROVE  /\ Dependencies(weights, start) \in SUBSET V
           /\ start \subseteq Dependencies(weights, start)
           /\ Closed(weights, Dependencies(weights, start))
<1> DEFINE L == Len(weights)
           sources(S) == {v \in DOMAIN weights : \E w \in S : weights[v][w] > 0}
           body(f) == [n \in 0..L |-> IF n = 0 THEN start ELSE f[n - 1] \cup sources(f[n - 1])]
           step == [k \in 1..L |-> [S \in SUBSET V |-> S \cup sources(S)]]
           reached == CHOOSE f : f = body(f)
<1>1. L \in Nat /\ V = 1..L
  OBVIOUS
<1>2. \A S \in SUBSET V : S \cup sources(S) \in SUBSET V
  OBVIOUS
<1>3. step \in [1..L -> [SUBSET V -> SUBSET V]]
  BY <1>2
<1>4. PICK f \in [0..L -> SUBSET V] : Follows(f, start, step, L)
  <2> HIDE DEF step, L
  <2>1. QED
    BY <1>1, <1>3, RecursionExists
<1>5. \A n \in 0..L : f[n] = body(f)[n]
  <2> TAKE n \in 0..L
  <2>1. CASE n = 0
    BY <1>4, <2>1 DEF Follows
  <2>2. CASE n # 0
    <3>1. n \in 1..L /\ n - 1 \in 0..L /\ f[n - 1] \in SUBSET V
      <4> HIDE DEF step, sources, body, L
      <4>1. n \in 1..L /\ n - 1 \in 0..L
        BY <1>1, <2>2
      <4>2. QED
        BY <4>1
    <3>2. f[n] = step[n][f[n - 1]]
      <4> HIDE DEF step, L
      <4>1. QED
        BY <1>4, <3>1 DEF Follows
    <3> HIDE DEF L, sources
    <3>3. step[n][f[n - 1]] = f[n - 1] \cup sources(f[n - 1])
      BY <3>1
    <3>4. QED
      BY <2>2, <3>2, <3>3
  <2>3. QED
    BY <2>1, <2>2
<1>6. f = body(f)
  <2>1. f = [n \in 0..L |-> f[n]]
    OBVIOUS
  <2> HIDE DEF sources, L
  <2>2. QED
    BY <1>5, <2>1
<1>7. reached = body(reached)
  <2> HIDE DEF body
  <2>1. QED
    BY <1>6, Zenon
<1>8. Dependencies(weights, start) = reached[L]
  BY Zenon DEF Dependencies
<1> HIDE DEF reached
<1>9. \A n \in 0..L : reached[n] = body(reached)[n]
  BY <1>7
<1>10. reached[0] = start /\ \A n \in 0..L : n # 0 => reached[n] = reached[n - 1] \cup sources(reached[n - 1])
  <2> HIDE DEF sources, step, L
  <2>1. 0 \in 0..L
    BY <1>1
  <2>2. reached[0] = start
    BY <1>9, <2>1
  <2>3. \A n \in 0..L : n # 0 => reached[n] = reached[n - 1] \cup sources(reached[n - 1])
    BY <1>9
  <2>4. QED
    BY <2>2, <2>3
<1> HIDE DEF body, step
<1> DEFINE Good == {n \in 0..L : /\ reached[n] \in SUBSET V /\ start \subseteq reached[n]
                                 /\ Closed(weights, reached[n]) \/ Cardinality(reached[n]) >= n}
<1>11. IsFiniteSet(V) /\ Cardinality(V) = L
  BY <1>1, IntervalSize
<1>12. \A S \in SUBSET V : IsFiniteSet(S) /\ Cardinality(S) \in Nat
  <2> TAKE S \in SUBSET V
  <2>1. IsFiniteSet(S)
    BY <1>11, FS_Subset
  <2>2. QED
    BY <2>1, FS_CardinalityType
<1>13. 0 \in Good
  BY <1>1, <1>10, <1>12
<1>14. ASSUME NEW n \in 0..(L - 1), n \in Good
       PROVE  n + 1 \in Good
  <2>1. n + 1 \in 0..L /\ n + 1 # 0 /\ (n + 1) - 1 = n /\ n \in Nat
    BY <1>1
  <2> DEFINE S == reached[n]
             R == reached[n + 1]
  <2>2. R = S \cup sources(S)
    BY <1>10, <2>1
  <2>3. S \in SUBSET V /\ start \subseteq S /\ (Closed(weights, S) \/ Cardinality(S) >= n)
    BY <1>14
  <2> HIDE DEF S
  <2>4. R \in SUBSET V /\ start \subseteq R
    BY <1>2, <2>2, <2>3
  <2>5. CASE sources(S) \subseteq S
    <3>1. R = S
      BY <2>2, <2>5
    <3>2. Closed(weights, S)
      BY <2>5 DEF Closed
    <3>3. QED
      BY <2>1, <2>4, <3>1, <3>2
  <2>6. CASE ~(sources(S) \subseteq S)
    <3>1. ~Closed(weights, S)
      <4>1. PICK v \in DOMAIN weights, w \in S : v \notin S /\ weights[v][w] > 0
        BY <2>6
      <4>2. QED
        BY <2>3, <4>1 DEF Closed
    <3>2. S \subseteq R /\ S # R
      BY <2>2, <2>6
    <3>3. IsFiniteSet(R) /\ Cardinality(R) \in Nat /\ Cardinality(S) \in Nat
      BY <1>12, <2>3, <2>4
    <3> HIDE DEF R
    <3>4. Cardinality(S) <= Cardinality(R) /\ Cardinality(S) # Cardinality(R)
      BY <3>2, <3>3, FS_Subset
    <3>5. Cardinality(R) >= n + 1
      BY <2>1, <2>3, <3>1, <3>3, <3>4
    <3>6. QED
      BY <2>1, <2>4, <3>5 DEF R
  <2>7. QED
    BY <2>5, <2>6
<1>15. L \in Good
  <2> HIDE DEF Good, L
  <2>1. \A n \in 0..L : n \in Good
    BY <1>1, <1>13, <1>14, UpTo
  <2>2. QED
    BY <1>1, <2>1
<1> DEFINE D == reached[L]
<1>16. D \in SUBSET V /\ start \subseteq D /\ (Closed(weights, D) \/ Cardinality(D) >= L)
  BY <1>15
<1> HIDE DEF D, L
<1>17. Cardinality(D) >= L => D = V
  <2>1. Cardinality(D) <= Cardinality(V) /\ Cardinality(D) \in Nat
    BY <1>11, <1>12, <1>16, FS_Subset
  <2>2. Cardinality(V) = Cardinality(D) => V = D
    BY <1>11, <1>16, FS_Subset
  <2>3. QED
    BY <1>1, <1>11, <2>1, <2>2
<1>18. Closed(weights, V)
  BY DEF Closed
<1>19. QED
  BY <1>8, <1>16, <1>17, <1>18 DEF D

\* The variables that matter are among all, those of the goal and the durations
\* among them, and with a variable those that it depends on.
LEMMA ImportantVarsAre ==
    ASSUME NEW t, TaskType(t), NEW V, V = DOMAIN t.variables
    PROVE  LET W == ImportantVars(t, WeightedGraph(t))
           IN  /\ W \in SUBSET V
               /\ \A v \in V : t.variables[v].duration = TRUE => v \in W
               /\ ToSet(VarsOf(t.goal)) \subseteq W
               /\ Closed(WeightedGraph(t), W)
<1> DEFINE marked == {v \in V : t.variables[v].duration \/ t.variables[v].module}
           goals == ToSet(VarsOf(t.goal))
           weights == WeightedGraph(t)
<1>1. weights \in Seq([V -> Nat]) /\ DOMAIN weights = V
  BY WeightedGraphIs
<1>2. goals \subseteq V
  <2>1. t.goal \in Conditions(V)
    BY DEF TaskType
  <2>2. VarsOf(t.goal) \in Seq(V)
    BY <2>1, VarsOfHolds
  <2>3. QED
    BY <2>2 DEF ToSet
<1>3. ImportantVars(t, weights) = Dependencies(weights, marked \cup goals)
  BY DEF ImportantVars
<1>4. marked \cup goals \in SUBSET V
  BY <1>2
<1>5. \A v \in V : t.variables[v].duration = TRUE => v \in marked
  OBVIOUS
<1> HIDE DEF marked, goals, weights
<1>6. /\ Dependencies(weights, marked \cup goals) \in SUBSET V
      /\ marked \cup goals \subseteq Dependencies(weights, marked \cup goals)
      /\ Closed(weights, Dependencies(weights, marked \cup goals))
  BY <1>1, <1>4, DependenciesAreClosed
<1>7. QED
  BY <1>3, <1>5, <1>6 DEF goals, weights

\* Variables are kept in their order, all of them if nothing is pruned.
LEMMA OrderingIs ==
    ASSUME NEW t, TaskType(t), NEW V, V = DOMAIN t.variables, NEW W \in SUBSET V, NEW b \in BOOLEAN
    PROVE  /\ Ordering(t, W, b) \in Seq(V)
           /\ ToSet(Ordering(t, W, b)) = IF b THEN W ELSE V
<1> DEFINE all == [v \in 1..Len(t.variables) |-> v]
           N == {v \in V : v \in W \/ ~b}
<1>1. t.variables \in Seq(VariableSet)
  BY DEF TaskType
<1>2. V = 1..Len(t.variables) /\ Len(t.variables) \in Nat
  BY <1>1
<1>3. all \in Seq(V) /\ DOMAIN all = V /\ \A v \in V : all[v] = v
  BY <1>2
<1>4. Ordering(t, W, b) = OnlyAt(all, N)
  BY DEF Ordering
<1>5. N \subseteq V /\ N = IF b THEN W ELSE V
  OBVIOUS
<1> HIDE DEF all, N
<1>6. OnlyAt(all, N) \in Seq(V) /\ ToSet(OnlyAt(all, N)) = {all[i] : i \in {j \in DOMAIN all : j \in N}}
  BY <1>3, OnlyAtIs
<1>7. {all[i] : i \in {j \in DOMAIN all : j \in N}} = N
  BY <1>3, <1>5
<1>8. QED
  BY <1>4, <1>5, <1>6, <1>7

\* A variable has a level if it is kept.
LEMMA LevelsAre ==
    ASSUME NEW t, NEW V, V = DOMAIN t.variables, NEW ord \in Seq(V), NEW v \in V
    PROVE  /\ Levels(t, ord)[v] \in Nat
           /\ Levels(t, ord)[v] # 0 <=> v \in ToSet(ord)
           /\ v \in ToSet(ord) => Levels(t, ord)[v] \in DOMAIN ord /\ ord[Levels(t, ord)[v]] = v
<1>1. DOMAIN ord = 1..Len(ord) /\ Len(ord) \in Nat
  OBVIOUS
<1>2. Contains(ord, v) <=> v \in ToSet(ord)
  BY <1>1 DEF Contains, ToSet
<1>3. Levels(t, ord)[v] = IF Contains(ord, v) THEN CHOOSE i \in DOMAIN ord : ord[i] = v ELSE 0
  BY DEF Levels
<1>4. CASE v \in ToSet(ord)
  <2>1. \E i \in DOMAIN ord : ord[i] = v
    BY <1>4 DEF ToSet
  <2>2. (CHOOSE i \in DOMAIN ord : ord[i] = v) \in DOMAIN ord /\ ord[CHOOSE i \in DOMAIN ord : ord[i] = v] = v
    BY <2>1
  <2>3. QED
    BY <1>1, <1>2, <1>3, <1>4, <2>2
<1>5. CASE v \notin ToSet(ord)
  BY <1>2, <1>3, <1>5
<1>6. QED
  BY <1>4, <1>5

----------------------------------------------------------------------------
(* Stripping                                                               *)

\* Of the effects on variables those stay whose variable has a level.
LEMMA StripEffectsIs ==
    ASSUME NEW V, NEW effects \in EffectsSet(V), NEW level
    PROVE  /\ StripEffects(effects, level) \in EffectsSet(V)
           /\ ToSet(StripEffects(effects, level).prePost) = {e \in ToSet(effects.prePost) : level[e.var] # 0}
           /\ ToSet(StripEffects(effects, level).numerical) = {e \in ToSet(effects.numerical) : level[e.var] # 0}
<1> DEFINE p == effects.prePost
           q == effects.numerical
           P == {i \in DOMAIN p : level[p[i].var] # 0}
           Q == {i \in DOMAIN q : level[q[i].var] # 0}
<1>1. /\ p \in Seq(PrePostSet(V)) /\ q \in Seq(NumericalSet(V)) /\ effects.module \in Seq([when : WhenSet(V)])
      /\ DOMAIN effects = {"prePost", "numerical", "module"}
  BY DEF EffectsSet
<1>2. StripEffects(effects, level)
        = [effects EXCEPT !.prePost = OnlyAt(p, P), !.numerical = OnlyAt(q, Q)]
  BY DEF StripEffects
<1> HIDE DEF p, q
<1>3. /\ OnlyAt(p, P) \in Seq(PrePostSet(V)) /\ ToSet(OnlyAt(p, P)) = {p[i] : i \in {j \in DOMAIN p : j \in P}}
      /\ OnlyAt(q, Q) \in Seq(NumericalSet(V)) /\ ToSet(OnlyAt(q, Q)) = {q[i] : i \in {j \in DOMAIN q : j \in Q}}
  <2> HIDE DEF P, Q
  <2>1. QED
    BY <1>1, OnlyAtIs
<1>4. {p[i] : i \in {j \in DOMAIN p : j \in P}} = {e \in ToSet(p) : level[e.var] # 0}
  BY DEF ToSet
<1>5. {q[i] : i \in {j \in DOMAIN q : j \in Q}} = {e \in ToSet(q) : level[e.var] # 0}
  BY DEF ToSet
<1> HIDE DEF P, Q
<1>6. /\ StripEffects(effects, level).prePost = OnlyAt(p, P)
      /\ StripEffects(effects, level).numerical = OnlyAt(q, Q)
      /\ StripEffects(effects, level) \in EffectsSet(V)
  BY <1>1, <1>2, <1>3 DEF EffectsSet
<1>7. QED
  BY <1>3, <1>4, <1>5, <1>6 DEF p, q

\* An operator keeps its duration and what prevails.
LEMMA StripOperatorIs ==
    ASSUME NEW V, NEW o \in OperatorSet(V), NEW level, NEW q, q = StripUnimportantEffects(o, level)
    PROVE  /\ q \in OperatorSet(V) /\ q.duration = o.duration /\ Prevails(q) = Prevails(o)
           /\ ToSet(Effects(q)) = {x \in ToSet(Effects(o)) : level[x.var] # 0}
           /\ ToSet(NumEffects(q)) = {x \in ToSet(NumEffects(o)) : level[x.var] # 0}
<1> DEFINE s == StripEffects(o.start, level)
           f == StripEffects(o.end, level)
<1>1. o.start \in EffectsSet(V) /\ o.end \in EffectsSet(V)
  BY DEF OperatorSet
<1>2. /\ s \in EffectsSet(V) /\ f \in EffectsSet(V)
      /\ ToSet(s.prePost) = {x \in ToSet(o.start.prePost) : level[x.var] # 0}
      /\ ToSet(f.prePost) = {x \in ToSet(o.end.prePost) : level[x.var] # 0}
      /\ ToSet(s.numerical) = {x \in ToSet(o.start.numerical) : level[x.var] # 0}
      /\ ToSet(f.numerical) = {x \in ToSet(o.end.numerical) : level[x.var] # 0}
  <2>1. /\ s \in EffectsSet(V) /\ ToSet(s.prePost) = {x \in ToSet(o.start.prePost) : level[x.var] # 0}
        /\ ToSet(s.numerical) = {x \in ToSet(o.start.numerical) : level[x.var] # 0}
    BY <1>1, StripEffectsIs
  <2>2. /\ f \in EffectsSet(V) /\ ToSet(f.prePost) = {x \in ToSet(o.end.prePost) : level[x.var] # 0}
        /\ ToSet(f.numerical) = {x \in ToSet(o.end.numerical) : level[x.var] # 0}
    <3> DEFINE g == o.end
    <3>1. g \in EffectsSet(V)
      BY <1>1
    <3> HIDE DEF g
    <3>2. /\ StripEffects(g, level) \in EffectsSet(V)
          /\ ToSet(StripEffects(g, level).prePost) = {x \in ToSet(g.prePost) : level[x.var] # 0}
          /\ ToSet(StripEffects(g, level).numerical) = {x \in ToSet(g.numerical) : level[x.var] # 0}
      BY <3>1, StripEffectsIs
    <3>3. QED
      BY <3>2 DEF g
  <2>3. QED
    BY <2>1, <2>2
<1>3. q = [o EXCEPT !.start = s, !.end = f]
  BY DEF StripUnimportantEffects
<1> HIDE DEF s, f
<1>4. q \in OperatorSet(V) /\ q.duration = o.duration /\ q.prevail = o.prevail /\ q.start = s /\ q.end = f
  <2>1. DOMAIN o = {"groundings", "durationOp", "duration", "prevail", "start", "end"}
    BY DEF OperatorSet
  <2>2. /\ DOMAIN q = DOMAIN o /\ q.start = s /\ q.end = f /\ q.duration = o.duration /\ q.prevail = o.prevail
        /\ q.groundings = o.groundings /\ q.durationOp = o.durationOp
    BY <1>3, <2>1
  <2>3. /\ o.groundings \in Nat /\ o.durationOp \in Int /\ o.duration \in V /\ o.prevail \in PrevailSet(V)
    BY DEF OperatorSet
  <2>4. q = [groundings |-> q.groundings, durationOp |-> q.durationOp, duration |-> q.duration,
             prevail |-> q.prevail, start |-> q.start, end |-> q.end]
    BY <1>3, <2>1
  <2>5. q \in OperatorSet(V)
    BY <1>2, <2>2, <2>3, <2>4 DEF OperatorSet
  <2>6. QED
    BY <2>2, <2>5
<1>5. /\ o.start.prePost \in Seq(PrePostSet(V)) /\ o.end.prePost \in Seq(PrePostSet(V))
      /\ o.start.numerical \in Seq(NumericalSet(V)) /\ o.end.numerical \in Seq(NumericalSet(V))
      /\ s.prePost \in Seq(PrePostSet(V)) /\ f.prePost \in Seq(PrePostSet(V))
      /\ s.numerical \in Seq(NumericalSet(V)) /\ f.numerical \in Seq(NumericalSet(V))
  BY <1>1, <1>2 DEF EffectsSet
<1>6. /\ ToSet(Effects(o)) = ToSet(o.start.prePost) \cup ToSet(o.end.prePost)
      /\ ToSet(NumEffects(o)) = ToSet(o.start.numerical) \cup ToSet(o.end.numerical)
  BY <1>5, ConcatHolds DEF Effects, NumEffects
<1>7. /\ ToSet(Effects(q)) = ToSet(s.prePost) \cup ToSet(f.prePost)
      /\ ToSet(NumEffects(q)) = ToSet(s.numerical) \cup ToSet(f.numerical)
  <2>1. Effects(q) = s.prePost \o f.prePost /\ NumEffects(q) = s.numerical \o f.numerical
    BY <1>4 DEF Effects, NumEffects
  <2>2. QED
    BY <1>5, <2>1, ConcatHolds
<1>8. Prevails(q) = Prevails(o)
  BY <1>4 DEF Prevails
<1>9. QED
  BY <1>2, <1>4, <1>6, <1>7, <1>8

\* Axioms are left out by the level of what they set.
LEMMA StripAxiomsIs ==
    ASSUME NEW T, NEW axioms \in Seq(T), NEW level
    PROVE  /\ StripAxioms(axioms, level) \in Seq(T)
           /\ \A a \in ToSet(StripAxioms(axioms, level)) : a \in ToSet(axioms) /\ level[a.effect] # 0
<1> DEFINE N == {i \in DOMAIN axioms : level[axioms[i].effect] # 0}
<1>1. StripAxioms(axioms, level) = OnlyAt(axioms, N)
  BY DEF StripAxioms
<1>2. \A i \in DOMAIN axioms : i \in N => axioms[i] \in ToSet(axioms) /\ level[axioms[i].effect] # 0
  BY DEF ToSet
<1> HIDE DEF N
<1>3. OnlyAt(axioms, N) \in Seq(T) /\ ToSet(OnlyAt(axioms, N)) = {axioms[i] : i \in {j \in DOMAIN axioms : j \in N}}
  BY OnlyAtIs
<1>4. QED
  BY <1>1, <1>2, <1>3

\* What is left is an operator of the task, stripped.
LEMMA StripOperatorsIs ==
    ASSUME NEW V, NEW operators \in Seq(OperatorSet(V)), NEW level
    PROVE  /\ StripOperators(operators, level) \in Seq(OperatorSet(V))
           /\ \A q \in ToSet(StripOperators(operators, level)) :
                 \E j \in DOMAIN operators : q = StripUnimportantEffects(operators[j], level)
<1> DEFINE stripped == [i \in DOMAIN operators |-> StripUnimportantEffects(operators[i], level)]
           N == {i \in DOMAIN stripped : ~IsRedundant(stripped[i])}
<1>1. DOMAIN operators = 1..Len(operators) /\ Len(operators) \in Nat /\ \A i \in DOMAIN operators : operators[i] \in OperatorSet(V)
  OBVIOUS
<1>2. \A i \in DOMAIN operators : StripUnimportantEffects(operators[i], level) \in OperatorSet(V)
  BY <1>1, StripOperatorIs
<1>3. stripped \in Seq(OperatorSet(V))
  BY <1>1, <1>2
<1>4. StripOperators(operators, level) = OnlyAt(stripped, N)
  BY DEF StripOperators
<1>5. DOMAIN stripped = DOMAIN operators /\ \A i \in DOMAIN operators : stripped[i] = StripUnimportantEffects(operators[i], level)
  OBVIOUS
<1> HIDE DEF stripped, N
<1>6. /\ OnlyAt(stripped, N) \in Seq(OperatorSet(V))
      /\ ToSet(OnlyAt(stripped, N)) = {stripped[i] : i \in {j \in DOMAIN stripped : j \in N}}
  BY <1>3, OnlyAtIs
<1>7. QED
  BY <1>4, <1>5, <1>6

\* What stripping makes of a task.
LEMMA StripIs ==
    ASSUME NEW t, TaskType(t), NEW V, V = DOMAIN t.variables, NEW level
    PROVE  /\ TaskType(Strip(t, level)) /\ Strip(t, level).variables = t.variables /\ Strip(t, level).goal = t.goal
           /\ \A q \in ToSet(Strip(t, level).operators) :
                 \E j \in DOMAIN t.operators : q = StripUnimportantEffects(t.operators[j], level)
           /\ \A a \in ToSet(Strip(t, level).relational) : a \in ToSet(t.relational) /\ level[a.effect] # 0
           /\ \A a \in ToSet(Strip(t, level).functional) : a \in ToSet(t.functional) /\ level[a.effect] # 0
<1> DEFINE o == StripOperators(t.operators, level)
           r == StripAxioms(t.relational, level)
           f == StripAxioms(t.functional, level)
           s == Strip(t, level)
<1>1. /\ t.variables \in Seq(VariableSet) /\ t.initial \in Seq(Int) /\ t.goal \in Conditions(V)
      /\ t.operators \in Seq(OperatorSet(V)) /\ t.relational \in Seq(RelationalSet(V))
      /\ t.functional \in Seq(FunctionalSet(V))
      /\ DOMAIN t = {"variables", "initial", "goal", "operators", "relational", "functional"}
  BY Zenon DEF TaskType
<1>2. s = [t EXCEPT !.operators = o, !.relational = r, !.functional = f]
  BY DEF Strip
<1>3. /\ o \in Seq(OperatorSet(V))
      /\ \A q \in ToSet(o) : \E j \in DOMAIN t.operators : q = StripUnimportantEffects(t.operators[j], level)
  BY <1>1, StripOperatorsIs
<1>4. /\ r \in Seq(RelationalSet(V)) /\ \A a \in ToSet(r) : a \in ToSet(t.relational) /\ level[a.effect] # 0
      /\ f \in Seq(FunctionalSet(V)) /\ \A a \in ToSet(f) : a \in ToSet(t.functional) /\ level[a.effect] # 0
  BY <1>1, StripAxiomsIs
<1> HIDE DEF o, r, f
<1>5. /\ s.variables = t.variables /\ s.initial = t.initial /\ s.goal = t.goal /\ s.operators = o
      /\ s.relational = r /\ s.functional = f /\ DOMAIN s = DOMAIN t
  BY <1>1, <1>2
<1> HIDE DEF s
<1>6. TaskType(s)
  BY <1>1, <1>3, <1>4, <1>5 DEF TaskType
<1>7. QED
  BY <1>3, <1>4, <1>5, <1>6 DEF s

----------------------------------------------------------------------------
(* Pruning                                                                 *)

\* What the causal graph has told, before anything is stripped.
GraphIsBuilt ==
    /\ graph = WeightedGraph(task)
    /\ necessary = ImportantVars(task, graph)
    /\ ordering = Ordering(task, necessary, prune)

\* The task speaks of its own variables; until it is stripped the durations are
\* marked, and the variables that are kept are those that the causal graph tells;
\* what is left of it afterwards speaks of those only.
PruningInv ==
    /\ prune \in BOOLEAN
    /\ stage \in {"read", "causal graph", "stripped", "transition graphs", "generator", "written", "aborted"}
    /\ TaskType(task)
    /\ stage \in {"read", "causal graph"} => DurationsAreMarked(task)
    /\ stage = "causal graph" => GraphIsBuilt
    /\ stage # "read" => ordering \in Seq(DOMAIN task.variables)
    /\ PruningIsClosed

\* The invariant holds of the task as it was read (main, planner.cpp).
LEMMA InitPruningInv == Init => PruningInv
<1> SUFFICES ASSUME Init PROVE PruningInv
  OBVIOUS
<1>1. PICK sas \in Files : task = ReadProblem(sas)
  BY DEF Init
<1>2. WellFormed(sas)
  BY FilesAssumption
<1>3. TaskType(task) /\ DurationsAreMarked(task)
  BY <1>1, <1>2, ReadProblemType
<1>4. stage = "read" /\ prune \in BOOLEAN
  BY DEF Init
<1>5. QED
  BY <1>3, <1>4 DEF PruningInv, PruningIsClosed, Stripped

\* The kept variables, when the graph is built.
LEMMA KeptVariables ==
    ASSUME TaskType(task), prune \in BOOLEAN, GraphIsBuilt, DurationsAreMarked(task),
           NEW V, V = DOMAIN task.variables
    PROVE  /\ ordering \in Seq(V) /\ Kept \subseteq V
           /\ \A v \in V : Level[v] # 0 <=> v \in Kept
           /\ \A i \in DOMAIN task.operators : task.operators[i].duration \in Kept
           /\ ToSet(VarsOf(task.goal)) \subseteq Kept
           /\ \A v, w \in V : <<v, w>> \in ToSet(AllEdges(task)) /\ w \in Kept => v \in Kept
<1> DEFINE W == ImportantVars(task, WeightedGraph(task))
<1>1. necessary = W /\ ordering = Ordering(task, W, prune) /\ graph = WeightedGraph(task)
  BY DEF GraphIsBuilt
<1>2. /\ W \in SUBSET V
      /\ \A v \in V : task.variables[v].duration = TRUE => v \in W
      /\ ToSet(VarsOf(task.goal)) \subseteq W
      /\ Closed(WeightedGraph(task), W)
  BY ImportantVarsAre
<1> HIDE DEF W
<1>3. ordering \in Seq(V) /\ ToSet(ordering) = IF prune THEN W ELSE V
  BY <1>1, <1>2, OrderingIs
<1>4. Kept = IF prune THEN W ELSE V
  BY <1>3 DEF Kept
<1>5. \A v \in V : Level[v] # 0 <=> v \in Kept
  BY <1>3, LevelsAre DEF Level, Kept
<1>6. \A i \in DOMAIN task.operators : task.operators[i].duration \in Kept
  <2> TAKE i \in DOMAIN task.operators
  <2>1. task.operators \in Seq(OperatorSet(V))
    BY DEF TaskType
  <2>2. task.operators[i] \in OperatorSet(V)
    BY <2>1
  <2>3. task.operators[i].duration \in V
    BY <2>2 DEF OperatorSet
  <2>4. task.variables[task.operators[i].duration].duration = TRUE
    BY DEF DurationsAreMarked
  <2>5. QED
    BY <1>2, <1>4, <2>3, <2>4
<1>7. ToSet(VarsOf(task.goal)) \subseteq Kept
  BY <1>2, <1>4
<1>8. \A v, w \in V : <<v, w>> \in ToSet(AllEdges(task)) /\ w \in Kept => v \in Kept
  <2> SUFFICES ASSUME NEW v \in V, NEW w \in V, <<v, w>> \in ToSet(AllEdges(task)), w \in Kept, v # w
               PROVE  v \in Kept
    OBVIOUS
  <2>1. WeightedGraph(task)[v][w] > 0 /\ DOMAIN WeightedGraph(task) = V
    BY WeightedGraphIs
  <2>2. QED
    BY <1>2, <1>4, <2>1 DEF Closed
<1>9. QED
  BY <1>2, <1>3, <1>4, <1>5, <1>6, <1>7, <1>8

\* Stripping leaves a task that speaks of kept variables only.
LEMMA StripTaskCloses ==
    ASSUME PruningInv, StripTask
    PROVE  PruningIsClosed'
<1> DEFINE V == DOMAIN task.variables
           t == Strip(task, Level)
<1>1. /\ TaskType(task) /\ prune \in BOOLEAN /\ GraphIsBuilt /\ DurationsAreMarked(task)
  BY DEF PruningInv, StripTask
<1>2. task' = t /\ ordering' = ordering
  BY DEF StripTask
<1>3. Kept' = Kept
  BY <1>2 DEF Kept
<1> HIDE DEF V
<1>4. V = DOMAIN task.variables
  BY DEF V
<1>5. /\ Kept \subseteq V
      /\ \A v \in V : Level[v] # 0 <=> v \in Kept
      /\ \A i \in DOMAIN task.operators : task.operators[i].duration \in Kept
      /\ ToSet(VarsOf(task.goal)) \subseteq Kept
      /\ \A v, w \in V : <<v, w>> \in ToSet(AllEdges(task)) /\ w \in Kept => v \in Kept
  BY <1>1, <1>4, KeptVariables
<1>6. /\ t.goal = task.goal
      /\ \A q \in ToSet(t.operators) :
            \E j \in DOMAIN task.operators : q = StripUnimportantEffects(task.operators[j], Level)
      /\ \A a \in ToSet(t.relational) : a \in ToSet(task.relational) /\ Level[a.effect] # 0
      /\ \A a \in ToSet(t.functional) : a \in ToSet(task.functional) /\ Level[a.effect] # 0
  BY <1>1, <1>4, StripIs
<1> HIDE DEF t
<1>7. /\ task.operators \in Seq(OperatorSet(V)) /\ task.relational \in Seq(RelationalSet(V))
      /\ task.functional \in Seq(FunctionalSet(V)) /\ task.goal \in Conditions(V)
  BY <1>1, <1>4, Zenon DEF TaskType
<1>8. /\ AllEdges(task) \in Seq(V \X V)
      /\ \A i \in DOMAIN task.operators : ToSet(OperatorEdges(task.operators[i])) \subseteq ToSet(AllEdges(task))
      /\ \A i \in DOMAIN task.relational : \A v \in ToSet(VarsOf(task.relational[i].conditions)) :
            <<v, task.relational[i].effect>> \in ToSet(AllEdges(task))
      /\ \A i \in DOMAIN task.functional : \A v \in {task.functional[i].left, task.functional[i].right} :
            <<v, task.functional[i].effect>> \in ToSet(AllEdges(task))
  BY <1>1, <1>4, AllEdgesHold
<1>9. \A v, w : <<v, w>> \in ToSet(AllEdges(task)) => v \in V /\ w \in V
  <2>1. ToSet(AllEdges(task)) \subseteq V \X V
    BY <1>8 DEF ToSet
  <2>2. QED
    BY <2>1
<1>10. ASSUME NEW o \in ToSet(t.operators)
       PROVE  /\ o.duration \in Kept
              /\ Effects(o) # <<>> \/ NumEffects(o) # <<>> => ToSet(VarsOf(Prevails(o))) \subseteq Kept
              /\ \A e \in ToSet(Effects(o)) : {e.var} \cup WhenVars(e) \subseteq Kept
              /\ \A e \in ToSet(NumEffects(o)) : {e.var, e.operand} \cup WhenVars(e) \subseteq Kept
  <2>1. PICK j \in DOMAIN task.operators : o = StripUnimportantEffects(task.operators[j], Level)
    BY <1>6
  <2> DEFINE p == task.operators[j]
  <2>2. p \in OperatorSet(V) /\ p.duration \in Kept
    BY <1>5, <1>7
  <2>3. ToSet(OperatorEdges(p)) \subseteq ToSet(AllEdges(task))
    BY <1>8
  <2>4. o = StripUnimportantEffects(p, Level)
    BY <2>1
  <2> HIDE DEF p
  <2>5. /\ o \in OperatorSet(V) /\ o.duration = p.duration /\ Prevails(o) = Prevails(p)
        /\ ToSet(Effects(o)) = {e \in ToSet(Effects(p)) : Level[e.var] # 0}
        /\ ToSet(NumEffects(o)) = {e \in ToSet(NumEffects(p)) : Level[e.var] # 0}
    BY <2>2, <2>4, StripOperatorIs
  <2>6. /\ \A i \in DOMAIN Effects(p) : \A v \in ToSet(VarsOf(Prevails(p))) \cup WhenVars(Effects(p)[i]) :
              <<v, Effects(p)[i].var>> \in ToSet(OperatorEdges(p))
        /\ \A i \in DOMAIN NumEffects(p) :
              \A v \in ToSet(VarsOf(Prevails(p))) \cup WhenVars(NumEffects(p)[i]) \cup {NumEffects(p)[i].operand} :
                 <<v, NumEffects(p)[i].var>> \in ToSet(OperatorEdges(p))
    BY <2>2, OperatorEdgesHold
  <2>7. /\ \A i \in DOMAIN Effects(p) : Effects(p)[i].var \in V
        /\ \A i \in DOMAIN NumEffects(p) : NumEffects(p)[i].var \in V
    BY <2>2, EffectsAre
  <2>8. ASSUME NEW e \in ToSet(Effects(o))
        PROVE  e.var \in Kept /\ ToSet(VarsOf(Prevails(p))) \cup WhenVars(e) \subseteq Kept
    <3>1. PICK i \in DOMAIN Effects(p) : e = Effects(p)[i]
      BY <2>5 DEF ToSet
    <3>2. e.var \in V /\ e.var \in Kept
      BY <1>5, <2>5, <2>7, <3>1
    <3>3. \A v \in ToSet(VarsOf(Prevails(p))) \cup WhenVars(e) : <<v, e.var>> \in ToSet(AllEdges(task))
      BY <2>3, <2>6, <3>1
    <3>4. QED
      BY <1>5, <1>9, <3>2, <3>3
  <2>9. ASSUME NEW e \in ToSet(NumEffects(o))
        PROVE  e.var \in Kept /\ ToSet(VarsOf(Prevails(p))) \cup WhenVars(e) \cup {e.operand} \subseteq Kept
    <3>1. PICK i \in DOMAIN NumEffects(p) : e = NumEffects(p)[i]
      BY <2>5 DEF ToSet
    <3>2. e.var \in V /\ e.var \in Kept
      BY <1>5, <2>5, <2>7, <3>1
    <3>3. \A v \in ToSet(VarsOf(Prevails(p))) \cup WhenVars(e) \cup {e.operand} : <<v, e.var>> \in ToSet(AllEdges(task))
      BY <2>3, <2>6, <3>1
    <3>4. QED
      BY <1>5, <1>9, <3>2, <3>3
  <2>10. ASSUME Effects(o) # <<>> \/ NumEffects(o) # <<>>
         PROVE  ToSet(VarsOf(Prevails(o))) \subseteq Kept
    <3>1. Effects(o) \in Seq(PrePostSet(V)) /\ NumEffects(o) \in Seq(NumericalSet(V))
      BY <2>5, EffectsAre
    <3>2. CASE Effects(o) # <<>>
      <4>1. Effects(o)[1] \in ToSet(Effects(o))
        BY <3>1, <3>2 DEF ToSet
      <4>2. QED
        BY <2>5, <2>8, <4>1
    <3>3. CASE NumEffects(o) # <<>>
      <4>1. NumEffects(o)[1] \in ToSet(NumEffects(o))
        BY <3>1, <3>3 DEF ToSet
      <4>2. QED
        BY <2>5, <2>9, <4>1
    <3>4. QED
      BY <2>10, <3>2, <3>3
  <2>11. QED
    BY <2>2, <2>5, <2>8, <2>9, <2>10
<1>11. ASSUME NEW a \in ToSet(t.relational)
       PROVE  {a.effect} \cup ToSet(VarsOf(a.conditions)) \subseteq Kept
  <2>1. PICK i \in DOMAIN task.relational : a = task.relational[i]
    BY <1>6 DEF ToSet
  <2>2. a \in RelationalSet(V)
    BY <1>7, <2>1
  <2>3. a.effect \in V /\ a.effect \in Kept
    BY <1>5, <1>6, <2>2 DEF RelationalSet
  <2>4. \A v \in ToSet(VarsOf(a.conditions)) : <<v, a.effect>> \in ToSet(AllEdges(task))
    BY <1>8, <2>1
  <2>5. QED
    BY <1>5, <1>9, <2>3, <2>4
<1>12. ASSUME NEW a \in ToSet(t.functional)
       PROVE  {a.effect, a.left, a.right} \subseteq Kept
  <2>1. PICK i \in DOMAIN task.functional : a = task.functional[i]
    BY <1>6 DEF ToSet
  <2>2. a \in FunctionalSet(V)
    BY <1>7, <2>1
  <2>3. a.effect \in V /\ a.effect \in Kept
    BY <1>5, <1>6, <2>2 DEF FunctionalSet
  <2>4. \A v \in {a.left, a.right} : <<v, a.effect>> \in ToSet(AllEdges(task))
    BY <1>8, <2>1
  <2>5. QED
    BY <1>5, <1>9, <2>3, <2>4
<1>13. \A g \in ToSet(t.goal) : g[1] \in Kept
  <2>1. ToSet(VarsOf(task.goal)) = {c[1] : c \in ToSet(task.goal)}
    BY <1>7, VarsOfHolds
  <2>2. QED
    BY <1>5, <1>6, <2>1
<1>14. QED
  BY <1>2, <1>3, <1>10, <1>11, <1>12, <1>13 DEF PruningIsClosed

\* Every phase of main() keeps the invariant.
LEMMA NextPruningInv == PruningInv /\ [Next]_vars => PruningInv'
<1> SUFFICES ASSUME PruningInv, [Next]_vars
             PROVE  PruningInv'
  OBVIOUS
<1>1. CASE BuildCausalGraph
  <2>1. /\ stage = "read" /\ stage' = "causal graph" /\ task' = task /\ prune' = prune
        /\ graph' = WeightedGraph(task) /\ necessary' = ImportantVars(task, graph')
        /\ ordering' = Ordering(task, necessary', prune)
    BY <1>1 DEF BuildCausalGraph
  <2>2. TaskType(task) /\ DurationsAreMarked(task) /\ prune \in BOOLEAN
    BY <2>1 DEF PruningInv
  <2>3. GraphIsBuilt'
    BY <2>1 DEF GraphIsBuilt
  <2>4. ordering' \in Seq(DOMAIN task.variables)
    <3>1. necessary' \in SUBSET DOMAIN task.variables
      BY <2>1, <2>2, ImportantVarsAre
    <3>2. QED
      BY <2>1, <2>2, <3>1, OrderingIs
  <2>5. PruningIsClosed'
    BY <2>1 DEF PruningIsClosed, Stripped
  <2>6. QED
    BY <2>1, <2>2, <2>3, <2>4, <2>5 DEF PruningInv
<1>2. CASE StripTask
  <2>1. PruningIsClosed'
    BY <1>2, StripTaskCloses
  <2>2. /\ stage = "causal graph" /\ stage' = "stripped" /\ task' = Strip(task, Level) /\ prune' = prune
        /\ ordering' = ordering
    BY <1>2 DEF StripTask
  <2>3. TaskType(task') /\ task'.variables = task.variables
    BY <2>2, StripIs DEF PruningInv
  <2>4. QED
    BY <2>1, <2>2, <2>3 DEF PruningInv
<1>3. ASSUME UNCHANGED <<task, prune, ordering>>,
             stage \notin {"read", "causal graph"} /\ stage' \notin {"read", "causal graph"},
             stage' \in {"transition graphs", "generator", "written", "aborted"}
      PROVE  PruningInv'
  <2>1. PruningIsClosed'
    BY <1>3 DEF PruningInv, PruningIsClosed, Stripped, Kept
  <2>2. QED
    BY <1>3, <2>1 DEF PruningInv
<1>4. CASE BuildTransitionGraphs
  BY <1>3, <1>4 DEF BuildTransitionGraphs
<1>5. CASE BuildSuccessorGenerator
  BY <1>3, <1>5 DEF BuildSuccessorGenerator
<1>6. CASE WriteOutput
  BY <1>3, <1>6 DEF WriteOutput
<1>7. CASE Abort
  BY <1>3, <1>7 DEF Abort
<1>8. CASE UNCHANGED vars
  BY <1>8 DEF vars, PruningInv, GraphIsBuilt, PruningIsClosed, Stripped, Kept
<1>9. QED
  BY <1>1, <1>2, <1>4, <1>5, <1>6, <1>7, <1>8 DEF Next

\* In every task, what is left after stripping speaks of kept variables only.
THEOREM SpecPruningIsClosed == Spec => []PruningIsClosed
<1>1. PruningInv => PruningIsClosed
  BY DEF PruningInv
<1>2. QED
  BY InitPruningInv, NextPruningInv, <1>1, PTL DEF Spec

----------------------------------------------------------------------------
(* Sorting                                                                 *)

\* R orders the first n positions.
Orders(R, n) ==
    /\ \A i \in 1..n : <<i, i>> \notin R
    /\ \A i, j, k \in 1..n : <<i, j>> \in R /\ <<j, k>> \in R => <<i, k>> \in R
    /\ \A i, j \in 1..n : i # j => <<i, j>> \in R \/ <<j, i>> \in R

\* The rank of position i in the order R.
RankOf(R, n, i) == Cardinality({j \in 1..n : <<j, i>> \in R}) + 1

\* The ranks of the positions are the positions again, in the order R.
LEMMA RanksAre ==
    ASSUME NEW n \in Nat, NEW R, Orders(R, n)
    PROVE  /\ \A i \in 1..n : RankOf(R, n, i) \in 1..n
           /\ \A i, j \in 1..n : <<i, j>> \in R => RankOf(R, n, i) < RankOf(R, n, j)
           /\ \A k \in 1..n : \E i \in 1..n : RankOf(R, n, i) = k
<1> DEFINE D == 1..n
           below(i) == {j \in D : <<j, i>> \in R}
           rank == [i \in D |-> RankOf(R, n, i)]
<1>1. IsFiniteSet(D) /\ Cardinality(D) = n
  BY IntervalSize
<1>2. \A i \in D : IsFiniteSet(below(i)) /\ Cardinality(below(i)) \in Nat
  <2> TAKE i \in D
  <2>1. below(i) \in SUBSET D
    OBVIOUS
  <2> HIDE DEF below, D
  <2>2. QED
    BY <1>1, <2>1, FS_Subset, FS_CardinalityType
<1>3. \A i \in D : RankOf(R, n, i) = Cardinality(below(i)) + 1
  BY DEF RankOf
<1>4. \A i \in D : i \notin below(i)
  BY DEF Orders
<1>5. \A i \in D : IsFiniteSet(below(i) \cup {i}) /\ Cardinality(below(i) \cup {i}) = Cardinality(below(i)) + 1
  <2> HIDE DEF below, D
  <2>1. QED
    BY <1>2, <1>4, FS_AddElement
<1>6. \A i \in D : RankOf(R, n, i) \in D
  <2> TAKE i \in D
  <2>1. below(i) \cup {i} \in SUBSET D
    OBVIOUS
  <2>2. Cardinality(below(i) \cup {i}) <= n
    <3> HIDE DEF below, D
    <3>1. QED
      BY <1>1, <2>1, FS_Subset
  <2> HIDE DEF below
  <2>3. QED
    BY <1>2, <1>3, <1>5, <2>2
<1>7. \A i, j \in D : <<i, j>> \in R => RankOf(R, n, i) < RankOf(R, n, j)
  <2> SUFFICES ASSUME NEW i \in D, NEW j \in D, <<i, j>> \in R
               PROVE  RankOf(R, n, i) < RankOf(R, n, j)
    OBVIOUS
  <2>1. below(i) \cup {i} \in SUBSET below(j)
    BY DEF Orders
  <2>2. Cardinality(below(i) \cup {i}) <= Cardinality(below(j))
    <3> HIDE DEF below, D
    <3>1. QED
      BY <1>2, <2>1, FS_Subset
  <2>3. /\ Cardinality(below(i)) \in Nat /\ Cardinality(below(j)) \in Nat
        /\ Cardinality(below(i) \cup {i}) = Cardinality(below(i)) + 1
    BY <1>2, <1>5
  <2>4. RankOf(R, n, i) = Cardinality(below(i)) + 1 /\ RankOf(R, n, j) = Cardinality(below(j)) + 1
    BY <1>3
  <2> HIDE DEF below
  <2>5. QED
    BY <2>2, <2>3, <2>4
<1>8. rank \in Injection(D, D)
  <2>1. rank \in [D -> D]
    BY <1>6
  <2>2. \A i, j \in D : rank[i] = rank[j] => i = j
    <3> SUFFICES ASSUME NEW i \in D, NEW j \in D, i # j
                 PROVE  rank[i] # rank[j]
      OBVIOUS
    <3>1. <<i, j>> \in R \/ <<j, i>> \in R
      BY DEF Orders
    <3>2. rank[i] = RankOf(R, n, i) /\ rank[j] = RankOf(R, n, j) /\ rank[i] \in Int /\ rank[j] \in Int
      BY <1>6
    <3>3. rank[i] < rank[j] \/ rank[j] < rank[i]
      BY <1>7, <3>1, <3>2
    <3>4. QED
      BY <3>2, <3>3
  <2>3. DOMAIN rank = D
    OBVIOUS
  <2> HIDE DEF rank
  <2>4. QED
    BY <2>1, <2>2, <2>3, Zenon DEF Injection, IsInjective
<1>9. rank \in Surjection(D, D)
  <2> HIDE DEF rank, D
  <2>1. QED
    BY <1>1, <1>8, FS_Injection
<1>10. \A k \in D : \E i \in D : rank[i] = k
  <2> HIDE DEF rank
  <2>1. QED
    BY <1>9, Zenon DEF Surjection
<1>11. QED
  BY <1>6, <1>7, <1>10

\* less compares the elements of a sequence of length n by position: a strict
\* weak order.
Compares(less, n) ==
    /\ \A i \in 1..n : <<i, i>> \notin less
    /\ \A i, j, k \in 1..n : <<i, j>> \in less /\ <<j, k>> \in less => <<i, k>> \in less
    /\ \A i, j, k \in 1..n : <<i, j>> \notin less /\ <<j, k>> \notin less => <<i, k>> \notin less

\* u is s with its elements in another order; at tells where each comes from.
Permutes(u, at, s) ==
    /\ Len(u) = Len(s)
    /\ at \in [1..Len(s) -> 1..Len(s)]
    /\ \A j, k \in 1..Len(s) : at[j] = at[k] => j = k
    /\ \A i \in 1..Len(s) : \E k \in 1..Len(s) : at[k] = i
    /\ \A k \in 1..Len(s) : u[k] = s[at[k]]

\* InOrder sorts.
LEMMA InOrderSorts ==
    ASSUME NEW T, NEW s \in Seq(T), NEW less, Compares(less, Len(s))
    PROVE  /\ InOrder(s, less) \in Seq(T)
           /\ \E at : /\ Permutes(InOrder(s, less), at, s)
                      /\ \A j, k \in 1..Len(s) : j < k => <<at[k], at[j]>> \notin less
<1> DEFINE n == Len(s)
           R == {p \in (1..n) \X (1..n) : p \in less \/ (p[1] < p[2] /\ <<p[2], p[1]>> \notin less)}
           at == [k \in 1..n |-> CHOOSE i \in 1..n : RankOf(R, n, i) = k]
           u == InOrder(s, less)
<1>1. n \in Nat /\ DOMAIN s = 1..n /\ \A i \in 1..n : s[i] \in T
  OBVIOUS
<1>2. \A i, j \in 1..n : <<i, j>> \in R <=> <<i, j>> \in less \/ (i < j /\ <<j, i>> \notin less)
  OBVIOUS
<1>3. u = [k \in 1..n |-> s[at[k]]]
  <2> DEFINE before(i, j) == <<i, j>> \in less \/ (i < j /\ <<j, i>> \notin less)
             rank(i) == Cardinality({j \in 1..n : before(j, i)}) + 1
  <2>1. u = [k \in 1..n |-> s[CHOOSE i \in 1..n : rank(i) = k]]
    BY <1>1 DEF InOrder
  <2>2. \A i \in 1..n : {j \in 1..n : before(j, i)} = {j \in 1..n : <<j, i>> \in R}
    BY <1>2
  <2>3. \A i \in 1..n : rank(i) = RankOf(R, n, i)
    BY <2>2 DEF RankOf
  <2> HIDE DEF rank, R
  <2>4. \A k \in 1..n : (CHOOSE i \in 1..n : rank(i) = k) = (CHOOSE i \in 1..n : RankOf(R, n, i) = k)
    BY <2>3
  <2>5. \A k \in 1..n : at[k] = CHOOSE i \in 1..n : rank(i) = k
    BY <2>4
  <2> HIDE DEF at, n
  <2>6. QED
    BY <2>1, <2>5
<1> HIDE DEF R
<1>4. Orders(R, n)
  <2>1. \A i \in 1..n : <<i, i>> \notin R
    <3> SUFFICES ASSUME NEW i \in 1..n
                 PROVE  <<i, i>> \notin R
      OBVIOUS
    <3>1. <<i, i>> \notin less /\ ~(i < i)
      BY DEF Compares
    <3>2. QED
      BY <1>2, <3>1
  <2>2. \A i, j \in 1..n : i # j => <<i, j>> \in R \/ <<j, i>> \in R
    <3> SUFFICES ASSUME NEW i \in 1..n, NEW j \in 1..n, i # j
                 PROVE  <<i, j>> \in R \/ <<j, i>> \in R
      OBVIOUS
    <3>1. i < j \/ j < i
      OBVIOUS
    <3>2. /\ <<i, j>> \in R <=> <<i, j>> \in less \/ (i < j /\ <<j, i>> \notin less)
          /\ <<j, i>> \in R <=> <<j, i>> \in less \/ (j < i /\ <<i, j>> \notin less)
      BY <1>2
    <3>3. QED
      BY <3>1, <3>2
  <2>3. \A i, j, k \in 1..n : <<i, j>> \in R /\ <<j, k>> \in R => <<i, k>> \in R
    <3> SUFFICES ASSUME NEW i \in 1..n, NEW j \in 1..n, NEW k \in 1..n, <<i, j>> \in R, <<j, k>> \in R
                 PROVE  <<i, k>> \in R
      OBVIOUS
    <3>1. i \in Int /\ j \in Int /\ k \in Int
      OBVIOUS
    <3>2. <<i, j>> \in less \/ (i < j /\ <<j, i>> \notin less)
      BY <1>2
    <3>3. <<j, k>> \in less \/ (j < k /\ <<k, j>> \notin less)
      BY <1>2
    <3>4. /\ <<i, j>> \in less /\ <<j, k>> \in less => <<i, k>> \in less
          /\ <<k, i>> \in less /\ <<i, j>> \in less => <<k, j>> \in less
          /\ <<j, k>> \in less /\ <<k, i>> \in less => <<j, i>> \in less
          /\ <<i, k>> \notin less /\ <<k, j>> \notin less => <<i, j>> \notin less
          /\ <<j, i>> \notin less /\ <<i, k>> \notin less => <<j, k>> \notin less
          /\ <<k, j>> \notin less /\ <<j, i>> \notin less => <<k, i>> \notin less
          /\ <<i, j>> \in less /\ <<j, i>> \in less => <<i, i>> \in less
          /\ <<j, k>> \in less /\ <<k, j>> \in less => <<j, j>> \in less
          /\ <<i, i>> \notin less /\ <<j, j>> \notin less
      BY DEF Compares
    <3>5. <<i, k>> \in less \/ (i < k /\ <<k, i>> \notin less)
      BY <3>1, <3>2, <3>3, <3>4
    <3>6. QED
      BY <1>2, <3>5
  <2> HIDE DEF n
  <2>4. QED
    BY <2>1, <2>2, <2>3 DEF Orders
<1>5. /\ \A i \in 1..n : RankOf(R, n, i) \in 1..n
      /\ \A i, j \in 1..n : <<i, j>> \in R => RankOf(R, n, i) < RankOf(R, n, j)
      /\ \A k \in 1..n : \E i \in 1..n : RankOf(R, n, i) = k
  <2> HIDE DEF n
  <2>1. QED
    BY <1>1, <1>4, RanksAre
<1>6. \A k \in 1..n : at[k] \in 1..n /\ RankOf(R, n, at[k]) = k
  BY <1>5
<1>7. at \in [1..n -> 1..n]
  BY <1>6
<1> HIDE DEF at, n, u
<1>8. \A i, j \in 1..n : RankOf(R, n, i) = RankOf(R, n, j) => i = j
  <2> SUFFICES ASSUME NEW i \in 1..n, NEW j \in 1..n, i # j
               PROVE  RankOf(R, n, i) # RankOf(R, n, j)
    OBVIOUS
  <2>1. <<i, j>> \in R \/ <<j, i>> \in R
    BY <1>4 DEF Orders
  <2>2. RankOf(R, n, i) \in Int /\ RankOf(R, n, j) \in Int
    BY <1>5
  <2>3. RankOf(R, n, i) < RankOf(R, n, j) \/ RankOf(R, n, j) < RankOf(R, n, i)
    BY <1>5, <2>1
  <2>4. QED
    BY <2>2, <2>3
<1>9. \A i \in 1..n : \E k \in 1..n : at[k] = i
  <2> TAKE i \in 1..n
  <2>1. RankOf(R, n, i) \in 1..n
    BY <1>5
  <2>2. at[RankOf(R, n, i)] = i
    BY <1>6, <1>8, <2>1
  <2>3. QED
    BY <2>1, <2>2
<1>10. \A j, k \in 1..n : at[j] = at[k] => j = k
  BY <1>6
<1>11. u \in Seq(T) /\ Len(u) = n /\ \A k \in 1..n : u[k] = s[at[k]]
  BY <1>1, <1>3, <1>6
<1>12. Permutes(u, at, s)
  BY <1>7, <1>9, <1>10, <1>11 DEF Permutes, n
<1>13. \A j, k \in 1..n : j < k => <<at[k], at[j]>> \notin less
  <2> SUFFICES ASSUME NEW j \in 1..n, NEW k \in 1..n, j < k, <<at[k], at[j]>> \in less
               PROVE  FALSE
    OBVIOUS
  <2>1. <<at[k], at[j]>> \in R
    BY <1>2, <1>6
  <2>2. RankOf(R, n, at[k]) < RankOf(R, n, at[j])
    BY <1>5, <1>6, <2>1
  <2>3. QED
    BY <1>1, <1>6, <2>2
<1>14. QED
  BY <1>11, <1>12, <1>13 DEF u, n

----------------------------------------------------------------------------
(* The successor generator                                                 *)

\* The elements that OnlyAt picks from a sequence without repetition do not repeat.
LEMMA OnlyAtInjective ==
    ASSUME NEW T, NEW s \in Seq(T), IsInjective(s), NEW N
    PROVE  IsInjective(OnlyAt(s, N))
<1> DEFINE u == OnlyAt(s, N)
<1>1. u \in Seq(T)
  BY OnlyAtPicks
<1>2. PICK at : Picks(u, at, s, N, Len(s))
  BY OnlyAtPicks
<1> HIDE DEF u
<1>3. DOMAIN u = 1..Len(u) /\ DOMAIN s = 1..Len(s) /\ Len(u) \in Nat /\ Len(s) \in Nat
  BY <1>1
<1>4. /\ at \in [1..Len(u) -> 1..Len(s)]
      /\ \A j, k \in 1..Len(u) : j < k => at[j] < at[k]
      /\ \A k \in 1..Len(u) : u[k] = s[at[k]]
  BY <1>2 DEF Picks
<1>5. ASSUME NEW j \in 1..Len(u), NEW k \in 1..Len(u), u[j] = u[k]
      PROVE  j = k
  <2>1. at[j] \in 1..Len(s) /\ at[k] \in 1..Len(s) /\ s[at[j]] = s[at[k]]
    BY <1>4, <1>5
  <2>2. at[j] = at[k]
    BY <1>3, <2>1 DEF IsInjective
  <2>3. (j < k => at[j] < at[k]) /\ (k < j => at[k] < at[j])
    BY <1>4
  <2>4. QED
    BY <1>3, <2>1, <2>2, <2>3
<1>6. IsInjective(u)
  BY <1>3, <1>5 DEF IsInjective
<1>7. QED
  BY <1>6 DEF u

\* Two sequences without repetition that have nothing in common, one after the other.
LEMMA ConcatInjective ==
    ASSUME NEW T, NEW s \in Seq(T), NEW u \in Seq(T), IsInjective(s), IsInjective(u),
           ToSet(s) \cap ToSet(u) = {}
    PROVE  IsInjective(s \o u)
<1> DEFINE w == s \o u
<1>1. /\ w \in Seq(T) /\ Len(w) = Len(s) + Len(u) /\ Len(s) \in Nat /\ Len(u) \in Nat
      /\ DOMAIN s = 1..Len(s) /\ DOMAIN u = 1..Len(u) /\ DOMAIN w = 1..Len(w)
  OBVIOUS
<1>2. /\ \A i \in 1..Len(s) : w[i] = s[i]
      /\ \A i \in (Len(s) + 1)..(Len(s) + Len(u)) : w[i] = u[i - Len(s)]
  OBVIOUS
<1> HIDE DEF w
<1>3. ASSUME NEW i \in 1..Len(w)
      PROVE  \/ i \in 1..Len(s) /\ w[i] = s[i]
             \/ i - Len(s) \in 1..Len(u) /\ w[i] = u[i - Len(s)]
  <2>1. i \in 1..Len(s) \/ (i \in (Len(s) + 1)..(Len(s) + Len(u)) /\ i - Len(s) \in 1..Len(u))
    BY <1>1
  <2>2. QED
    BY <1>2, <2>1
<1>4. \A i \in 1..Len(s) : \A k \in 1..Len(u) : s[i] # u[k]
  BY <1>1 DEF ToSet
<1>5. ASSUME NEW i \in 1..Len(w), NEW k \in 1..Len(w), w[i] = w[k]
      PROVE  i = k
  <2>1. CASE i \in 1..Len(s) /\ w[i] = s[i] /\ k \in 1..Len(s) /\ w[k] = s[k]
    BY <1>1, <1>5, <2>1 DEF IsInjective
  <2>2. CASE /\ i - Len(s) \in 1..Len(u) /\ w[i] = u[i - Len(s)]
             /\ k - Len(s) \in 1..Len(u) /\ w[k] = u[k - Len(s)]
    <3>1. i - Len(s) = k - Len(s)
      BY <1>1, <1>5, <2>2 DEF IsInjective
    <3>2. i \in Int /\ k \in Int /\ Len(s) \in Int
      BY <1>1
    <3>3. QED
      BY <3>1, <3>2
  <2>3. CASE i \in 1..Len(s) /\ w[i] = s[i] /\ k - Len(s) \in 1..Len(u) /\ w[k] = u[k - Len(s)]
    BY <1>4, <1>5, <2>3
  <2>4. CASE k \in 1..Len(s) /\ w[k] = s[k] /\ i - Len(s) \in 1..Len(u) /\ w[i] = u[i - Len(s)]
    BY <1>4, <1>5, <2>4
  <2>5. QED
    BY <1>3, <2>1, <2>2, <2>3, <2>4
<1>6. QED
  BY <1>1, <1>5 DEF IsInjective, w

\* The sets of trees are what Generators defines them to be.
Grows(trees, depth) ==
    /\ trees[0] = Leaves
    /\ \A d \in 1..depth : trees[d] = Leaves \cup Switches(trees[d - 1])

\* Generators(depth) holds the trees of each depth up to depth.
LEMMA GeneratorsGrow ==
    ASSUME NEW depth \in Nat
    PROVE  Grows(Generators(depth), depth)
<1> DEFINE step(trees) == Leaves \cup Switches(trees)
           body(f) == [d \in 0..depth |-> IF d = 0 THEN Leaves ELSE step(f[d - 1])]
           upTo(f, m) == f[0] = Leaves /\ \A d \in 1..m : f[d] = step(f[d - 1])
           Good == {m \in 0..depth : \E f : upTo(f, m)}
<1> HIDE DEF step
<1>1. 0 \in Good
  <2>1. upTo([d \in {0} |-> Leaves], 0)
    OBVIOUS
  <2> HIDE DEF upTo
  <2>2. QED
    BY <2>1
<1>2. ASSUME NEW m \in 0..(depth - 1), m \in Good
      PROVE  m + 1 \in Good
  <2>1. PICK f : upTo(f, m)
    BY <1>2
  <2> DEFINE f2 == [d \in 0..(m + 1) |-> IF d = m + 1 THEN step(f[m]) ELSE f[d]]
  <2>2. f2[m + 1] = step(f[m]) /\ \A d \in 0..m : f2[d] = f[d]
    OBVIOUS
  <2> HIDE DEF f2
  <2>3. upTo(f2, m + 1)
    <3>1. f2[0] = Leaves
      BY <2>1, <2>2
    <3>2. ASSUME NEW d \in 1..(m + 1)
          PROVE  f2[d] = step(f2[d - 1])
      <4>1. d - 1 \in 0..m
        OBVIOUS
      <4>2. f2[d - 1] = f[d - 1]
        BY <2>2, <4>1
      <4>3. CASE d = m + 1
        <5>1. d - 1 = m
          BY <4>3
        <5>2. QED
          BY <2>2, <4>2, <4>3, <5>1
      <4>4. CASE d # m + 1
        <5>1. d \in 1..m /\ d \in 0..m
          BY <4>4
        <5>2. QED
          BY <2>1, <2>2, <4>2, <5>1
      <4>5. QED
        BY <4>3, <4>4
    <3>3. QED
      BY <3>1, <3>2
  <2>4. m + 1 \in 0..depth
    OBVIOUS
  <2> HIDE DEF upTo
  <2>5. QED
    BY <2>3, <2>4
<1>3. depth \in Good
  <2> HIDE DEF Good
  <2>1. \A k \in 0..depth : k \in Good
    BY <1>1, <1>2, UpTo
  <2>2. QED
    BY <2>1
<1>4. PICK f : upTo(f, depth)
  BY <1>3
<1> DEFINE h == [d \in 0..depth |-> f[d]]
<1>5. h = body(h)
  <2>1. \A d \in 0..depth : h[d] = f[d]
    OBVIOUS
  <2> HIDE DEF h
  <2>2. \A d \in 0..depth : f[d] = body(h)[d]
    <3> TAKE d \in 0..depth
    <3>1. CASE d = 0
      BY <1>4, <3>1
    <3>2. CASE d # 0
      <4>1. d \in 1..depth /\ d - 1 \in 0..depth
        BY <3>2
      <4>2. QED
        BY <1>4, <2>1, <3>2, <4>1
    <3>3. QED
      BY <3>1, <3>2
  <2>3. body(h) = [d \in 0..depth |-> body(h)[d]]
    OBVIOUS
  <2>4. QED
    BY <2>2, <2>3 DEF h
<1> DEFINE g == CHOOSE t : t = body(t)
<1>6. g = body(g)
  <2> HIDE DEF body
  <2>1. QED
    BY <1>5, Zenon
<1>7. Generators(depth) = g
  BY Zenon DEF Generators, step
<1> HIDE DEF g
<1>8. \A d \in 0..depth : g[d] = IF d = 0 THEN Leaves ELSE step(g[d - 1])
  <2>1. \A d \in 0..depth : g[d] = body(g)[d]
    BY <1>6
  <2>2. QED
    BY <2>1
<1>9. g[0] = Leaves
  BY <1>8
<1>10. \A d \in 1..depth : g[d] = step(g[d - 1])
  <2> TAKE d \in 1..depth
  <2>1. d \in 0..depth /\ d # 0
    OBVIOUS
  <2>2. QED
    BY <1>8, <2>1
<1>11. QED
  BY <1>7, <1>9, <1>10 DEF Grows, step

\* The arguments of construct_recursive: operators, and the first condition of
\* each that was not yet looked at.
Arguments(conditions) == Seq(DOMAIN conditions) \X [DOMAIN conditions -> Nat \ {0}]

\* The function is what ConstructRecursive defines it to be.
Constructs(f, variables, conditions, order) ==
    /\ \A p \in Arguments(conditions) : f[0][p] = GeneratorLeaf(p[1])
    /\ \A n \in 1..Len(order) : \A p \in Arguments(conditions) :
          f[n][p] = IF p[1] = <<>> THEN GeneratorLeaf(p[1])
                    ELSE GeneratorSwitch(variables, conditions, order[Len(order) - n + 1],
                                         p[1], p[2], f[n - 1])

\* There is such a function, so that ConstructRecursive defines a tree.
LEMMA ConstructRecursiveIs ==
    ASSUME NEW variables, NEW conditions, NEW T, NEW order \in Seq(T)
    PROVE  \E f : /\ Constructs(f, variables, conditions, order)
                  /\ ConstructRecursive(variables, conditions, order) = f[Len(order)]
<1> DEFINE N == Len(order)
           step(n, below) ==
               [p \in Seq(DOMAIN conditions) \X [DOMAIN conditions -> Nat \ {0}] |->
                   IF p[1] = <<>> \/ n = 0 THEN GeneratorLeaf(p[1])
                   ELSE GeneratorSwitch(variables, conditions, order[Len(order) - n + 1], p[1], p[2], below)]
           base == step(0, <<>>)
           body(f) == [n \in 0..N |-> step(n, f[n - 1])]
           upTo(f, m) == f[0] = base /\ \A d \in 1..m : f[d] = step(d, f[d - 1])
           Good == {m \in 0..N : \E f : upTo(f, m)}
<1>1. \A x : step(0, x) = base
  OBVIOUS
<1>a. \A n, x : \A p \in Arguments(conditions) :
         step(n, x)[p] = IF p[1] = <<>> \/ n = 0 THEN GeneratorLeaf(p[1])
                         ELSE GeneratorSwitch(variables, conditions, order[N - n + 1], p[1], p[2], x)
  BY DEF Arguments
<1>b. N \in Nat
  OBVIOUS
<1> HIDE DEF N
<1> USE <1>b
<1> HIDE DEF step
<1>2. 0 \in Good
  <2>1. upTo([d \in {0} |-> base], 0)
    OBVIOUS
  <2> HIDE DEF upTo, base
  <2>2. QED
    BY <2>1
<1> HIDE DEF base
<1>3. ASSUME NEW m \in 0..(N - 1), m \in Good
      PROVE  m + 1 \in Good
  <2>1. PICK f : upTo(f, m)
    BY <1>3
  <2> DEFINE f2 == [d \in 0..(m + 1) |-> IF d = m + 1 THEN step(m + 1, f[m]) ELSE f[d]]
  <2>2. f2[m + 1] = step(m + 1, f[m]) /\ \A d \in 0..m : f2[d] = f[d]
    OBVIOUS
  <2> HIDE DEF f2
  <2>3. upTo(f2, m + 1)
    <3>1. f2[0] = base
      BY <2>1, <2>2
    <3>2. ASSUME NEW d \in 1..(m + 1)
          PROVE  f2[d] = step(d, f2[d - 1])
      <4>1. d - 1 \in 0..m
        OBVIOUS
      <4>2. f2[d - 1] = f[d - 1]
        BY <2>2, <4>1
      <4>3. CASE d = m + 1
        <5>1. d - 1 = m
          BY <4>3
        <5>2. QED
          BY <2>2, <4>2, <4>3, <5>1
      <4>4. CASE d # m + 1
        <5>1. d \in 1..m /\ d \in 0..m
          BY <4>4
        <5>2. QED
          BY <2>1, <2>2, <4>2, <5>1
      <4>5. QED
        BY <4>3, <4>4
    <3>3. QED
      BY <3>1, <3>2
  <2>4. m + 1 \in 0..N
    OBVIOUS
  <2> HIDE DEF upTo
  <2>5. QED
    BY <2>3, <2>4
<1>4. N \in Good
  <2> HIDE DEF Good
  <2>1. \A k \in 0..N : k \in Good
    BY <1>2, <1>3, UpTo
  <2>2. QED
    BY <2>1
<1>5. PICK f : upTo(f, N)
  BY <1>4
<1> DEFINE h == [d \in 0..N |-> f[d]]
<1>6. h = body(h)
  <2>1. \A d \in 0..N : h[d] = f[d]
    OBVIOUS
  <2> HIDE DEF h
  <2>2. \A d \in 0..N : f[d] = body(h)[d]
    <3> TAKE d \in 0..N
    <3>1. CASE d = 0
      <4>1. step(0, h[0 - 1]) = base
        BY <1>1
      <4>2. QED
        BY <1>5, <3>1, <4>1
    <3>2. CASE d # 0
      <4>1. d \in 1..N /\ d - 1 \in 0..N
        BY <3>2
      <4>2. QED
        BY <1>5, <2>1, <4>1
    <3>3. QED
      BY <3>1, <3>2
  <2>3. body(h) = [d \in 0..N |-> body(h)[d]]
    OBVIOUS
  <2>4. QED
    BY <2>2, <2>3 DEF h
<1> DEFINE g == CHOOSE t : t = body(t)
<1>7. g = body(g)
  <2> HIDE DEF body
  <2>1. QED
    BY <1>6, Zenon
<1>8. ConstructRecursive(variables, conditions, order) = g[N]
  BY Zenon DEF ConstructRecursive, N, step
<1> HIDE DEF g
<1>9. \A d \in 0..N : g[d] = step(d, g[d - 1])
  <2>1. \A d \in 0..N : g[d] = body(g)[d]
    BY <1>7
  <2>2. QED
    BY <2>1
<1>10. g[0] = base
  BY <1>1, <1>9
<1>11. \A d \in 1..N : g[d] = step(d, g[d - 1])
  BY <1>9
<1>12. Constructs(g, variables, conditions, order)
  <2>1. ASSUME NEW p \in Arguments(conditions)
        PROVE  g[0][p] = GeneratorLeaf(p[1])
    BY <1>a, <1>10 DEF base
  <2>2. ASSUME NEW n \in 1..N, NEW p \in Arguments(conditions)
        PROVE  g[n][p] = IF p[1] = <<>> THEN GeneratorLeaf(p[1])
                         ELSE GeneratorSwitch(variables, conditions, order[N - n + 1], p[1], p[2], g[n - 1])
    <3>1. g[n] = step(n, g[n - 1]) /\ n # 0
      BY <1>11
    <3>2. QED
      BY <1>a, <3>1
  <2>3. QED
    BY <2>1, <2>2 DEF Constructs, N
<1>13. QED
  BY <1>8, <1>12 DEF N

\* The function is what GenerateApplicableOps defines it to be.
Looks(f, trees, value, depth) ==
    /\ \A h \in trees[0] : f[0][h] = h.ops
    /\ \A d \in 1..depth : \A h \in trees[d] :
          f[d][h] = IF h.switch = 0 THEN h.ops
                    ELSE h.ops \o f[d - 1][h.forValue[value[h.switch] + 1]] \o f[d - 1][h.default[1]]

\* There is such a function, so that GenerateApplicableOps looks up the operators
\* of every tree.
LEMMA GenerateApplicableOpsIs ==
    ASSUME NEW T, NEW value \in Seq(T)
    PROVE  \E f : /\ Looks(f, Generators(Len(value)), value, Len(value))
                  /\ \A g : GenerateApplicableOps(g, value) = f[Len(value)][g]
<1> DEFINE N == Len(value)
           trees == Generators(N)
           step(d, below) == [h \in trees[d] |->
               IF h.switch = 0 THEN h.ops
               ELSE h.ops \o below[h.forValue[value[h.switch] + 1]] \o below[h.default[1]]]
           base == step(0, <<>>)
           body(f) == [d \in 0..N |-> step(d, f[d - 1])]
           upTo(f, m) == f[0] = base /\ \A d \in 1..m : f[d] = step(d, f[d - 1])
           Good == {m \in 0..N : \E f : upTo(f, m)}
<1>b. N \in Nat
  OBVIOUS
<1>c. \A h \in trees[0] : h.switch = 0
  <2>1. trees[0] = Leaves
    BY <1>b, GeneratorsGrow DEF Grows
  <2>2. QED
    BY <2>1 DEF Leaves
<1>1. \A x : step(0, x) = base
  <2> HIDE DEF trees
  <2>1. QED
    BY <1>c
<1> HIDE DEF N, trees
<1>a. \A d, x : \A h \in trees[d] :
         step(d, x)[h] = IF h.switch = 0 THEN h.ops
                         ELSE h.ops \o x[h.forValue[value[h.switch] + 1]] \o x[h.default[1]]
  OBVIOUS
<1> USE <1>b
<1> HIDE DEF step
<1>2. 0 \in Good
  <2>1. upTo([d \in {0} |-> base], 0)
    OBVIOUS
  <2> HIDE DEF upTo, base
  <2>2. QED
    BY <2>1
<1> HIDE DEF base
<1>3. ASSUME NEW m \in 0..(N - 1), m \in Good
      PROVE  m + 1 \in Good
  <2>1. PICK f : upTo(f, m)
    BY <1>3
  <2> DEFINE f2 == [d \in 0..(m + 1) |-> IF d = m + 1 THEN step(m + 1, f[m]) ELSE f[d]]
  <2>2. f2[m + 1] = step(m + 1, f[m]) /\ \A d \in 0..m : f2[d] = f[d]
    OBVIOUS
  <2> HIDE DEF f2
  <2>3. upTo(f2, m + 1)
    <3>1. f2[0] = base
      BY <2>1, <2>2
    <3>2. ASSUME NEW d \in 1..(m + 1)
          PROVE  f2[d] = step(d, f2[d - 1])
      <4>1. d - 1 \in 0..m
        OBVIOUS
      <4>2. f2[d - 1] = f[d - 1]
        BY <2>2, <4>1
      <4>3. CASE d = m + 1
        <5>1. d - 1 = m
          BY <4>3
        <5>2. QED
          BY <2>2, <4>2, <4>3, <5>1
      <4>4. CASE d # m + 1
        <5>1. d \in 1..m /\ d \in 0..m
          BY <4>4
        <5>2. QED
          BY <2>1, <2>2, <4>2, <5>1
      <4>5. QED
        BY <4>3, <4>4
    <3>3. QED
      BY <3>1, <3>2
  <2>4. m + 1 \in 0..N
    OBVIOUS
  <2> HIDE DEF upTo
  <2>5. QED
    BY <2>3, <2>4
<1>4. N \in Good
  <2> HIDE DEF Good
  <2>1. \A k \in 0..N : k \in Good
    BY <1>2, <1>3, UpTo
  <2>2. QED
    BY <2>1
<1>5. PICK f : upTo(f, N)
  BY <1>4
<1> DEFINE all == [d \in 0..N |-> f[d]]
<1>6. all = body(all)
  <2>1. \A d \in 0..N : all[d] = f[d]
    OBVIOUS
  <2> HIDE DEF all
  <2>2. \A d \in 0..N : f[d] = body(all)[d]
    <3> TAKE d \in 0..N
    <3>1. CASE d = 0
      <4>1. step(0, all[0 - 1]) = base
        BY <1>1
      <4>2. QED
        BY <1>5, <3>1, <4>1
    <3>2. CASE d # 0
      <4>1. d \in 1..N /\ d - 1 \in 0..N
        BY <3>2
      <4>2. QED
        BY <1>5, <2>1, <4>1
    <3>3. QED
      BY <3>1, <3>2
  <2>3. body(all) = [d \in 0..N |-> body(all)[d]]
    OBVIOUS
  <2>4. QED
    BY <2>2, <2>3 DEF all
<1> DEFINE g == CHOOSE t : t = body(t)
<1>7. g = body(g)
  <2> HIDE DEF body
  <2>1. QED
    BY <1>6, Zenon
<1>8. \A t : GenerateApplicableOps(t, value) = g[N][t]
  BY Zenon DEF GenerateApplicableOps, N, trees, step
<1> HIDE DEF g
<1>9. \A d \in 0..N : g[d] = step(d, g[d - 1])
  <2>1. \A d \in 0..N : g[d] = body(g)[d]
    BY <1>7
  <2>2. QED
    BY <2>1
<1>10. g[0] = base
  BY <1>1, <1>9
<1>11. \A d \in 1..N : g[d] = step(d, g[d - 1])
  BY <1>9
<1>12. Looks(g, trees, value, N)
  <2>1. ASSUME NEW h \in trees[0]
        PROVE  g[0][h] = h.ops
    BY <1>a, <1>c, <1>10 DEF base
  <2>2. ASSUME NEW d \in 1..N, NEW h \in trees[d]
        PROVE  g[d][h] = IF h.switch = 0 THEN h.ops
                         ELSE h.ops \o g[d - 1][h.forValue[value[h.switch] + 1]] \o g[d - 1][h.default[1]]
    BY <1>a, <1>11
  <2>3. QED
    BY <2>1, <2>2 DEF Looks
<1>13. QED
  BY <1>8, <1>12 DEF N, trees

\* From its k-th condition on, everything operator o asks for holds.
HoldsFrom(conditions, o, k, value) ==
    \A j \in k..Len(conditions[o]) : value[conditions[o][j][1]] = conditions[o][j][2]

\* From its k-th condition on, operator o asks for these variables, in their order
\* and for none twice.
AsksInOrder(conditions, o, k, free) ==
    /\ \A j \in k..Len(conditions[o]) : conditions[o][j][1] \in free
    /\ \A i, j \in k..Len(conditions[o]) : i < j => conditions[o][i][1] < conditions[o][j][1]

\* What was found are operators of the list, none twice; those whose remaining
\* conditions hold are among them, and of those that ask in order no others.
Answers(conditions, value, free, ops, next, found) ==
    /\ found \in Seq(DOMAIN conditions) /\ IsInjective(found)
    /\ ToSet(found) \subseteq ToSet(ops)
    /\ \A o \in ToSet(ops) : HoldsFrom(conditions, o, next[o], value) => o \in ToSet(found)
    /\ \A o \in ToSet(found) :
          AsksInOrder(conditions, o, next[o], free) => HoldsFrom(conditions, o, next[o], value)

\* All operators of a list are an answer if no condition of theirs is left.
LEMMA LeafAnswers ==
    ASSUME NEW conditions, NEW value, NEW free, NEW ops \in Seq(DOMAIN conditions), IsInjective(ops), NEW next,
           \A o \in ToSet(ops) : AsksInOrder(conditions, o, next[o], free) => next[o] > Len(conditions[o]),
           next \in [DOMAIN conditions -> Nat \ {0}],
           \A o \in DOMAIN conditions : Len(conditions[o]) \in Nat
    PROVE  Answers(conditions, value, free, ops, next, ops)
<1>1. \A o \in ToSet(ops) : o \in DOMAIN conditions
  BY DEF ToSet
<1>2. \A o \in ToSet(ops) : next[o] > Len(conditions[o]) => HoldsFrom(conditions, o, next[o], value)
  BY <1>1 DEF HoldsFrom
<1>3. QED
  BY <1>2 DEF Answers

\* A variable that no remaining condition is on can be passed.
LEMMA PassesVariable ==
    ASSUME NEW conditions, NEW o \in DOMAIN conditions, Len(conditions[o]) \in Nat, NEW k \in Nat \ {0},
           NEW free \in SUBSET Int, NEW x \in Int, AsksInOrder(conditions, o, k, free),
           \A y \in free : y >= x,
           k <= Len(conditions[o]) => conditions[o][k][1] # x
    PROVE  AsksInOrder(conditions, o, k, free \ {x})
<1>1. Len(conditions[o]) \in Nat
  OBVIOUS
<1>2. ASSUME NEW j \in k..Len(conditions[o])
      PROVE  conditions[o][j][1] \in free \ {x}
  <2>1. conditions[o][j][1] \in free /\ k \in k..Len(conditions[o]) /\ conditions[o][k][1] \in free
    BY <1>1 DEF AsksInOrder
  <2>2. CASE j = k
    BY <1>1, <2>1, <2>2
  <2>3. CASE j # k
    <3>1. k < j
      BY <1>1, <2>3
    <3>2. conditions[o][k][1] < conditions[o][j][1]
      BY <2>1, <3>1 DEF AsksInOrder
    <3>3. conditions[o][k][1] >= x
      BY <2>1
    <3>4. conditions[o][k][1] \in Int /\ conditions[o][j][1] \in Int
      BY <2>1
    <3>5. conditions[o][j][1] # x
      BY <3>2, <3>3, <3>4
    <3>6. QED
      BY <2>1, <3>5
  <2>4. QED
    BY <2>2, <2>3
<1>3. QED
  BY <1>2 DEF AsksInOrder

\* A condition on the variable is the first one that remains, and the others go
\* on behind it.
LEMMA MeetsVariable ==
    ASSUME NEW conditions, NEW o \in DOMAIN conditions, Len(conditions[o]) \in Nat, NEW k \in Nat \ {0},
           NEW free \in SUBSET Int, NEW x \in Int, AsksInOrder(conditions, o, k, free),
           k <= Len(conditions[o]), conditions[o][k][1] = x
    PROVE  AsksInOrder(conditions, o, k + 1, free \ {x})
<1>1. Len(conditions[o]) \in Nat /\ k \in k..Len(conditions[o])
  OBVIOUS
<1>2. \A j \in (k + 1)..Len(conditions[o]) : j \in k..Len(conditions[o]) /\ k < j
  OBVIOUS
<1>3. ASSUME NEW j \in (k + 1)..Len(conditions[o])
      PROVE  conditions[o][j][1] \in free \ {x}
  <2>1. conditions[o][k][1] < conditions[o][j][1] /\ conditions[o][j][1] \in free
    BY <1>1, <1>2 DEF AsksInOrder
  <2>2. conditions[o][j][1] \in Int
    BY <2>1
  <2>3. conditions[o][j][1] # x
    BY <2>1, <2>2
  <2>4. QED
    BY <2>1, <2>3
<1>4. \A i, j \in (k + 1)..Len(conditions[o]) : i < j => conditions[o][i][1] < conditions[o][j][1]
  BY <1>2 DEF AsksInOrder
<1>5. QED
  BY <1>3, <1>4 DEF AsksInOrder

\* A list of operators in parts: those that ask for nothing more, and those that
\* ask next for the value that x has, or for another variable.
Parts(conditions, value, x, ops, next, passed, immediate, chosen, other) ==
    /\ ToSet(immediate) = {o \in ToSet(ops) : next[o] > Len(conditions[o])}
    /\ ToSet(chosen) = {o \in ToSet(ops) : /\ next[o] <= Len(conditions[o]) /\ conditions[o][next[o]][1] = x
                                           /\ conditions[o][next[o]][2] = value[x]}
    /\ ToSet(other) = {o \in ToSet(ops) : next[o] <= Len(conditions[o]) /\ conditions[o][next[o]][1] # x}
    /\ \A o \in ToSet(chosen) : passed[o] = next[o] + 1
    /\ \A o \in ToSet(other) : passed[o] = next[o]

\* Three sequences, one after the other.
Joined(s, t, u) == s \o t \o u

\* The operators that ask for nothing more, with those found under the value that
\* the variable has and those found in the default branch, are an answer.
LEMMA SwitchAnswers ==
    ASSUME NEW conditions, \A o \in DOMAIN conditions : Len(conditions[o]) \in Nat,
           NEW value, NEW free \in SUBSET Int, NEW x \in free, \A y \in free : y >= x,
           NEW ops \in Seq(DOMAIN conditions),
           NEW next \in [DOMAIN conditions -> Nat \ {0}],
           NEW passed, NEW immediate, NEW chosen, NEW other, NEW foundChosen, NEW foundOther,
           immediate \in Seq(DOMAIN conditions), IsInjective(immediate),
           Parts(conditions, value, x, ops, next, passed, immediate, chosen, other),
           Answers(conditions, value, free \ {x}, chosen, passed, foundChosen),
           Answers(conditions, value, free \ {x}, other, passed, foundOther)
    PROVE  Answers(conditions, value, free, ops, next, Joined(immediate, foundChosen, foundOther))
<1> DEFINE first == immediate \o foundChosen
           found == first \o foundOther
<1>1. /\ foundChosen \in Seq(DOMAIN conditions) /\ IsInjective(foundChosen) /\ ToSet(foundChosen) \subseteq ToSet(chosen)
      /\ foundOther \in Seq(DOMAIN conditions) /\ IsInjective(foundOther) /\ ToSet(foundOther) \subseteq ToSet(other)
  BY DEF Answers
<1>2. /\ \A o \in ToSet(chosen) : HoldsFrom(conditions, o, passed[o], value) => o \in ToSet(foundChosen)
      /\ \A o \in ToSet(foundChosen) :
            AsksInOrder(conditions, o, passed[o], free \ {x}) => HoldsFrom(conditions, o, passed[o], value)
      /\ \A o \in ToSet(other) : HoldsFrom(conditions, o, passed[o], value) => o \in ToSet(foundOther)
      /\ \A o \in ToSet(foundOther) :
            AsksInOrder(conditions, o, passed[o], free \ {x}) => HoldsFrom(conditions, o, passed[o], value)
  BY DEF Answers
<1>3. \A o \in ToSet(ops) : /\ o \in DOMAIN conditions /\ next[o] \in Nat \ {0} /\ Len(conditions[o]) \in Nat
  BY DEF ToSet
<1>p. /\ ToSet(immediate) = {o \in ToSet(ops) : next[o] > Len(conditions[o])}
      /\ ToSet(chosen) = {o \in ToSet(ops) : /\ next[o] <= Len(conditions[o]) /\ conditions[o][next[o]][1] = x
                                             /\ conditions[o][next[o]][2] = value[x]}
      /\ ToSet(other) = {o \in ToSet(ops) : next[o] <= Len(conditions[o]) /\ conditions[o][next[o]][1] # x}
      /\ \A o \in ToSet(chosen) : passed[o] = next[o] + 1
      /\ \A o \in ToSet(other) : passed[o] = next[o]
  BY DEF Parts
<1> USE <1>p
<1>4. ToSet(immediate) \cap ToSet(chosen) = {} /\ ToSet(immediate) \cap ToSet(other) = {} /\ ToSet(chosen) \cap ToSet(other) = {}
  BY <1>3
<1>5. first \in Seq(DOMAIN conditions) /\ ToSet(first) = ToSet(immediate) \cup ToSet(foundChosen)
  BY <1>1, ConcatHolds
<1>6. IsInjective(first)
  BY <1>1, <1>4, ConcatInjective, ZenonT(40)
<1>7. ToSet(first) \cap ToSet(foundOther) = {}
  BY <1>1, <1>4, <1>5
<1> HIDE DEF first
<1>8. /\ found \in Seq(DOMAIN conditions)
      /\ ToSet(found) = ToSet(immediate) \cup ToSet(foundChosen) \cup ToSet(foundOther)
  BY <1>1, <1>5, ConcatHolds
<1>9. IsInjective(found)
  BY <1>1, <1>5, <1>6, <1>7, ConcatInjective
<1> HIDE DEF found
<1>10. ToSet(found) \subseteq ToSet(ops)
  BY <1>1, <1>8
<1>11. ASSUME NEW o \in ToSet(ops), HoldsFrom(conditions, o, next[o], value)
       PROVE  o \in ToSet(found)
  <2>1. CASE next[o] > Len(conditions[o])
    BY <1>8, <2>1
  <2>2. CASE next[o] <= Len(conditions[o]) /\ conditions[o][next[o]][1] = x
    <3>1. next[o] \in next[o]..Len(conditions[o])
      BY <1>3, <2>2
    <3>2. conditions[o][next[o]][2] = value[x]
      BY <1>11, <2>2, <3>1 DEF HoldsFrom
    <3>3. o \in ToSet(chosen)
      BY <2>2, <3>2
    <3>4. HoldsFrom(conditions, o, next[o] + 1, value)
      <4>1. \A j \in (next[o] + 1)..Len(conditions[o]) : j \in next[o]..Len(conditions[o])
        BY <1>3
      <4>2. QED
        BY <1>11, <4>1 DEF HoldsFrom
    <3>5. QED
      BY <1>2, <1>8, <3>3, <3>4
  <2>3. CASE next[o] <= Len(conditions[o]) /\ conditions[o][next[o]][1] # x
    <3>1. o \in ToSet(other)
      BY <2>3
    <3>2. QED
      BY <1>2, <1>8, <1>11, <3>1
  <2>4. QED
    BY <1>3, <2>1, <2>2, <2>3
<1>12. ASSUME NEW o \in ToSet(found), AsksInOrder(conditions, o, next[o], free)
       PROVE  HoldsFrom(conditions, o, next[o], value)
  <2>1. o \in ToSet(ops)
    BY <1>10
  <2>2. /\ o \in DOMAIN conditions /\ next[o] \in Nat \ {0} /\ Len(conditions[o]) \in Nat
        /\ x \in Int
    BY <1>3, <2>1
  <2>3. CASE o \in ToSet(immediate)
    <3>1. next[o] > Len(conditions[o])
      BY <2>3
    <3>2. QED
      BY <2>2, <3>1 DEF HoldsFrom
  <2>4. CASE o \in ToSet(foundChosen)
    <3>1. /\ o \in ToSet(chosen) /\ passed[o] = next[o] + 1
          /\ next[o] <= Len(conditions[o]) /\ conditions[o][next[o]][1] = x
          /\ conditions[o][next[o]][2] = value[x]
      BY <1>1, <2>4
    <3>2. AsksInOrder(conditions, o, next[o] + 1, free \ {x})
      BY <1>12, <2>2, <3>1, MeetsVariable
    <3>3. HoldsFrom(conditions, o, next[o] + 1, value)
      BY <1>2, <2>4, <3>1, <3>2
    <3>4. \A j \in next[o]..Len(conditions[o]) : j = next[o] \/ j \in (next[o] + 1)..Len(conditions[o])
      BY <2>2
    <3>5. QED
      BY <3>1, <3>3, <3>4 DEF HoldsFrom
  <2>5. CASE o \in ToSet(foundOther)
    <3>1. o \in ToSet(other) /\ passed[o] = next[o] /\ conditions[o][next[o]][1] # x
      BY <1>1, <2>5
    <3>2. AsksInOrder(conditions, o, next[o], free \ {x})
      BY <1>12, <2>2, <3>1, PassesVariable
    <3>3. QED
      BY <1>2, <2>5, <3>1, <3>2
  <2>6. QED
    BY <1>8, <2>3, <2>4, <2>5
<1>13. Answers(conditions, value, free, ops, next, found)
  BY <1>8, <1>9, <1>10, <1>11, <1>12 DEF Answers
<1>14. QED
  BY <1>13 DEF found, first, Joined

\* The positions of s that hold elements of P, and a sequence of these elements.
Selects(N, s, P) == \A i : i \in N <=> i \in DOMAIN s /\ s[i] \in P
\* u lists, without repetition, the elements of s that are in P.
Filters(u, s, P, T) == u \in Seq(T) /\ IsInjective(u) /\ ToSet(u) = {y \in ToSet(s) : y \in P}

\* What OnlyAt leaves of a sequence without repetition.
LEMMA OnlyAtFilters ==
    ASSUME NEW T, NEW s \in Seq(T), IsInjective(s), NEW P, NEW N, Selects(N, s, P)
    PROVE  Filters(OnlyAt(s, N), s, P, T)
<1>1. OnlyAt(s, N) \in Seq(T) /\ IsInjective(OnlyAt(s, N))
  BY OnlyAtIs, OnlyAtInjective
<1>2. ToSet(OnlyAt(s, N)) = {s[i] : i \in {j \in DOMAIN s : j \in N}}
  BY OnlyAtIs
<1>3. {s[i] : i \in {j \in DOMAIN s : j \in N}} = {y \in ToSet(s) : y \in P}
  BY DEF ToSet, Selects
<1>4. QED
  BY <1>1, <1>2, <1>3 DEF Filters

\* A variable that the decision tree can switch on.
CanSwitch(variables, x) == variables[x].functional = FALSE /\ variables[x].module = FALSE

\* The variables among the last n that can be switched on.
Free(variables, order, n) ==
    {x \in {order[i] : i \in (Len(order) - n + 1)..Len(order)} : CanSwitch(variables, x)}

\* Conditions on variables, an order of some of these, and values that they have.
Asked(variables, conditions, order, value) ==
    LET V == DOMAIN variables
    IN  /\ variables \in Seq(VariableSet)
        /\ conditions \in Seq(Conditions(V))
        /\ order \in Seq(V) /\ Len(order) <= Len(value)
        /\ \A i, j \in DOMAIN order : i < j => order[i] < order[j]
        /\ value \in Seq(Int) /\ Len(value) = Len(variables)
        /\ \A x \in V : CanSwitch(variables, x) => value[x] \in 0..(variables[x].range - 1)

\* A leaf yields its operators.
LEMMA LeafYields ==
    ASSUME NEW trees, NEW depth \in Nat, Grows(trees, depth), NEW found, NEW value, Looks(found, trees, value, depth),
           NEW d \in 0..depth, NEW ops \in Seq(Nat)
    PROVE  GeneratorLeaf(ops) \in trees[d] /\ found[d][GeneratorLeaf(ops)] = ops
<1>1. GeneratorLeaf(ops) \in Leaves /\ GeneratorLeaf(ops).ops = ops /\ GeneratorLeaf(ops).switch = 0
  BY DEF GeneratorLeaf, Leaves
<1>2. CASE d = 0
  BY <1>1, <1>2 DEF Grows, Looks
<1>3. CASE d # 0
  <2>1. d \in 1..depth
    BY <1>3
  <2>2. GeneratorLeaf(ops) \in trees[d]
    BY <1>1, <2>1 DEF Grows
  <2>3. QED
    BY <1>1, <2>1, <2>2 DEF Looks
<1>4. QED
  BY <1>2, <1>3

\* The switch is a tree, and yields these operators.
Yields(trees, found, value, d, ops, x, forValue, default) ==
    LET h == [switch |-> x, ops |-> ops, forValue |-> forValue, default |-> <<default>>]
    IN  /\ h \in trees[d]
        /\ found[d][h] = Joined(ops, found[d - 1][forValue[value[x] + 1]], found[d - 1][default])

\* A switch yields its own operators, those of the branch for the value that its
\* variable has, and those of its default branch.
LEMMA SwitchYields ==
    ASSUME NEW trees, NEW found, NEW value, Len(value) \in Nat,
           Grows(trees, Len(value)), Looks(found, trees, value, Len(value)),
           NEW d \in 1..Len(value), NEW ops \in Seq(Nat), NEW x \in Nat \ {0},
           NEW forValue \in Seq(trees[d - 1]), NEW default \in trees[d - 1]
    PROVE  Yields(trees, found, value, d, ops, x, forValue, default)
<1> DEFINE h == [switch |-> x, ops |-> ops, forValue |-> forValue, default |-> <<default>>]
<1>1. <<default>> \in Seq(trees[d - 1]) /\ <<default>>[1] = default
  BY ShortSequences
<1>2. h \in Switches(trees[d - 1])
  BY <1>1 DEF Switches
<1>3. h \in trees[d]
  BY <1>2 DEF Grows
<1>4. h.switch = x /\ h.switch # 0 /\ h.ops = ops /\ h.forValue = forValue /\ h.default[1] = default
  BY <1>1
<1>5. found[d][h] = IF h.switch = 0 THEN h.ops
                    ELSE h.ops \o found[d - 1][h.forValue[value[h.switch] + 1]] \o found[d - 1][h.default[1]]
  BY <1>3 DEF Looks
<1>6. QED
  BY <1>3, <1>4, <1>5 DEF Joined, Yields

\* x is the next one of the last n variables.
Nearer(V, variables, order, n, x) ==
    /\ x \in V
    /\ Free(variables, order, n) \in SUBSET V
    /\ \A y \in Free(variables, order, n) : y >= x
    /\ Free(variables, order, n - 1) = Free(variables, order, n) \ {x}
    /\ CanSwitch(variables, x) => x \in Free(variables, order, n)

\* The variables after the next one are those that are left but the next.
LEMMA NextFree ==
    ASSUME NEW V \in SUBSET Int, NEW variables, NEW order \in Seq(V), NEW n \in 1..Len(order),
           \A i, j \in DOMAIN order : i < j => order[i] < order[j]
    PROVE  Nearer(V, variables, order, n, order[Len(order) - n + 1])
<1> DEFINE N == Len(order)
           k == N - n + 1
           x == order[k]
<1>1. N \in Nat /\ DOMAIN order = 1..N /\ \A i \in 1..N : order[i] \in V
  OBVIOUS
<1>2. k \in 1..N /\ N - (n - 1) + 1 = k + 1
  BY <1>1
<1>3. \A i \in k..N : i \in 1..N /\ (i = k \/ (i \in (k + 1)..N /\ k < i))
  BY <1>1, <1>2
<1>4. \A i \in (k + 1)..N : i \in k..N /\ k < i
  BY <1>1, <1>2
<1>5. k \in k..N
  BY <1>1, <1>2
<1>6. /\ Free(variables, order, n) = {y \in {order[i] : i \in k..N} : CanSwitch(variables, y)}
      /\ Free(variables, order, n - 1) = {y \in {order[i] : i \in (k + 1)..N} : CanSwitch(variables, y)}
  BY <1>2 DEF Free
<1>7. x = order[k]
  OBVIOUS
<1> HIDE DEF x, k, N
<1>8. \A i \in (k + 1)..N : x < order[i] /\ order[i] # x
  <2> TAKE i \in (k + 1)..N
  <2>1. k \in DOMAIN order /\ i \in DOMAIN order /\ k < i
    BY <1>1, <1>2, <1>3, <1>4
  <2>2. order[k] < order[i] /\ order[k] \in Int /\ order[i] \in Int
    BY <1>1, <2>1
  <2>3. QED
    BY <1>7, <2>2
<1>9. x \in V /\ x \in Int
  BY <1>1, <1>2, <1>7
<1>10. \A y \in Free(variables, order, n) : y \in V /\ y >= x
  <2> SUFFICES ASSUME NEW i \in k..N
               PROVE  order[i] \in V /\ order[i] >= x
    BY <1>6
  <2>1. order[i] \in V /\ order[i] \in Int
    BY <1>1, <1>3
  <2>2. i = k \/ x < order[i]
    BY <1>3, <1>8
  <2>3. QED
    BY <1>7, <1>9, <2>1, <2>2
<1>11. Free(variables, order, n - 1) = Free(variables, order, n) \ {x}
  <2>1. ASSUME NEW y \in Free(variables, order, n - 1)
        PROVE  y \in Free(variables, order, n) \ {x}
    BY <1>4, <1>6, <1>8
  <2>2. ASSUME NEW y \in Free(variables, order, n) \ {x}
        PROVE  y \in Free(variables, order, n - 1)
    <3>1. PICK i \in k..N : y = order[i]
      BY <1>6
    <3>2. i \in (k + 1)..N
      BY <1>3, <1>7, <3>1
    <3>3. QED
      BY <1>6, <3>1, <3>2
  <2>3. QED
    BY <2>1, <2>2
<1>12. CanSwitch(variables, x) => x \in Free(variables, order, n)
  BY <1>5, <1>6, <1>7
<1>13. Nearer(V, variables, order, n, x)
  BY <1>9, <1>10, <1>11, <1>12 DEF Nearer
<1>14. QED
  BY <1>13 DEF x, k, N

\* With n variables left, whatever the list of operators and the conditions that
\* were looked at, the tree yields an answer.
Finds(construct, variables, conditions, order, value, trees, found, n) ==
    \A d \in n..Len(value) : \A p \in Arguments(conditions) :
        IsInjective(p[1]) =>
            /\ construct[n][p] \in trees[d]
            /\ Answers(conditions, value, Free(variables, order, n), p[1], p[2], found[d][construct[n][p]])

\* One variable more.
LEMMA StepFinds ==
    ASSUME NEW variables, NEW conditions, NEW order, NEW value, Asked(variables, conditions, order, value),
           NEW construct, Constructs(construct, variables, conditions, order),
           NEW trees, Grows(trees, Len(value)),
           NEW found, Looks(found, trees, value, Len(value)),
           NEW n \in 1..Len(order),
           Finds(construct, variables, conditions, order, value, trees, found, n - 1)
    PROVE  Finds(construct, variables, conditions, order, value, trees, found, n)
<1> DEFINE V == DOMAIN variables
           D == Len(value)
           Ops == DOMAIN conditions
<1>1. /\ variables \in Seq(VariableSet) /\ conditions \in Seq(Conditions(V))
      /\ order \in Seq(V) /\ Len(order) <= D /\ D \in Nat /\ Len(order) \in Nat
      /\ \A i, j \in DOMAIN order : i < j => order[i] < order[j]
      /\ value \in Seq(Int) /\ V \in SUBSET (Nat \ {0}) /\ Ops \in SUBSET Nat
      /\ \A x \in V : CanSwitch(variables, x) => value[x] \in 0..(variables[x].range - 1)
  BY SMTT(30) DEF Asked
<1>2. \A o \in Ops : conditions[o] \in Seq(V \X Int) /\ Len(conditions[o]) \in Nat
  BY <1>1 DEF Conditions
<1> SUFFICES ASSUME NEW d \in n..D, NEW p \in Arguments(conditions), IsInjective(p[1])
             PROVE  /\ construct[n][p] \in trees[d]
                    /\ Answers(conditions, value, Free(variables, order, n), p[1], p[2], found[d][construct[n][p]])
  BY DEF Finds
<1> DEFINE ops == p[1]
           next == p[2]
           x == order[Len(order) - n + 1]
           below == construct[n - 1]
           free == Free(variables, order, n)
           done(o) == next[o] > Len(conditions[o])
           on(o) == ~done(o) /\ conditions[o][next[o]][1] = x
           immediate == OnlyAt(ops, {i \in DOMAIN ops : done(ops[i])})
           other == OnlyAt(ops, {i \in DOMAIN ops : ~done(ops[i]) /\ ~on(ops[i])})
           forValue(v) == OnlyAt(ops, {i \in DOMAIN ops : on(ops[i]) /\ conditions[ops[i]][next[ops[i]]][2] = v})
           passed == [o \in DOMAIN next |-> IF on(o) THEN next[o] + 1 ELSE next[o]]
           branches == [i \in 1..variables[x].range |-> below[<<forValue(i - 1), passed>>]]
           switch == [switch |-> x, ops |-> immediate, forValue |-> branches, default |-> <<below[<<other, passed>>]>>]
<1>3. ops \in Seq(Ops) /\ IsInjective(ops) /\ next \in [Ops -> Nat \ {0}] /\ p = <<ops, next>>
  BY DEF Arguments
<1>4. construct[n][p] = IF ops = <<>> THEN GeneratorLeaf(ops)
                        ELSE GeneratorSwitch(variables, conditions, x, ops, next, below)
  BY DEF Constructs
<1>5. GeneratorSwitch(variables, conditions, x, ops, next, below)
        = IF variables[x].functional \/ variables[x].module \/ other = ops THEN below[<<ops, next>>]
          ELSE IF immediate = ops THEN GeneratorLeaf(ops)
          ELSE switch
  BY Zenon DEF GeneratorSwitch
<1> HIDE DEF ops, next, below
<1>6. /\ immediate \in Seq(Ops) /\ IsInjective(immediate)
      /\ ToSet(immediate) = {o \in ToSet(ops) : done(o)}
  <2> DEFINE P == {o \in Ops : done(o)}
             M == {i \in DOMAIN ops : done(ops[i])}
  <2>1. Selects(M, ops, P)
    BY <1>3 DEF Selects
  <2>2. {y \in ToSet(ops) : y \in P} = {o \in ToSet(ops) : done(o)}
    BY <1>3 DEF ToSet
  <2> HIDE DEF P, M, done
  <2>3. Filters(OnlyAt(ops, M), ops, P, Ops)
    BY <1>3, <2>1, OnlyAtFilters
  <2>4. QED
    BY <2>2, <2>3 DEF M, Filters
<1>7. /\ other \in Seq(Ops) /\ IsInjective(other)
      /\ ToSet(other) = {o \in ToSet(ops) : ~done(o) /\ ~on(o)}
  <2> DEFINE P == {o \in Ops : ~done(o) /\ ~on(o)}
             M == {i \in DOMAIN ops : ~done(ops[i]) /\ ~on(ops[i])}
  <2>1. Selects(M, ops, P)
    <3> HIDE DEF done, on
    <3>1. QED
      BY <1>3 DEF Selects
  <2>2. {y \in ToSet(ops) : y \in P} = {o \in ToSet(ops) : ~done(o) /\ ~on(o)}
    <3> HIDE DEF done, on
    <3>1. QED
      BY <1>3 DEF ToSet
  <2> HIDE DEF P, M, done, on
  <2>3. Filters(OnlyAt(ops, M), ops, P, Ops)
    BY <1>3, <2>1, OnlyAtFilters
  <2>4. QED
    BY <2>2, <2>3 DEF M, Filters
<1>8. ASSUME NEW v
      PROVE  /\ forValue(v) \in Seq(Ops) /\ IsInjective(forValue(v))
             /\ ToSet(forValue(v)) = {o \in ToSet(ops) : on(o) /\ conditions[o][next[o]][2] = v}
  <2> DEFINE is(o) == on(o) /\ conditions[o][next[o]][2] = v
             P == {o \in Ops : is(o)}
             M == {i \in DOMAIN ops : is(ops[i])}
  <2>1. Selects(M, ops, P)
    <3> HIDE DEF is
    <3>1. QED
      BY <1>3 DEF Selects
  <2>2. {y \in ToSet(ops) : y \in P} = {o \in ToSet(ops) : is(o)}
    <3> HIDE DEF is
    <3>1. QED
      BY <1>3 DEF ToSet
  <2>3. Filters(OnlyAt(ops, M), ops, P, Ops)
    <3> HIDE DEF P, M
    <3>1. QED
      BY <1>3, <2>1, OnlyAtFilters
  <2> HIDE DEF P
  <2>4. forValue(v) = OnlyAt(ops, M)
    OBVIOUS
  <2> HIDE DEF M, is, forValue
  <2>5. forValue(v) \in Seq(Ops) /\ IsInjective(forValue(v)) /\ ToSet(forValue(v)) = {o \in ToSet(ops) : is(o)}
    BY <2>2, <2>3, <2>4 DEF Filters
  <2>6. QED
    BY <2>5 DEF is
<1>9. passed \in [Ops -> Nat \ {0}]
  BY <1>3
<1>10. /\ x \in V /\ free \in SUBSET V /\ \A y \in free : y >= x
       /\ Free(variables, order, n - 1) = free \ {x}
       /\ CanSwitch(variables, x) => x \in free
  <2>1. V \in SUBSET Int
    BY <1>1
  <2>2. /\ order \in Seq(V) /\ n \in 1..Len(order)
        /\ \A i, j \in DOMAIN order : i < j => order[i] < order[j]
    BY <1>1
  <2> HIDE DEF V
  <2>3. Nearer(V, variables, order, n, order[Len(order) - n + 1])
    BY <2>1, <2>2, NextFree
  <2>4. QED
    BY <2>3 DEF Nearer
<1>11. variables[x] \in VariableSet
  <2>1. x \in V /\ variables \in Seq(VariableSet)
    BY <1>1, <1>10
  <2> HIDE DEF x
  <2>2. QED
    BY <2>1
<1>12. variables[x].functional \in BOOLEAN /\ variables[x].module \in BOOLEAN /\ variables[x].range \in Int
  BY <1>11 DEF VariableSet
<1> HIDE DEF x, free, V, Ops, D
<1>13. ASSUME NEW e \in (n - 1)..D, NEW list \in Seq(Ops), IsInjective(list), NEW positions \in [Ops -> Nat \ {0}]
       PROVE  /\ below[<<list, positions>>] \in trees[e]
              /\ Answers(conditions, value, free \ {x}, list, positions, found[e][below[<<list, positions>>]])
  <2>1. <<list, positions>> \in Arguments(conditions) /\ <<list, positions>>[1] = list /\ <<list, positions>>[2] = positions
    BY <1>13 DEF Arguments, Ops
  <2>2. below[<<list, positions>>] \in trees[e]
    BY <1>13, <2>1 DEF Finds, below, D
  <2>3. Answers(conditions, value, free \ {x}, list, positions, found[e][below[<<list, positions>>]])
    BY <1>10, <1>13, <2>1 DEF Finds, below, D
  <2>4. QED
    BY <2>2, <2>3
<1>14. d \in 0..D /\ d \in (n - 1)..D /\ d \in 1..D /\ d - 1 \in (n - 1)..D /\ n \in Nat
  BY <1>1 DEF D
<1> DEFINE h == construct[n][p]
<1>15. ASSUME NEW list \in Seq(Ops)
       PROVE  GeneratorLeaf(list) \in trees[d] /\ found[d][GeneratorLeaf(list)] = list
  <2>1. list \in Seq(Nat)
    BY <1>1 DEF Ops
  <2>2. D \in Nat
    BY <1>1 DEF D
  <2>3. QED
    BY <1>14, <2>1, <2>2, LeafYields DEF D
<1>16. ASSUME h = GeneratorLeaf(ops), \A o \in ToSet(ops) : done(o)
       PROVE  h \in trees[d] /\ Answers(conditions, value, free, ops, next, found[d][h])
  <2>1. h \in trees[d] /\ found[d][h] = ops
    BY <1>3, <1>15, <1>16
  <2>2. Answers(conditions, value, free, ops, next, ops)
    BY <1>2, <1>3, <1>16, LeafAnswers DEF Ops
  <2>3. QED
    BY <2>1, <2>2
<1>17. ASSUME h = below[<<ops, next>>], variables[x].functional \/ variables[x].module \/ other = ops
       PROVE  h \in trees[d] /\ Answers(conditions, value, free, ops, next, found[d][h])
  <2>1. h \in trees[d] /\ Answers(conditions, value, free \ {x}, ops, next, found[d][h])
    BY <1>3, <1>13, <1>14, <1>17
  <2>2. ASSUME NEW o \in ToSet(ops), AsksInOrder(conditions, o, next[o], free)
        PROVE  AsksInOrder(conditions, o, next[o], free \ {x})
    <3>1. o \in Ops /\ next[o] \in Nat \ {0}
      BY <1>3 DEF ToSet
    <3>2. CASE variables[x].functional \/ variables[x].module
      <4>1. ~CanSwitch(variables, x)
        BY <1>12, <3>2 DEF CanSwitch
      <4>2. x \notin free
        BY <4>1 DEF free, Free
      <4>3. free \ {x} = free
        BY <4>2
      <4>4. QED
        BY <2>2, <4>3
    <3>3. CASE other = ops
      <4>1. ~done(o) /\ ~on(o)
        BY <1>7, <3>3
      <4>2. conditions[o][next[o]][1] # x
        BY <4>1
      <4>3. o \in DOMAIN conditions /\ Len(conditions[o]) \in Nat
        BY <1>2, <3>1 DEF Ops
      <4>4. free \in SUBSET Int /\ x \in Int /\ \A y \in free : y >= x
        BY <1>1, <1>10
      <4>5. QED
        BY <2>2, <3>1, <4>2, <4>3, <4>4, PassesVariable
    <3>4. QED
      BY <1>17, <3>2, <3>3
  <2>3. QED
    BY <2>1, <2>2 DEF Answers
<1>18. ASSUME h = switch, ~variables[x].functional, ~variables[x].module
       PROVE  h \in trees[d] /\ Answers(conditions, value, free, ops, next, found[d][h])
  <2>1. CanSwitch(variables, x)
    BY <1>12, <1>18 DEF CanSwitch
  <2>2. value[x] \in 0..(variables[x].range - 1) /\ x \in free /\ x \in Nat \ {0}
    BY <1>1, <1>10, <2>1
  <2>3. variables[x].range \in Nat /\ value[x] + 1 \in 1..variables[x].range /\ value[x] + 1 - 1 = value[x]
    BY <1>12, <2>2, SMTT(30)
  <2> DEFINE chosen == forValue(value[x])
             default == below[<<other, passed>>]
             rest == d - 1
  <2>4. rest \in (n - 1)..D
    BY <1>14
  <2> HIDE DEF rest
  <2>5. ASSUME NEW v
        PROVE  below[<<forValue(v), passed>>] \in trees[rest]
    BY <1>8, <1>9, <1>13, <2>4, Zenon
  <2>6. Answers(conditions, value, free \ {x}, chosen, passed, found[rest][below[<<chosen, passed>>]])
    BY <1>8, <1>9, <1>13, <2>4, ZenonT(40)
  <2>7. default \in trees[rest] /\ Answers(conditions, value, free \ {x}, other, passed, found[rest][default])
    BY <1>7, <1>9, <1>13, <2>4
  <2>8. /\ \A o \in ToSet(chosen) : passed[o] = next[o] + 1
        /\ \A o \in ToSet(other) : passed[o] = next[o]
    <3>1. \A o \in ToSet(ops) : o \in DOMAIN next
      BY <1>3 DEF ToSet
    <3>a. /\ ToSet(chosen) = {o \in ToSet(ops) : on(o) /\ conditions[o][next[o]][2] = value[x]}
          /\ ToSet(other) = {o \in ToSet(ops) : ~done(o) /\ ~on(o)}
      BY <1>7, <1>8
    <3>2. (\A o \in ToSet(chosen) : o \in ToSet(ops) /\ on(o)) /\ (\A o \in ToSet(other) : o \in ToSet(ops) /\ ~on(o))
      <4> HIDE DEF chosen, other, on, done
      <4>1. QED
        BY <3>a
    <3> HIDE DEF chosen, other, on
    <3>3. QED
      BY <3>1, <3>2
  <2>9. branches \in Seq(trees[rest]) /\ branches[value[x] + 1] = below[<<chosen, passed>>]
    <3> HIDE DEF passed, forValue
    <3>1. \A i \in 1..variables[x].range : branches[i] \in trees[rest]
      BY <2>5
    <3>2. branches \in [1..variables[x].range -> trees[rest]]
      BY <3>1
    <3>3. branches \in Seq(trees[rest])
      <4> HIDE DEF branches
      <4>1. QED
        BY <2>3, <3>2
    <3> DEFINE k == value[x] + 1
    <3>4. k \in 1..variables[x].range /\ k - 1 = value[x]
      BY <1>12, <2>2
    <3>5. branches[k] = below[<<forValue(k - 1), passed>>]
      <4> HIDE DEF k
      <4>1. QED
        BY <3>4
    <3> HIDE DEF branches, k
    <3>6. branches[k] = below[<<chosen, passed>>]
      BY <3>4, <3>5
    <3>7. QED
      BY <3>3, <3>6 DEF k
  <2>10. immediate \in Seq(Nat)
    BY <1>1, <1>6 DEF Ops
  <2>11. ToSet(immediate) = {o \in ToSet(ops) : next[o] > Len(conditions[o])}
    BY <1>6
  <2>12. \A o \in ToSet(ops) : next[o] \in Nat /\ Len(conditions[o]) \in Nat
    BY <1>2, <1>3 DEF ToSet
  <2>13. ToSet(chosen) = {o \in ToSet(ops) : /\ next[o] <= Len(conditions[o]) /\ conditions[o][next[o]][1] = x
                                             /\ conditions[o][next[o]][2] = value[x]}
    <3>1. ToSet(chosen) = {o \in ToSet(ops) : on(o) /\ conditions[o][next[o]][2] = value[x]}
      BY <1>8
    <3> HIDE DEF chosen
    <3>2. QED
      BY <2>12, <3>1
  <2>14. ToSet(other) = {o \in ToSet(ops) : next[o] <= Len(conditions[o]) /\ conditions[o][next[o]][1] # x}
    <3>1. ToSet(other) = {o \in ToSet(ops) : ~done(o) /\ ~on(o)}
      BY <1>7
    <3> HIDE DEF other
    <3>2. QED
      BY <2>12, <3>1
  <2>15. immediate \in Seq(Ops) /\ IsInjective(immediate)
    BY <1>6
  <2> HIDE DEF immediate, other, chosen, passed, forValue, branches, default, done, on
  <2>16. h = [switch |-> x, ops |-> immediate, forValue |-> branches, default |-> <<default>>]
    BY <1>18 DEF default
  <2> HIDE DEF h
  <2>17. /\ h \in trees[d]
         /\ found[d][h] = Joined(immediate, found[rest][below[<<chosen, passed>>]], found[rest][default])
    <3>1. d \in 1..D /\ D \in Nat
      BY <1>1, <1>14 DEF D
    <3>2. /\ h \in trees[d]
          /\ found[d][h] = Joined(immediate, found[rest][branches[value[x] + 1]], found[rest][default])
      <4>1. x \in Nat \ {0} /\ default \in trees[d - 1] /\ branches \in Seq(trees[d - 1])
        BY <2>2, <2>7, <2>9 DEF rest
      <4>2. d \in 1..Len(value) /\ Len(value) \in Nat
        BY <3>1 DEF D
      <4>3. Yields(trees, found, value, d, immediate, x, branches, default)
        BY <2>10, <4>1, <4>2, SwitchYields
      <4>4. QED
        BY <2>16, <4>3 DEF rest, Yields
    <3>3. QED
      BY <2>9, <3>2
  <2>18. Answers(conditions, value, free, ops, next,
                 Joined(immediate, found[rest][below[<<chosen, passed>>]], found[rest][default]))
    <3>1. free \in SUBSET Int /\ \A y \in free : y >= x
      BY <1>1, <1>10
    <3>2. \A o \in DOMAIN conditions : Len(conditions[o]) \in Nat
      BY <1>2 DEF Ops
    <3> DEFINE foundChosen == found[rest][below[<<chosen, passed>>]]
               foundOther == found[rest][default]
    <3>3. /\ Answers(conditions, value, free \ {x}, chosen, passed, foundChosen)
          /\ Answers(conditions, value, free \ {x}, other, passed, foundOther)
      BY <2>6, <2>7
    <3> HIDE DEF foundChosen, foundOther
    <3>4. Answers(conditions, value, free, ops, next, Joined(immediate, foundChosen, foundOther))
      <4>1. x \in free /\ ops \in Seq(DOMAIN conditions) /\ next \in [DOMAIN conditions -> Nat \ {0}]
            /\ immediate \in Seq(DOMAIN conditions) /\ IsInjective(immediate)
        BY <1>3, <2>2, <2>15 DEF Ops
      <4>2. Parts(conditions, value, x, ops, next, passed, immediate, chosen, other)
        BY <2>8, <2>11, <2>13, <2>14 DEF Parts
      <4>3. QED
        BY <3>1, <3>2, <3>3, <4>1, <4>2, SwitchAnswers
    <3>5. QED
      BY <3>4 DEF foundChosen, foundOther
  <2>19. QED
    BY <2>17, <2>18
<1>19. h \in trees[d] /\ Answers(conditions, value, free, ops, next, found[d][h])
  <2>1. CASE ops = <<>>
    <3>1. h = GeneratorLeaf(ops) /\ ToSet(ops) = {}
      BY <1>4, <2>1 DEF ToSet
    <3> HIDE DEF h, done
    <3>2. QED
      BY <1>16, <3>1
  <2>2. CASE ops # <<>>
    <3>1. h = IF variables[x].functional \/ variables[x].module \/ other = ops THEN below[<<ops, next>>]
              ELSE IF immediate = ops THEN GeneratorLeaf(ops)
              ELSE switch
      BY <1>4, <1>5, <2>2 DEF x
    <3> DEFINE skip == variables[x].functional \/ variables[x].module \/ other = ops
    <3> HIDE DEF h, switch, other
    <3>2. CASE skip
      BY <1>17, <3>1, <3>2
    <3>3. CASE ~skip /\ immediate = ops
      <4>1. \A o \in ToSet(ops) : done(o)
        BY <1>6, <3>3
      <4>2. QED
        BY <1>16, <3>1, <3>3, <4>1
    <3>4. CASE ~skip /\ immediate # ops
      BY <1>18, <3>1, <3>4
    <3>5. QED
      BY <3>2, <3>3, <3>4
  <2>3. QED
    BY <2>1, <2>2
<1>20. QED
  BY <1>19 DEF h, free, ops, next

\* No variable is left.
LEMMA BaseFinds ==
    ASSUME NEW variables, NEW conditions, NEW order, NEW value, Asked(variables, conditions, order, value),
           NEW construct, Constructs(construct, variables, conditions, order),
           NEW trees, Grows(trees, Len(value)),
           NEW found, Looks(found, trees, value, Len(value))
    PROVE  Finds(construct, variables, conditions, order, value, trees, found, 0)
<1> DEFINE Ops == DOMAIN conditions
<1>1. /\ Len(order) \in Nat /\ Len(value) \in Nat
      /\ Ops \in SUBSET Nat
      /\ \A o \in Ops : Len(conditions[o]) \in Nat
  BY DEF Asked, Conditions
<1> SUFFICES ASSUME NEW d \in 0..Len(value), NEW p \in Arguments(conditions), IsInjective(p[1])
             PROVE  /\ construct[0][p] \in trees[d]
                    /\ Answers(conditions, value, Free(variables, order, 0), p[1], p[2], found[d][construct[0][p]])
  BY DEF Finds
<1>2. p[1] \in Seq(Ops) /\ p[2] \in [Ops -> Nat \ {0}]
  BY DEF Arguments
<1>3. construct[0][p] = GeneratorLeaf(p[1])
  BY DEF Constructs
<1>4. p[1] \in Seq(Nat)
  BY <1>1, <1>2
<1>5. GeneratorLeaf(p[1]) \in trees[d] /\ found[d][GeneratorLeaf(p[1])] = p[1]
  BY <1>1, <1>4, LeafYields
<1>6. Free(variables, order, 0) = {}
  <2>1. (Len(order) - 0 + 1)..Len(order) = {}
    BY <1>1
  <2>2. QED
    BY <2>1 DEF Free
<1> DEFINE ops == p[1]
           next == p[2]
<1>7. \A o \in ToSet(ops) : AsksInOrder(conditions, o, next[o], {}) => next[o] > Len(conditions[o])
  <2> SUFFICES ASSUME NEW o \in ToSet(ops), AsksInOrder(conditions, o, next[o], {}), ~(next[o] > Len(conditions[o]))
               PROVE  FALSE
    OBVIOUS
  <2>1. next[o] \in Nat /\ Len(conditions[o]) \in Nat
    BY <1>1, <1>2 DEF ToSet
  <2>2. next[o] \in next[o]..Len(conditions[o])
    BY <2>1
  <2>3. QED
    BY <2>2 DEF AsksInOrder
<1> HIDE DEF ops, next
<1>8. Answers(conditions, value, {}, ops, next, ops)
  BY <1>1, <1>2, <1>7, LeafAnswers DEF ops, next
<1>9. QED
  BY <1>3, <1>5, <1>6, <1>8 DEF ops, next

\* Whatever the list of operators and the conditions that were looked at, the
\* tree that construct_recursive makes yields an answer.
LEMMA ConstructRecursiveFinds ==
    ASSUME NEW variables, NEW conditions, NEW order, NEW value, Asked(variables, conditions, order, value),
           NEW p \in Arguments(conditions), IsInjective(p[1])
    PROVE  Answers(conditions, value, Free(variables, order, Len(order)), p[1], p[2],
                   GenerateApplicableOps(ConstructRecursive(variables, conditions, order)[p], value))
<1> DEFINE N == Len(order)
           D == Len(value)
           trees == Generators(D)
<1>1. N \in Nat /\ D \in Nat /\ N <= D /\ value \in Seq(Int) /\ order \in Seq(DOMAIN variables)
  BY DEF Asked
<1>2. PICK construct : /\ Constructs(construct, variables, conditions, order)
                       /\ ConstructRecursive(variables, conditions, order) = construct[N]
  BY <1>1, ConstructRecursiveIs
<1>3. PICK found : /\ Looks(found, trees, value, D)
                   /\ \A g : GenerateApplicableOps(g, value) = found[D][g]
  BY <1>1, GenerateApplicableOpsIs
<1>4. Grows(trees, D)
  BY <1>1, GeneratorsGrow
<1> DEFINE Good == {n \in 0..N : Finds(construct, variables, conditions, order, value, trees, found, n)}
<1> HIDE DEF trees
<1>5. 0 \in Good
  <2>1. Finds(construct, variables, conditions, order, value, trees, found, 0)
    BY <1>2, <1>3, <1>4, BaseFinds
  <2>2. QED
    BY <1>1, <2>1
<1>6. ASSUME NEW n \in 0..(N - 1), n \in Good
      PROVE  n + 1 \in Good
  <2>1. n + 1 \in 1..N /\ n + 1 \in 0..N /\ (n + 1) - 1 = n
    BY <1>1
  <2> DEFINE m == n + 1
  <2>2. Finds(construct, variables, conditions, order, value, trees, found, m - 1)
    BY <1>6, <2>1
  <2>3. m \in 1..Len(order)
    BY <2>1
  <2> HIDE DEF m
  <2>4. Finds(construct, variables, conditions, order, value, trees, found, m)
    BY <1>2, <1>3, <1>4, <2>2, <2>3, StepFinds
  <2>5. QED
    BY <2>1, <2>4 DEF m
<1>7. N \in Good
  <2> HIDE DEF Good, N
  <2>1. \A k \in 0..N : k \in Good
    BY <1>1, <1>5, <1>6, UpTo
  <2>2. QED
    BY <1>1, <2>1
<1>8. D \in N..D
  BY <1>1
<1>9. Answers(conditions, value, Free(variables, order, N), p[1], p[2], found[D][construct[N][p]])
  <2>1. Finds(construct, variables, conditions, order, value, trees, found, N)
    BY <1>7
  <2>2. QED
    BY <1>8, <2>1 DEF Finds
<1>10. QED
  BY <1>2, <1>3, <1>9

\* Conditions are sorted by their variables, and no condition is lost.
LEMMA SortedIs ==
    ASSUME NEW V \in SUBSET Int, NEW conds \in Conditions(V)
    PROVE  /\ Sorted(conds) \in Conditions(V)
           /\ \E at : /\ Permutes(Sorted(conds), at, conds)
                      /\ \A j, k \in 1..Len(conds) : j < k => Sorted(conds)[j][1] <= Sorted(conds)[k][1]
<1> DEFINE n == Len(conds)
           less(a, b) == a[1] < b[1] \/ (a[1] = b[1] /\ a[2] < b[2])
           R == {p \in Positions(conds) : less(conds[p[1]], conds[p[2]])}
           u == Sorted(conds)
<1>1. /\ conds \in Seq(V \X Int) /\ n \in Nat /\ DOMAIN conds = 1..n
      /\ \A i \in 1..n : conds[i] \in V \X Int /\ conds[i][1] \in V /\ conds[i][1] \in Int /\ conds[i][2] \in Int
  <2>1. conds \in Seq(V \X Int)
    BY DEF Conditions
  <2>2. n \in Nat /\ DOMAIN conds = 1..n /\ \A i \in 1..n : conds[i] \in V \X Int
    BY <2>1
  <2>3. \A i \in 1..n : conds[i][1] \in V /\ conds[i][2] \in Int
    BY <2>2
  <2>4. QED
    BY <2>1, <2>2, <2>3
<1>2. \A i, j \in 1..n : <<i, j>> \in R <=> less(conds[i], conds[j])
  BY <1>1 DEF Positions
<1>3. Compares(R, n)
  <2> DEFINE a(i) == conds[i][1]
             b(i) == conds[i][2]
  <2>1. \A i \in 1..n : a(i) \in Int /\ b(i) \in Int
    BY <1>1
  <2>2. \A i, j \in 1..n : <<i, j>> \in R <=> a(i) < a(j) \/ (a(i) = a(j) /\ b(i) < b(j))
    BY <1>2
  <2> HIDE DEF a, b, R, n
  <2>3. QED
    BY <2>1, <2>2 DEF Compares
<1>4. u = InOrder(conds, R)
  BY Zenon DEF Sorted
<1> HIDE DEF R, u
<1>5. /\ u \in Seq(V \X Int)
      /\ \E at : /\ Permutes(u, at, conds)
                 /\ \A j, k \in 1..n : j < k => <<at[k], at[j]>> \notin R
  BY <1>1, <1>3, <1>4, InOrderSorts
<1>6. PICK at : /\ Permutes(u, at, conds)
                /\ \A j, k \in 1..n : j < k => <<at[k], at[j]>> \notin R
  BY <1>5
<1>7. ASSUME NEW j \in 1..n, NEW k \in 1..n, j < k
      PROVE  u[j][1] <= u[k][1]
  <2>1. at[j] \in 1..n /\ at[k] \in 1..n /\ u[j] = conds[at[j]] /\ u[k] = conds[at[k]]
    BY <1>6 DEF Permutes
  <2>2. ~less(conds[at[k]], conds[at[j]])
    BY <1>2, <1>6, <1>7, <2>1
  <2>3. conds[at[j]][1] \in Int /\ conds[at[k]][1] \in Int
    BY <1>1, <2>1
  <2>4. QED
    BY <2>1, <2>2, <2>3
<1>8. QED
  BY <1>5, <1>6, <1>7 DEF Conditions, u

\* The conditions at start of an operator.
LEMMA AtStartType ==
    ASSUME NEW V, NEW o \in OperatorSet(V)
    PROVE  AtStart(o) \in Conditions(V)
<1> DEFINE effects == o.start.prePost
           changes == OnlyAt(effects, {i \in DOMAIN effects : effects[i].pre # AnyValue})
           list == [i \in DOMAIN changes |-> <<changes[i].var, changes[i].pre>>]
<1>1. effects \in Seq(PrePostSet(V)) /\ o.prevail.start \in Conditions(V)
  BY DEF OperatorSet, EffectsSet, PrevailSet
<1>2. changes \in Seq(PrePostSet(V))
  <2> HIDE DEF effects
  <2>1. QED
    BY <1>1, OnlyAtIs
<1>3. list \in Seq(V \X Int)
  <2> HIDE DEF changes
  <2>1. \A i \in DOMAIN changes : changes[i].var \in V /\ changes[i].pre \in Int
    <3>1. \A i \in DOMAIN changes : changes[i] \in PrePostSet(V)
      BY <1>2
    <3>2. QED
      BY <3>1 DEF PrePostSet
  <2>2. \A i \in DOMAIN changes : <<changes[i].var, changes[i].pre>> \in V \X Int
    BY <2>1
  <2>3. DOMAIN changes = 1..Len(changes) /\ Len(changes) \in Nat
    BY <1>2
  <2>4. QED
    BY <2>2, <2>3
<1> HIDE DEF list
<1>4. o.prevail.start \o list \in Seq(V \X Int)
  BY <1>1, <1>3 DEF Conditions
<1>5. AtStart(o) = o.prevail.start \o list
  BY Zenon DEF AtStart, list
<1>6. QED
  BY <1>4, <1>5 DEF Conditions

\* These are what an operator is looked up by, in the order of their variables.
LEMMA StartConditionsAre ==
    ASSUME NEW V \in SUBSET Int, NEW o \in OperatorSet(V)
    PROVE  /\ StartConditions(o) \in Conditions(V)
           /\ \E at : /\ Permutes(StartConditions(o), at, AtStart(o))
                      /\ \A j, k \in 1..Len(AtStart(o)) :
                            j < k => StartConditions(o)[j][1] <= StartConditions(o)[k][1]
<1>1. StartConditions(o) = Sorted(AtStart(o))
  BY Zenon DEF StartConditions, AtStart
<1>2. QED
  BY <1>1, AtStartType, SortedIs

\* All conditions at start hold or none of them is open, whichever way they are listed.
LEMMA StartConditionsHold ==
    ASSUME NEW V \in SUBSET Int, NEW o \in OperatorSet(V), NEW value
    PROVE  (\A j \in 1..Len(StartConditions(o)) : value[StartConditions(o)[j][1]] = StartConditions(o)[j][2])
              <=> Holds(AtStart(o), value)
<1> DEFINE s == AtStart(o)
           u == StartConditions(o)
<1>1. s \in Conditions(V)
  BY AtStartType
<1>2. PICK at : Permutes(u, at, s)
  BY StartConditionsAre
<1> HIDE DEF s, u
<1>3. Len(u) = Len(s) /\ DOMAIN s = 1..Len(s)
  BY <1>1, <1>2 DEF Permutes, Conditions
<1>4. /\ \A k \in 1..Len(s) : at[k] \in 1..Len(s) /\ u[k] = s[at[k]]
      /\ \A i \in 1..Len(s) : \E k \in 1..Len(s) : at[k] = i
  BY <1>2 DEF Permutes
<1>5. ASSUME \A j \in 1..Len(u) : value[u[j][1]] = u[j][2], NEW i \in 1..Len(s)
      PROVE  value[s[i][1]] = s[i][2]
  <2>1. PICK k \in 1..Len(s) : at[k] = i
    BY <1>4, <1>5
  <2>2. u[k] = s[i] /\ k \in 1..Len(u)
    BY <1>3, <1>4, <2>1
  <2>3. QED
    BY <1>5, <2>2
<1>6. ASSUME \A i \in 1..Len(s) : value[s[i][1]] = s[i][2], NEW j \in 1..Len(u)
      PROVE  value[u[j][1]] = u[j][2]
  <2>1. j \in 1..Len(s) /\ at[j] \in 1..Len(s) /\ u[j] = s[at[j]]
    BY <1>3, <1>4
  <2>2. QED
    BY <1>6, <2>1
<1>7. Holds(s, value) <=> \A i \in 1..Len(s) : value[s[i][1]] = s[i][2]
  BY <1>3 DEF Holds, ToSet
<1>8. QED
  BY <1>5, <1>6, <1>7 DEF s, u

\* An operator that asks for variables that can be switched on, and for none
\* twice, asks for them in order.
LEMMA StartConditionsInOrder ==
    ASSUME NEW V \in SUBSET Int, NEW o \in OperatorSet(V), NEW conditions, NEW i, conditions[i] = StartConditions(o),
           NEW free, \A c \in ToSet(AtStart(o)) : c[1] \in free, IsInjective(VarsOf(AtStart(o)))
    PROVE  AsksInOrder(conditions, i, 1, free)
<1> DEFINE s == AtStart(o)
           u == StartConditions(o)
<1>1. s \in Conditions(V) /\ u \in Conditions(V)
  BY AtStartType, StartConditionsAre
<1>2. PICK at : /\ Permutes(u, at, s)
                /\ \A j, k \in 1..Len(s) : j < k => u[j][1] <= u[k][1]
  BY StartConditionsAre
<1> HIDE DEF s, u
<1>3. /\ Len(u) = Len(s) /\ DOMAIN s = 1..Len(s) /\ Len(s) \in Nat /\ s \in Seq(V \X Int) /\ u \in Seq(V \X Int)
  BY <1>1, <1>2 DEF Permutes, Conditions
<1>4. /\ \A k \in 1..Len(s) : at[k] \in 1..Len(s) /\ u[k] = s[at[k]]
      /\ \A j, k \in 1..Len(s) : at[j] = at[k] => j = k
  BY <1>2 DEF Permutes
<1>5. \A k \in 1..Len(s) : u[k][1] \in Int
  <2>1. \A k \in 1..Len(s) : u[k] \in V \X Int
    BY <1>3
  <2>2. QED
    BY <2>1
<1>6. \A j, k \in 1..Len(s) : s[j][1] = s[k][1] => j = k
  <2>1. DOMAIN VarsOf(s) = 1..Len(s) /\ \A k \in 1..Len(s) : VarsOf(s)[k] = s[k][1]
    BY <1>3 DEF VarsOf, VarOf
  <2>2. IsInjective(VarsOf(s))
    BY DEF s
  <2>3. QED
    BY <2>1, <2>2 DEF IsInjective
<1>7. ASSUME NEW j \in 1..Len(s), NEW k \in 1..Len(s), j < k
      PROVE  u[j][1] < u[k][1]
  <2>1. u[j][1] <= u[k][1] /\ u[j][1] \in Int /\ u[k][1] \in Int
    BY <1>2, <1>5, <1>7
  <2>2. j # k
    BY <1>3, <1>7
  <2>3. at[j] # at[k] /\ at[j] \in 1..Len(s) /\ at[k] \in 1..Len(s)
    BY <1>4, <2>2
  <2>4. u[j][1] # u[k][1]
    BY <1>4, <1>6, <2>3
  <2>5. QED
    BY <2>1, <2>4
<1>8. \A j \in 1..Len(s) : u[j][1] \in free
  <2> TAKE j \in 1..Len(s)
  <2>1. s[at[j]] \in ToSet(s) /\ u[j] = s[at[j]]
    BY <1>3, <1>4 DEF ToSet
  <2>2. QED
    BY <2>1 DEF s
<1>9. conditions[i] = u
  BY DEF u
<1>10. QED
  BY <1>3, <1>7, <1>8, <1>9 DEF AsksInOrder

\* The kept variables are in their order.
Increases(ord, L) ==
    /\ \A i, j \in DOMAIN ord : i < j => ord[i] < ord[j]
    /\ Len(ord) <= L

\* Leaving variables out keeps the others in order.
LEMMA OrderingIncreases ==
    ASSUME NEW t, TaskType(t), NEW W, NEW b
    PROVE  Increases(Ordering(t, W, b), Len(t.variables))
<1> DEFINE L == Len(t.variables)
           all == [v \in 1..L |-> v]
           N == {v \in DOMAIN t.variables : v \in W \/ ~b}
           u == OnlyAt(all, N)
<1>1. L \in Nat
  BY DEF TaskType
<1>2. all \in Seq(1..L) /\ Len(all) = L /\ \A i \in 1..L : all[i] = i
  BY <1>1
<1> HIDE DEF L, all, N
<1>3. u \in Seq(1..L) /\ Len(u) <= L
  BY <1>2, OnlyAtIs
<1>4. PICK at : Picks(u, at, all, N, L)
  BY <1>2, OnlyAtPicks
<1>5. \A j, k \in 1..Len(u) : j < k => u[j] < u[k]
  <2>1. /\ at \in [1..Len(u) -> 1..L]
        /\ \A j, k \in 1..Len(u) : j < k => at[j] < at[k]
        /\ \A k \in 1..Len(u) : u[k] = all[at[k]]
    BY <1>4 DEF Picks
  <2>2. \A k \in 1..Len(u) : u[k] = at[k]
    BY <1>2, <2>1
  <2>3. QED
    BY <2>1, <2>2
<1>6. DOMAIN u = 1..Len(u)
  BY <1>3
<1>7. Ordering(t, W, b) = u
  BY DEF Ordering, L, all, N
<1> HIDE DEF u
<1>8. QED
  BY <1>3, <1>5, <1>6, <1>7 DEF Increases, L

\* Besides, the variables that are kept stay in order, and the successor generator
\* is that of the stripped task.
GeneratorInv ==
    /\ PruningInv
    /\ stage # "read" => Increases(ordering, Len(task.variables))
    /\ stage \in {"generator", "written"} => generator = BuildGenerator(task, ordering)

\* Every phase of main() keeps the invariant.
LEMMA NextGeneratorInv == GeneratorInv /\ [Next]_vars => GeneratorInv'
<1> SUFFICES ASSUME GeneratorInv, [Next]_vars
             PROVE  GeneratorInv'
  OBVIOUS
<1>1. PruningInv /\ PruningInv' /\ TaskType(task)
  BY NextPruningInv DEF GeneratorInv, PruningInv
<1>2. CASE BuildCausalGraph
  <2>1. stage' = "causal graph" /\ task' = task /\ ordering' = Ordering(task, necessary', prune)
    BY <1>2 DEF BuildCausalGraph
  <2>2. Increases(ordering', Len(task.variables))
    BY <1>1, <2>1, OrderingIncreases
  <2>3. QED
    BY <1>1, <2>1, <2>2 DEF GeneratorInv
<1>3. CASE StripTask
  <2>1. stage = "causal graph" /\ stage' = "stripped" /\ task' = Strip(task, Level) /\ ordering' = ordering
    BY <1>3 DEF StripTask
  <2>2. task'.variables = task.variables
    BY <1>1, <2>1, StripIs
  <2>3. QED
    BY <1>1, <2>1, <2>2 DEF GeneratorInv
<1>4. CASE BuildTransitionGraphs
  BY <1>1, <1>4 DEF BuildTransitionGraphs, GeneratorInv
<1>5. CASE BuildSuccessorGenerator
  <2>1. /\ stage = "transition graphs" /\ stage' = "generator" /\ task' = task /\ ordering' = ordering
        /\ generator' = BuildGenerator(task, ordering)
    BY <1>5 DEF BuildSuccessorGenerator
  <2>2. QED
    BY <1>1, <2>1 DEF GeneratorInv
<1>6. CASE WriteOutput
  BY <1>1, <1>6 DEF WriteOutput, GeneratorInv
<1>7. CASE Abort
  BY <1>1, <1>7 DEF Abort, GeneratorInv
<1>8. CASE UNCHANGED vars
  BY <1>1, <1>8 DEF vars, GeneratorInv
<1>9. QED
  BY <1>2, <1>3, <1>4, <1>5, <1>6, <1>7, <1>8 DEF Next

\* The tree that was built for a task finds what can start in every state.
LEMMA GeneratorIsComplete ==
    ASSUME TaskType(task), ordering \in Seq(DOMAIN task.variables), Increases(ordering, Len(task.variables)),
           generator = BuildGenerator(task, ordering), NEW value \in Assignments
    PROVE  FindsApplicable(value)
<1> DEFINE V == DOMAIN task.variables
           M == Len(task.operators)
           conditions == [o \in DOMAIN task.operators |-> StartConditions(task.operators[o])]
           ops == [o \in 1..M |-> o]
           next == [o \in DOMAIN task.operators |-> 1]
           p == <<ops, next>>
           free == Free(task.variables, ordering, Len(ordering))
           found == GenerateApplicableOps(generator, value)
<1>1. /\ task.variables \in Seq(VariableSet) /\ task.operators \in Seq(OperatorSet(V))
      /\ M \in Nat /\ DOMAIN task.operators = 1..M /\ V = 1..Len(task.variables) /\ V \in SUBSET Int
      /\ \A i \in 1..M : task.operators[i] \in OperatorSet(V)
  <2>1. task.variables \in Seq(VariableSet) /\ task.operators \in Seq(OperatorSet(V))
    BY Zenon DEF TaskType
  <2>2. V = 1..Len(task.variables) /\ V \in SUBSET Int
    BY <2>1
  <2> HIDE DEF V
  <2>3. M \in Nat /\ DOMAIN task.operators = 1..M /\ \A i \in 1..M : task.operators[i] \in OperatorSet(V)
    BY <2>1
  <2>4. QED
    BY <2>1, <2>2, <2>3
<1>2. \A i \in 1..M : StartConditions(task.operators[i]) \in Conditions(V)
  <2> HIDE DEF V
  <2>1. QED
    BY <1>1, StartConditionsAre
<1>3. conditions \in Seq(Conditions(V)) /\ DOMAIN conditions = 1..M
  <2> HIDE DEF V, M
  <2>1. QED
    BY <1>1, <1>2
<1>4. Asked(task.variables, conditions, ordering, value)
  <2>1. value \in [V -> 0..1]
    BY DEF Assignments
  <2>2. value \in Seq(Int) /\ Len(value) = Len(task.variables)
    <3>1. Len(task.variables) \in Nat
      BY <1>1
    <3>2. value \in [1..Len(task.variables) -> 0..1]
      BY <1>1, <2>1
    <3>3. QED
      BY <3>1, <3>2
  <2>3. \A x \in V : CanSwitch(task.variables, x) => value[x] \in 0..(task.variables[x].range - 1)
    <3> SUFFICES ASSUME NEW x \in V, CanSwitch(task.variables, x)
                 PROVE  value[x] \in 0..(task.variables[x].range - 1)
      OBVIOUS
    <3>1. Switchable(x) /\ x \in DOMAIN value
      BY <2>1 DEF CanSwitch, Switchable
    <3>2. value[x] < task.variables[x].range
      BY <3>1 DEF Assignments
    <3>3. task.variables[x] \in VariableSet
      BY <1>1
    <3>4. task.variables[x].range \in Int /\ value[x] \in 0..1
      BY <2>1, <3>3 DEF VariableSet
    <3>5. QED
      BY <3>2, <3>4
  <2>4. Len(ordering) <= Len(value) /\ \A i, j \in DOMAIN ordering : i < j => ordering[i] < ordering[j]
    BY <2>2 DEF Increases
  <2> HIDE DEF conditions
  <2>5. QED
    BY <1>1, <1>3, <2>2, <2>3, <2>4 DEF Asked
<1> HIDE DEF conditions
<1>5. ops \in Seq(DOMAIN conditions) /\ IsInjective(ops) /\ ToSet(ops) = 1..M /\ next \in [DOMAIN conditions -> Nat \ {0}]
  <2>1. ops \in Seq(1..M) /\ DOMAIN ops = 1..M /\ \A i \in 1..M : ops[i] = i
    BY <1>1
  <2>2. next \in [1..M -> Nat \ {0}]
    BY <1>1
  <2> HIDE DEF ops, next, M
  <2>3. IsInjective(ops) /\ ToSet(ops) = 1..M
    BY <2>1 DEF IsInjective, ToSet
  <2>4. QED
    BY <1>3, <2>1, <2>2, <2>3
<1>6. generator = ConstructRecursive(task.variables, conditions, ordering)[p]
  BY Zenon DEF BuildGenerator, conditions
<1>7. \A i \in 1..M : next[i] = 1 /\ conditions[i] = StartConditions(task.operators[i])
  BY <1>1 DEF conditions
<1> HIDE DEF ops, next
<1>8. p \in Arguments(conditions) /\ p[1] = ops /\ p[2] = next
  BY <1>5 DEF Arguments
<1> HIDE DEF p
<1>9. Answers(conditions, value, free, ops, next, found)
  <2>1. Answers(conditions, value, free, p[1], p[2],
                GenerateApplicableOps(ConstructRecursive(task.variables, conditions, ordering)[p], value))
    BY <1>4, <1>5, <1>8, ConstructRecursiveFinds
  <2>2. QED
    BY <1>6, <1>8, <2>1
<1> HIDE DEF found
<1>10. /\ IsInjective(found) /\ ToSet(found) \subseteq 1..M
       /\ \A i \in 1..M : HoldsFrom(conditions, i, 1, value) => i \in ToSet(found)
       /\ \A i \in ToSet(found) : AsksInOrder(conditions, i, 1, free) => HoldsFrom(conditions, i, 1, value)
  BY <1>5, <1>7, <1>9 DEF Answers
<1>11. \A x \in V : Switchable(x) /\ x \in Kept => x \in free
  <2> TAKE x \in V
  <2>1. Switchable(x) => CanSwitch(task.variables, x)
    <3>1. task.variables[x] \in VariableSet
      BY <1>1
    <3>2. task.variables[x].functional \in BOOLEAN /\ task.variables[x].module \in BOOLEAN
      BY <3>1 DEF VariableSet
    <3>3. QED
      BY <3>2 DEF Switchable, CanSwitch
  <2>2. x \in Kept => x \in {ordering[i] : i \in (Len(ordering) - Len(ordering) + 1)..Len(ordering)}
    <3>1. DOMAIN ordering = 1..Len(ordering) /\ Len(ordering) \in Nat
      OBVIOUS
    <3>2. Len(ordering) - Len(ordering) + 1 = 1
      BY <3>1
    <3>3. QED
      BY <3>1, <3>2 DEF Kept, ToSet
  <2>3. QED
    BY <2>1, <2>2 DEF Free
<1> HIDE DEF free
<1>12. ASSUME NEW i \in 1..M
       PROVE  HoldsFrom(conditions, i, 1, value) <=> Holds(AtStart(task.operators[i]), value)
  <2> HIDE DEF V
  <2>1. task.operators[i] \in OperatorSet(V) /\ V \in SUBSET Int /\ conditions[i] = StartConditions(task.operators[i])
    BY <1>1, <1>7, <1>12
  <2>2. QED
    BY <2>1, StartConditionsHold, SMTT(30) DEF HoldsFrom
<1>13. ASSUME NEW i \in 1..M,
              \A c \in ToSet(AtStart(task.operators[i])) : Switchable(c[1]) /\ c[1] \in Kept,
              IsInjective(VarsOf(AtStart(task.operators[i])))
       PROVE  AsksInOrder(conditions, i, 1, free)
  <2>1. Kept \subseteq V
    BY DEF Kept, ToSet
  <2>2. \A c \in ToSet(AtStart(task.operators[i])) : c[1] \in free
    BY <1>11, <1>13, <2>1
  <2> HIDE DEF V
  <2>3. task.operators[i] \in OperatorSet(V) /\ V \in SUBSET Int /\ conditions[i] = StartConditions(task.operators[i])
    BY <1>1, <1>7, <1>13
  <2>4. QED
    BY <1>13, <2>2, <2>3, StartConditionsInOrder
<1>14. ASSUME NEW i \in DOMAIN task.operators
       PROVE  LET conds == AtStart(task.operators[i])
              IN  /\ Holds(conds, value) => i \in ToSet(found)
                  /\ /\ \A c \in ToSet(conds) : Switchable(c[1]) /\ c[1] \in Kept
                     /\ IsInjective(VarsOf(conds))
                     => (i \in ToSet(found) => Holds(conds, value))
  <2>1. i \in 1..M
    BY <1>1
  <2>2. QED
    BY <1>10, <1>12, <1>13, <2>1
<1>15. QED
  BY <1>10, <1>14 DEF FindsApplicable, found

\* In every task the decision tree finds the operators that can start, in every state.
THEOREM SpecGeneratorFindsApplicable == Spec => []GeneratorFindsApplicable
<1>1. Init => GeneratorInv
  <2>1. Init => stage = "read"
    BY DEF Init
  <2>2. QED
    BY <2>1, InitPruningInv DEF GeneratorInv
<1>2. GeneratorInv => GeneratorFindsApplicable
  <2> SUFFICES ASSUME GeneratorInv, stage \in {"generator", "written"}, NEW value \in Assignments
               PROVE  FindsApplicable(value)
    BY DEF GeneratorFindsApplicable
  <2>1. /\ TaskType(task) /\ ordering \in Seq(DOMAIN task.variables)
        /\ Increases(ordering, Len(task.variables)) /\ generator = BuildGenerator(task, ordering)
    BY DEF GeneratorInv, PruningInv
  <2>2. QED
    BY <2>1, GeneratorIsComplete
<1>3. QED
  BY <1>1, <1>2, NextGeneratorInv, PTL DEF Spec

----------------------------------------------------------------------------
(* The changes of a variable by an operator                                *)

\* The changes that build_DTGs collects from an operator.
ChangeSet(V) == [var : V, pre : Int, post : Int, type : {"s", "e"}]

\* x is not changed; it is changed from pre to post; that is its only change.
Unchanged(changes, x) == \A k \in DOMAIN changes : changes[k].var # x
Changed(changes, x, pre, post) ==
    \E k \in DOMAIN changes : changes[k].var = x /\ changes[k].pre = pre /\ changes[k].post = post
ChangedOnly(changes, x, pre, post) ==
    \A k \in DOMAIN changes : changes[k].var = x => changes[k].pre = pre /\ changes[k].post = post

\* u are the changes with the first one of e's variable extended to e, and others of that variable.
Extends(u, changes, e, first, tail) ==
    /\ first \in DOMAIN changes
    /\ changes[first].var = e.var
    /\ \A k \in DOMAIN tail : tail[k].var = e.var
    /\ u = [k \in DOMAIN changes |->
               IF k = first THEN [changes[k] EXCEPT !.post = e.post, !.type = "e"] ELSE changes[k]] \o tail

\* An effect at end is added, or extends a change that is there.
LEMMA CompressIs ==
    ASSUME NEW V, NEW t, NEW changes \in Seq(ChangeSet(V)), NEW e \in PrePostSet(V)
    PROVE  \/ /\ Unchanged(changes, e.var)
              /\ Compress(t, changes, e) = Append(changes, [var |-> e.var, pre |-> e.pre, post |-> e.post, type |-> "e"])
           \/ \E first, tail : /\ tail \in Seq(ChangeSet(V))
                               /\ Extends(Compress(t, changes, e), changes, e, first, tail)
<1> DEFINE same == {k \in DOMAIN changes : changes[k].var = e.var}
           first == CHOOSE k \in same : \A l \in same : k <= l
           between == changes[first].post
           added == [var |-> e.var, pre |-> changes[first].pre, post |-> between, type |-> "e"]
           tail == IF between < t.variables[e.var].range - 1 THEN <<added>> ELSE <<>>
<1>1. /\ DOMAIN changes = 1..Len(changes) /\ Len(changes) \in Nat
      /\ \A k \in DOMAIN changes : changes[k] \in ChangeSet(V)
  OBVIOUS
<1>2. Compress(t, changes, e) =
        IF same = {} THEN Append(changes, [var |-> e.var, pre |-> e.pre, post |-> e.post, type |-> "e"])
        ELSE [k \in DOMAIN changes |->
                 IF k = first THEN [changes[k] EXCEPT !.post = e.post, !.type = "e"] ELSE changes[k]] \o tail
  BY Zenon DEF Compress
<1>3. CASE same = {}
  BY <1>2, <1>3 DEF Unchanged
<1>4. CASE same # {}
  <2>1. same \in SUBSET Nat
    BY <1>1
  <2>2. first \in same
    <3> HIDE DEF same
    <3>1. \E k \in same : \A l \in same : k <= l
      BY <1>4, <2>1, HasLeast
    <3>2. QED
      BY <3>1
  <2>3. first \in DOMAIN changes /\ changes[first].var = e.var
    BY <2>2
  <2> HIDE DEF first
  <2>4. added \in ChangeSet(V)
    BY <1>1, <2>3 DEF ChangeSet, PrePostSet
  <2> HIDE DEF added
  <2>5. tail \in Seq(ChangeSet(V))
    BY <2>4
  <2>6. \A k \in DOMAIN tail : tail[k].var = e.var
    <3>1. added.var = e.var
      BY DEF added
    <3>2. QED
      BY <3>1
  <2> HIDE DEF tail, same
  <2>7. Extends(Compress(t, changes, e), changes, e, first, tail)
    BY <1>2, <1>4, <2>3, <2>6, Zenon DEF Extends
  <2>8. QED
    BY <2>5, <2>7
<1>5. QED
  BY <1>3, <1>4

\* w is s and then u.
ConcatOf(w, s, u, T) ==
    /\ w \in Seq(T) /\ Len(w) = Len(s) + Len(u) /\ DOMAIN w = 1..(Len(s) + Len(u))
    /\ \A k \in 1..Len(s) : w[k] = s[k]
    /\ \A k \in (Len(s) + 1)..(Len(s) + Len(u)) : w[k] = u[k - Len(s)]

\* The elements of two sequences, one after the other.
LEMMA ConcatParts ==
    ASSUME NEW T, NEW s \in Seq(T), NEW u \in Seq(T)
    PROVE  ConcatOf(s \o u, s, u, T)
  BY DEF ConcatOf

\* u keeps the other changes, and has a change to e.post in place of the first one.
Extended(u, changes, e, first, V) ==
    /\ u \in Seq(ChangeSet(V)) /\ Len(u) >= Len(changes)
    /\ u[first].var = e.var /\ u[first].pre = changes[first].pre /\ u[first].post = e.post
    /\ \A k \in DOMAIN changes : k # first => u[k] = changes[k]
    /\ \A k \in DOMAIN u : k \notin DOMAIN changes => u[k].var = e.var

\* The list of changes after one was extended, element by element.
LEMMA ExtendsHolds ==
    ASSUME NEW V, NEW changes \in Seq(ChangeSet(V)), NEW e \in PrePostSet(V), NEW first,
           NEW tail \in Seq(ChangeSet(V)), NEW u, Extends(u, changes, e, first, tail)
    PROVE  Extended(u, changes, e, first, V)
<1> DEFINE n == Len(changes)
           m == Len(tail)
           x == [changes[first] EXCEPT !.post = e.post, !.type = "e"]
           base == [k \in 1..n |-> IF k = first THEN x ELSE changes[k]]
<1>1. /\ DOMAIN changes = 1..n /\ n \in Nat /\ m \in Nat /\ DOMAIN tail = 1..m
      /\ \A k \in 1..n : changes[k] \in ChangeSet(V)
  OBVIOUS
<1>2. first \in 1..n /\ changes[first] \in ChangeSet(V)
  BY <1>1 DEF Extends
<1>3. x \in ChangeSet(V) /\ x.var = e.var /\ x.pre = changes[first].pre /\ x.post = e.post
  <2>1. changes[first].var = e.var
    BY DEF Extends
  <2>2. e.post \in Int
    BY DEF PrePostSet
  <2>3. QED
    BY <1>2, <2>1, <2>2 DEF ChangeSet
<1>4. u = [k \in DOMAIN changes |->
              IF k = first THEN [changes[k] EXCEPT !.post = e.post, !.type = "e"] ELSE changes[k]] \o tail
  BY Zenon DEF Extends
<1>5. u = base \o tail
  <2>1. [k \in DOMAIN changes |-> IF k = first THEN [changes[k] EXCEPT !.post = e.post, !.type = "e"] ELSE changes[k]] = base
    BY <1>1
  <2> HIDE DEF base
  <2>2. QED
    BY <1>4, <2>1
<1> HIDE DEF x
<1>6. base \in Seq(ChangeSet(V)) /\ Len(base) = n
  BY <1>1, <1>3
<1>7. /\ \A k \in 1..n : base[k] = IF k = first THEN x ELSE changes[k]
      /\ \A k \in DOMAIN tail : tail[k].var = e.var
  BY DEF Extends
<1> HIDE DEF base
<1>8. /\ u \in Seq(ChangeSet(V)) /\ Len(u) = n + m /\ DOMAIN u = 1..(n + m)
      /\ \A k \in 1..n : u[k] = base[k]
      /\ \A k \in (n + 1)..(n + m) : u[k] = tail[k - n]
  <2>1. ConcatOf(base \o tail, base, tail, ChangeSet(V))
    BY <1>6, ConcatParts
  <2>2. ConcatOf(u, base, tail, ChangeSet(V))
    BY <1>5, <2>1
  <2>3. QED
    BY <1>6, <2>2 DEF ConcatOf
<1> HIDE DEF n, m
<1>9. \A k \in 1..(n + m) : k \notin 1..n => k \in (n + 1)..(n + m) /\ k - n \in 1..m
  BY <1>1
<1>10. \A k \in 1..(n + m) : k \notin 1..n => u[k].var = e.var
  <2> TAKE k \in 1..(n + m)
  <2> HAVE k \notin 1..n
  <2>1. k - n \in 1..m /\ u[k] = tail[k - n]
    BY <1>8, <1>9
  <2>2. QED
    BY <1>1, <1>7, <2>1
<1>11. n + m >= n
  BY <1>1
<1>12. QED
  BY <1>1, <1>2, <1>3, <1>7, <1>8, <1>10, <1>11 DEF n, Extended

\* What compressing an effect does to its own variable and to the others.
Compresses(u, changes, e) ==
    /\ \A x, pre, post :
          /\ x # e.var /\ Unchanged(changes, x) => Unchanged(u, x)
          /\ x # e.var /\ Changed(changes, x, pre, post) => Changed(u, x, pre, post)
          /\ x # e.var /\ ChangedOnly(changes, x, pre, post) => ChangedOnly(u, x, pre, post)
    /\ Unchanged(changes, e.var) => Changed(u, e.var, e.pre, e.post)
    /\ \A pre, post : /\ Changed(changes, e.var, pre, post)
                      /\ ChangedOnly(changes, e.var, pre, post)
                      => Changed(u, e.var, pre, e.post)

\* Compress adds or extends a change of that variable and keeps those of the others.
LEMMA CompressCompresses ==
    ASSUME NEW V, NEW t, NEW changes \in Seq(ChangeSet(V)), NEW e \in PrePostSet(V)
    PROVE  Compress(t, changes, e) \in Seq(ChangeSet(V)) /\ Compresses(Compress(t, changes, e), changes, e)
<1> DEFINE u == Compress(t, changes, e)
           a == [var |-> e.var, pre |-> e.pre, post |-> e.post, type |-> "e"]
<1>1. /\ DOMAIN changes = 1..Len(changes) /\ Len(changes) \in Nat
      /\ e.var \in V /\ e.pre \in Int /\ e.post \in Int
  BY DEF PrePostSet
<1> HIDE DEF u
<1>2. CASE Unchanged(changes, e.var) /\ u = Append(changes, a)
  <2>1. a \in ChangeSet(V) /\ a.var = e.var /\ a.pre = e.pre /\ a.post = e.post
    BY <1>1 DEF ChangeSet
  <2> HIDE DEF a
  <2>2. /\ u \in Seq(ChangeSet(V)) /\ DOMAIN u = 1..(Len(changes) + 1)
        /\ u[Len(changes) + 1] = a /\ \A k \in 1..Len(changes) : u[k] = changes[k]
    BY <1>2, <2>1
  <2>3. /\ Len(changes) + 1 \in DOMAIN u /\ \A k \in DOMAIN changes : k \in DOMAIN u /\ u[k] = changes[k]
        /\ \A k \in DOMAIN u : k \in DOMAIN changes \/ k = Len(changes) + 1
    BY <1>1, <2>2
  <2>4. ~Changed(changes, e.var, 0, 0) /\ \A pre, post : ~Changed(changes, e.var, pre, post)
    BY <1>2 DEF Unchanged, Changed
  <2>5. Changed(u, e.var, e.pre, e.post)
    BY <2>1, <2>2, <2>3 DEF Changed
  <2>6. ASSUME NEW x, NEW pre, NEW post, x # e.var
        PROVE  /\ Unchanged(changes, x) => Unchanged(u, x)
               /\ Changed(changes, x, pre, post) => Changed(u, x, pre, post)
               /\ ChangedOnly(changes, x, pre, post) => ChangedOnly(u, x, pre, post)
    <3>1. Unchanged(changes, x) => Unchanged(u, x)
      BY <2>1, <2>2, <2>3, <2>6 DEF Unchanged
    <3>2. Changed(changes, x, pre, post) => Changed(u, x, pre, post)
      BY <2>3 DEF Changed
    <3>3. ChangedOnly(changes, x, pre, post) => ChangedOnly(u, x, pre, post)
      BY <2>1, <2>2, <2>3, <2>6 DEF ChangedOnly
    <3>4. QED
      BY <3>1, <3>2, <3>3
  <2>7. QED
    BY <2>2, <2>4, <2>5, <2>6 DEF Compresses, u
<1>3. CASE \E first, tail : tail \in Seq(ChangeSet(V)) /\ Extends(u, changes, e, first, tail)
  <2>1. PICK first, tail : tail \in Seq(ChangeSet(V)) /\ Extends(u, changes, e, first, tail)
    BY <1>3
  <2>2. /\ u \in Seq(ChangeSet(V)) /\ Len(u) >= Len(changes)
        /\ u[first].var = e.var /\ u[first].pre = changes[first].pre /\ u[first].post = e.post
        /\ \A k \in DOMAIN changes : k # first => u[k] = changes[k]
        /\ \A k \in DOMAIN u : k \notin DOMAIN changes => u[k].var = e.var
    <3>1. Extended(u, changes, e, first, V)
      BY <2>1, ExtendsHolds
    <3>2. QED
      BY <3>1 DEF Extended
  <2>3. first \in DOMAIN changes /\ changes[first].var = e.var
    BY <2>1 DEF Extends
  <2>4. DOMAIN u = 1..Len(u) /\ Len(u) \in Nat
    BY <2>2
  <2>5. \A k \in DOMAIN changes : k \in DOMAIN u
    BY <1>1, <2>2, <2>4
  <2>6. ~Unchanged(changes, e.var)
    BY <2>3 DEF Unchanged
  <2>7. ASSUME NEW x, NEW pre, NEW post, x # e.var
        PROVE  /\ Unchanged(changes, x) => Unchanged(u, x)
               /\ Changed(changes, x, pre, post) => Changed(u, x, pre, post)
               /\ ChangedOnly(changes, x, pre, post) => ChangedOnly(u, x, pre, post)
    <3>1. Unchanged(changes, x) => Unchanged(u, x)
      BY <2>2, <2>7, Zenon DEF Unchanged
    <3>2. Changed(changes, x, pre, post) => Changed(u, x, pre, post)
      BY <2>2, <2>3, <2>5, <2>7, Zenon DEF Changed
    <3>3. ChangedOnly(changes, x, pre, post) => ChangedOnly(u, x, pre, post)
      BY <2>2, <2>7, Zenon DEF ChangedOnly
    <3>4. QED
      BY <3>1, <3>2, <3>3
  <2>8. ASSUME NEW pre, NEW post, ChangedOnly(changes, e.var, pre, post)
        PROVE  Changed(u, e.var, pre, e.post)
    BY <2>2, <2>3, <2>5, <2>8 DEF Changed, ChangedOnly
  <2>9. QED
    BY <2>2, <2>6, <2>7, <2>8 DEF Compresses, u
<1>4. QED
  BY <1>2, <1>3, CompressIs DEF u

\* after is what Changes collects, effect by effect.
Collects(after, t, o) ==
    /\ after[0] = [i \in DOMAIN o.start.prePost |->
                      [var |-> o.start.prePost[i].var, pre |-> o.start.prePost[i].pre,
                       post |-> o.start.prePost[i].post, type |-> "s"]]
    /\ \A n \in 1..Len(o.end.prePost) : after[n] = Compress(t, after[n - 1], o.end.prePost[n])

\* The recursion of Changes is what it is defined to be.
LEMMA ChangesCollect ==
    ASSUME NEW V, NEW t, NEW o \in OperatorSet(V)
    PROVE  \E after : /\ after \in [0..Len(o.end.prePost) -> Seq(ChangeSet(V))]
                      /\ Collects(after, t, o)
                      /\ Changes(t, o) = after[Len(o.end.prePost)]
<1> DEFINE N == Len(o.end.prePost)
           T == Seq(ChangeSet(V))
           atStart == [i \in DOMAIN o.start.prePost |->
                          [var |-> o.start.prePost[i].var, pre |-> o.start.prePost[i].pre,
                           post |-> o.start.prePost[i].post, type |-> "s"]]
           body(f) == [n \in 0..N |-> IF n = 0 THEN atStart ELSE Compress(t, f[n - 1], o.end.prePost[n])]
           step == [k \in 1..N |-> [u \in T |-> Compress(t, u, o.end.prePost[k])]]
<1>1. /\ N \in Nat /\ \A k \in 1..N : o.end.prePost[k] \in PrePostSet(V)
      /\ DOMAIN o.start.prePost = 1..Len(o.start.prePost) /\ Len(o.start.prePost) \in Nat
      /\ \A i \in DOMAIN o.start.prePost : o.start.prePost[i] \in PrePostSet(V)
  <2>1. o.end.prePost \in Seq(PrePostSet(V)) /\ o.start.prePost \in Seq(PrePostSet(V))
    BY DEF OperatorSet, EffectsSet
  <2>2. QED
    BY <2>1
<1>2. atStart \in T
  <2>1. \A i \in DOMAIN o.start.prePost :
           [var |-> o.start.prePost[i].var, pre |-> o.start.prePost[i].pre,
            post |-> o.start.prePost[i].post, type |-> "s"] \in ChangeSet(V)
    BY <1>1 DEF ChangeSet, PrePostSet
  <2>2. QED
    BY <1>1, <2>1
<1> HIDE DEF atStart, N
<1>3. step \in [1..N -> [T -> T]]
  <2>1. \A k \in 1..N : \A u \in T : Compress(t, u, o.end.prePost[k]) \in T
    BY <1>1, CompressCompresses
  <2> HIDE DEF T
  <2>2. QED
    BY <2>1
<1> HIDE DEF T
<1>4. PICK f \in [0..N -> T] : Follows(f, atStart, step, N)
  <2> HIDE DEF step
  <2>1. QED
    BY <1>1, <1>2, <1>3, RecursionExists
<1>5. \A k \in 0..N : f[k] = body(f)[k]
  <2> TAKE k \in 0..N
  <2>1. CASE k = 0
    BY <1>4, <2>1 DEF Follows
  <2>2. CASE k # 0
    <3>1. k \in 1..N /\ k - 1 \in 0..N
      BY <2>2, <1>1
    <3>2. f[k] = step[k][f[k - 1]] /\ f[k - 1] \in T
      BY <1>4, <3>1 DEF Follows
    <3>3. step[k][f[k - 1]] = Compress(t, f[k - 1], o.end.prePost[k])
      BY <3>1, <3>2
    <3>4. QED
      BY <2>2, <3>2, <3>3
  <2>3. QED
    BY <2>1, <2>2
<1>6. f = body(f)
  <2>1. f = [k \in 0..N |-> f[k]]
    OBVIOUS
  <2>2. QED
    BY <1>5, <2>1
<1> DEFINE g == CHOOSE h : h = body(h)
<1>7. g = body(g)
  <2> HIDE DEF body
  <2>1. QED
    BY <1>6, Zenon
<1>8. Changes(t, o) = g[N]
  BY Zenon DEF Changes, N, atStart
<1> HIDE DEF g
<1>9. \A n \in 0..N : g[n] = IF n = 0 THEN atStart ELSE Compress(t, g[n - 1], o.end.prePost[n])
  BY <1>7
<1>10. g[0] = atStart /\ \A n \in 1..N : g[n] = Compress(t, g[n - 1], o.end.prePost[n])
  BY <1>1, <1>9
<1>11. \A n \in 0..N : g[n] \in T
  <2> DEFINE Good == {n \in 0..N : g[n] \in T}
  <2>1. 0 \in Good
    BY <1>1, <1>2, <1>10
  <2>2. ASSUME NEW n \in 0..(N - 1), n \in Good
        PROVE  n + 1 \in Good
    <3>1. n + 1 \in 1..N /\ n + 1 \in 0..N /\ (n + 1) - 1 = n
      BY <1>1
    <3>2. g[n + 1] = Compress(t, g[n], o.end.prePost[n + 1])
      BY <1>10, <3>1
    <3>3. g[n + 1] \in T
      BY <1>1, <2>2, <3>1, <3>2, CompressCompresses DEF T
    <3>4. QED
      BY <3>1, <3>3
  <2> HIDE DEF Good
  <2>3. \A n \in 0..N : n \in Good
    BY <1>1, <2>1, <2>2, UpTo
  <2>4. QED
    BY <2>3 DEF Good
<1> HIDE DEF body, step
<1>12. g = [n \in 0..N |-> g[n]]
  BY <1>7 DEF body
<1>13. g \in [0..N -> T]
  BY <1>11, <1>12
<1>14. Collects(g, t, o)
  BY <1>10 DEF Collects, N, atStart
<1>15. QED
  BY <1>8, <1>13, <1>14 DEF N, T

\* What the changes of x are after n effects at end; the m-th one is of x.
Collected(changes, x, n, m, e, starts, pre, post) ==
    IF n < m
    THEN IF starts THEN Changed(changes, x, pre, post) /\ ChangedOnly(changes, x, pre, post)
                   ELSE Unchanged(changes, x)
    ELSE Changed(changes, x, IF starts THEN pre ELSE e.pre, e.post)

\* The change of x that an effect at end makes, with one at start of the same operator or without.
LEMMA EndEffectIsCollected ==
    ASSUME NEW V, NEW t, NEW o \in OperatorSet(V), NEW after \in [0..Len(o.end.prePost) -> Seq(ChangeSet(V))],
           Collects(after, t, o), NEW x \in V, NEW m \in DOMAIN o.end.prePost, o.end.prePost[m].var = x,
           \A n \in DOMAIN o.end.prePost : o.end.prePost[n].var = x => n = m,
           NEW starts \in BOOLEAN, NEW pre, NEW post,
           IF starts THEN Changed(after[0], x, pre, post) /\ ChangedOnly(after[0], x, pre, post)
                     ELSE Unchanged(after[0], x)
    PROVE  Changed(after[Len(o.end.prePost)], x, IF starts THEN pre ELSE o.end.prePost[m].pre, o.end.prePost[m].post)
<1> DEFINE N == Len(o.end.prePost)
           ends == o.end.prePost
           e == ends[m]
           Good == {n \in 0..N : Collected(after[n], x, n, m, e, starts, pre, post)}
<1>1. /\ N \in Nat /\ DOMAIN ends = 1..N /\ m \in 1..N /\ \A k \in 1..N : ends[k] \in PrePostSet(V)
  <2>1. ends \in Seq(PrePostSet(V))
    BY DEF OperatorSet, EffectsSet
  <2>2. QED
    BY <2>1
<1>2. \A n \in 1..N : after[n] = Compress(t, after[n - 1], ends[n])
  BY DEF Collects
<1>3. e.var = x /\ \A n \in 1..N : ends[n].var = x => n = m
  BY <1>1
<1> HIDE DEF ends, N
<1>4. 0 \in Good
  <2>1. 0 < m /\ 0 \in 0..N
    BY <1>1
  <2>2. QED
    BY <2>1 DEF Collected
<1>5. ASSUME NEW n \in 0..(N - 1), n \in Good
      PROVE  n + 1 \in Good
  <2>1. n + 1 \in 1..N /\ n + 1 \in 0..N /\ (n + 1) - 1 = n /\ n \in 0..N /\ n \in Int /\ m \in Int
    BY <1>1
  <2>2. after[n] \in Seq(ChangeSet(V))
    BY <2>1 DEF N
  <2>3. Compresses(after[n + 1], after[n], ends[n + 1])
    <3>1. after[n + 1] = Compress(t, after[n], ends[n + 1]) /\ ends[n + 1] \in PrePostSet(V)
      BY <1>1, <1>2, <2>1
    <3>2. QED
      BY <2>2, <3>1, CompressCompresses
  <2>4. Collected(after[n], x, n, m, e, starts, pre, post)
    BY <1>5
  <2>5. CASE n + 1 = m
    <3>1. n < m /\ ~(n + 1 < m) /\ ends[n + 1] = e
      BY <2>1, <2>5
    <3>2. IF starts THEN Changed(after[n], x, pre, post) /\ ChangedOnly(after[n], x, pre, post)
                    ELSE Unchanged(after[n], x)
      BY <2>4, <3>1 DEF Collected
    <3> HIDE DEF e
    <3>3. CASE starts
      <4>1. Changed(after[n + 1], x, pre, e.post)
        BY <1>3, <2>3, <3>1, <3>2, <3>3, Zenon DEF Compresses
      <4>2. QED
        BY <2>1, <3>1, <3>3, <4>1 DEF Collected
    <3>4. CASE ~starts
      <4>1. Changed(after[n + 1], x, e.pre, e.post)
        BY <1>3, <2>3, <3>1, <3>2, <3>4, Zenon DEF Compresses
      <4>2. QED
        BY <2>1, <3>1, <3>4, <4>1 DEF Collected
    <3>5. QED
      BY <3>3, <3>4
  <2>6. CASE n + 1 # m
    <3>1. ends[n + 1].var # x
      BY <1>3, <2>1, <2>6
    <3> HIDE DEF e
    <3>2. CASE n < m
      <4>1. n + 1 < m
        BY <2>1, <2>6, <3>2
      <4>2. IF starts THEN Changed(after[n], x, pre, post) /\ ChangedOnly(after[n], x, pre, post)
                      ELSE Unchanged(after[n], x)
        BY <2>4, <3>2 DEF Collected
      <4>3. IF starts THEN Changed(after[n + 1], x, pre, post) /\ ChangedOnly(after[n + 1], x, pre, post)
                      ELSE Unchanged(after[n + 1], x)
        BY <2>3, <3>1, <4>2, Zenon DEF Compresses
      <4>4. QED
        BY <2>1, <4>1, <4>3 DEF Collected
    <3>3. CASE ~(n < m)
      <4>1. ~(n + 1 < m)
        BY <2>1, <3>3
      <4>2. Changed(after[n], x, IF starts THEN pre ELSE e.pre, e.post)
        BY <2>4, <3>3 DEF Collected
      <4>3. Changed(after[n + 1], x, IF starts THEN pre ELSE e.pre, e.post)
        BY <2>3, <3>1, <4>2, Zenon DEF Compresses
      <4>4. QED
        BY <2>1, <4>1, <4>3 DEF Collected
    <3>4. QED
      BY <3>2, <3>3
  <2>7. QED
    BY <2>5, <2>6
<1>6. N \in Good
  <2> HIDE DEF Good
  <2>1. \A n \in 0..N : n \in Good
    BY <1>1, <1>4, <1>5, UpTo
  <2>2. QED
    BY <1>1, <2>1
<1>7. ~(N < m)
  BY <1>1
<1>8. Collected(after[N], x, N, m, e, starts, pre, post)
  BY <1>6
<1>9. QED
  BY <1>7, <1>8 DEF Collected, N, ends

\* The change of x that an effect at start makes, if none at end does.
LEMMA StartEffectIsCollected ==
    ASSUME NEW V, NEW t, NEW o \in OperatorSet(V), NEW after \in [0..Len(o.end.prePost) -> Seq(ChangeSet(V))],
           Collects(after, t, o), NEW x \in V, NEW pre, NEW post, Changed(after[0], x, pre, post),
           \A n \in DOMAIN o.end.prePost : o.end.prePost[n].var # x
    PROVE  Changed(after[Len(o.end.prePost)], x, pre, post)
<1> DEFINE N == Len(o.end.prePost)
           ends == o.end.prePost
           Good == {n \in 0..N : Changed(after[n], x, pre, post)}
<1>1. /\ N \in Nat /\ DOMAIN ends = 1..N /\ \A k \in 1..N : ends[k] \in PrePostSet(V)
  <2>1. ends \in Seq(PrePostSet(V))
    BY DEF OperatorSet, EffectsSet
  <2>2. QED
    BY <2>1
<1>2. \A n \in 1..N : after[n] = Compress(t, after[n - 1], ends[n]) /\ ends[n].var # x
  BY <1>1 DEF Collects
<1> HIDE DEF ends, N
<1>3. 0 \in Good
  BY <1>1
<1>4. ASSUME NEW n \in 0..(N - 1), n \in Good
      PROVE  n + 1 \in Good
  <2>1. n + 1 \in 1..N /\ n + 1 \in 0..N /\ (n + 1) - 1 = n /\ n \in 0..N
    BY <1>1
  <2>2. after[n] \in Seq(ChangeSet(V))
    BY <2>1 DEF N
  <2>3. Compresses(after[n + 1], after[n], ends[n + 1])
    <3>1. after[n + 1] = Compress(t, after[n], ends[n + 1]) /\ ends[n + 1] \in PrePostSet(V)
      BY <1>1, <1>2, <2>1
    <3>2. QED
      BY <2>2, <3>1, CompressCompresses
  <2>4. ends[n + 1].var # x /\ Changed(after[n], x, pre, post)
    BY <1>2, <1>4, <2>1
  <2>5. Changed(after[n + 1], x, pre, post)
    BY <2>3, <2>4, Zenon DEF Compresses
  <2>6. QED
    BY <2>1, <2>5
<1>5. N \in Good
  <2> HIDE DEF Good
  <2>1. \A n \in 0..N : n \in Good
    BY <1>1, <1>3, <1>4, UpTo
  <2>2. QED
    BY <1>1, <2>1
<1>6. QED
  BY <1>5 DEF N

\* Whatever an operator with at most one effect at start and one at end can do to
\* a variable is among the changes that were collected.
LEMMA PossibleIsCollected ==
    ASSUME NEW V, V = DOMAIN task.variables, NEW o \in OperatorSet(V), NEW x \in V, ChangesOnce(o, x),
           task.variables[x].range \in Int, NEW p \in Possible(o, x)
    PROVE  \E c \in ToSet(Changes(task, o)) :
              c.var = x /\ c.pre # c.post /\ p[1] \in OldValues(task, c) /\ c.post = p[2]
<1> DEFINE starts == o.start.prePost
           ends == o.end.prePost
           start == {e \in ToSet(starts) : e.var = x}
           end == {e \in ToSet(ends) : e.var = x}
           values == 0..(task.variables[x].range - 1)
           from(e) == IF e.pre = AnyValue THEN values ELSE {e.pre}
           first == IF start # {} THEN start ELSE end
           last == IF end # {} THEN end ELSE start
<1>1. /\ starts \in Seq(PrePostSet(V)) /\ ends \in Seq(PrePostSet(V))
      /\ \A i, j \in DOMAIN starts : starts[i].var = x /\ starts[j].var = x => i = j
      /\ \A i, j \in DOMAIN ends : ends[i].var = x /\ ends[j].var = x => i = j
  BY DEF OperatorSet, EffectsSet, ChangesOnce
<1>2. /\ p \in values \X values /\ p[1] # p[2]
      /\ \E e \in first : p[1] \in from(e)
      /\ \E e \in last : p[2] = e.post
  <2>1. Possible(o, x) = {q \in values \X values : /\ q[1] # q[2]
                                                   /\ \E e \in first : q[1] \in from(e)
                                                   /\ \E e \in last : q[2] = e.post}
    BY Zenon DEF Possible
  <2> HIDE DEF values, first, last, from
  <2>2. QED
    BY <2>1
<1>3. PICK after : /\ after \in [0..Len(ends) -> Seq(ChangeSet(V))]
                   /\ Collects(after, task, o)
                   /\ Changes(task, o) = after[Len(ends)]
  BY ChangesCollect
<1>4. Changes(task, o) \in Seq(ChangeSet(V))
  <2>1. Len(ends) \in Nat
    BY <1>1
  <2>2. QED
    BY <1>3, <2>1
<1>5. /\ DOMAIN after[0] = DOMAIN starts
      /\ \A i \in DOMAIN starts : /\ after[0][i].var = starts[i].var
                                  /\ after[0][i].pre = starts[i].pre
                                  /\ after[0][i].post = starts[i].post
  <2>1. after[0] = [i \in DOMAIN starts |->
                       [var |-> starts[i].var, pre |-> starts[i].pre, post |-> starts[i].post, type |-> "s"]]
    BY <1>3, Zenon DEF Collects
  <2> HIDE DEF starts
  <2>2. QED
    BY <2>1
<1>6. ASSUME NEW pre, NEW post, Changed(Changes(task, o), x, pre, post), p[2] = post,
             p[1] \in IF pre = AnyValue THEN values ELSE {pre}
      PROVE  \E c \in ToSet(Changes(task, o)) :
                c.var = x /\ c.pre # c.post /\ p[1] \in OldValues(task, c) /\ c.post = p[2]
  <2>1. PICK k \in DOMAIN Changes(task, o) : /\ Changes(task, o)[k].var = x /\ Changes(task, o)[k].pre = pre
                                             /\ Changes(task, o)[k].post = post
    BY <1>6 DEF Changed
  <2> DEFINE c == Changes(task, o)[k]
  <2>2. c \in ToSet(Changes(task, o))
    BY <2>1 DEF ToSet
  <2>3. p[1] \in values /\ p[2] \in values /\ p[1] \in Int /\ p[2] \in Int /\ p[1] >= 0 /\ p[2] >= 0
    BY <1>2
  <2>4. c.pre # c.post
    BY <1>2, <1>6, <2>1, <2>3 DEF AnyValue
  <2>5. p[1] \in OldValues(task, c)
    BY <1>2, <1>6, <2>1, <2>3 DEF OldValues
  <2> HIDE DEF c
  <2>6. c.var = x /\ c.post = p[2]
    BY <1>6, <2>1 DEF c
  <2>7. QED
    BY <2>2, <2>4, <2>5, <2>6
<1>7. CASE end = {}
  <2>1. PICK e \in start : p[1] \in from(e)
    BY <1>2, <1>7
  <2>2. PICK d \in start : p[2] = d.post
    BY <1>2, <1>7
  <2>3. PICK i \in DOMAIN starts : starts[i] = e /\ starts[i].var = x
    BY <2>1 DEF ToSet
  <2>4. PICK j \in DOMAIN starts : starts[j] = d /\ starts[j].var = x
    BY <2>2 DEF ToSet
  <2>5. d = e
    BY <1>1, <2>3, <2>4
  <2>6. Changed(after[0], x, e.pre, e.post)
    BY <1>5, <2>3 DEF Changed
  <2>7. \A n \in DOMAIN ends : ends[n].var # x
    BY <1>7 DEF ToSet
  <2>8. Changed(after[Len(ends)], x, e.pre, e.post)
    <3> HIDE DEF start, end, values, first, last
    <3>1. QED
      BY <1>3, <2>6, <2>7, StartEffectIsCollected
  <2>9. p[1] \in IF e.pre = AnyValue THEN values ELSE {e.pre}
    BY <2>1
  <2>10. QED
    BY <1>3, <1>6, <2>2, <2>5, <2>8, <2>9
<1>8. CASE end # {}
  <2>1. PICK d \in end : p[2] = d.post
    BY <1>2, <1>8
  <2>2. PICK m \in DOMAIN ends : ends[m] = d /\ ends[m].var = x
    BY <2>1 DEF ToSet
  <2>3. \A n \in DOMAIN ends : ends[n].var = x => n = m
    BY <1>1, <2>2
  <2>4. CASE start = {}
    <3>1. PICK e \in end : p[1] \in from(e)
      BY <1>2, <2>4
    <3>2. PICK n \in DOMAIN ends : ends[n] = e /\ ends[n].var = x
      BY <3>1 DEF ToSet
    <3>3. e = d
      BY <2>2, <2>3, <3>2
    <3>4. Unchanged(after[0], x)
      <4>1. \A i \in DOMAIN starts : starts[i].var # x
        BY <2>4 DEF ToSet
      <4>2. QED
        BY <1>5, <4>1 DEF Unchanged
    <3>5. Changed(after[Len(ends)], x, d.pre, d.post)
      <4> HIDE DEF start, end, values, first, last
      <4>1. IF FALSE THEN Changed(after[0], x, 0, 0) /\ ChangedOnly(after[0], x, 0, 0) ELSE Unchanged(after[0], x)
        BY <3>4
      <4>2. Changed(after[Len(ends)], x, IF FALSE THEN 0 ELSE ends[m].pre, ends[m].post)
        BY <1>3, <2>2, <2>3, <4>1, EndEffectIsCollected
      <4>3. QED
        BY <2>2, <4>2
    <3>6. p[1] \in IF d.pre = AnyValue THEN values ELSE {d.pre}
      BY <3>1, <3>3
    <3>7. QED
      BY <1>3, <1>6, <2>1, <3>5, <3>6
  <2>5. CASE start # {}
    <3>1. PICK e \in start : p[1] \in from(e)
      BY <1>2, <2>5
    <3>2. PICK i \in DOMAIN starts : starts[i] = e /\ starts[i].var = x
      BY <3>1 DEF ToSet
    <3>3. Changed(after[0], x, e.pre, e.post) /\ ChangedOnly(after[0], x, e.pre, e.post)
      <4>1. Changed(after[0], x, e.pre, e.post)
        BY <1>5, <3>2 DEF Changed
      <4>2. \A j \in DOMAIN starts : starts[j].var = x => j = i
        BY <1>1, <3>2
      <4>3. ChangedOnly(after[0], x, e.pre, e.post)
        BY <1>5, <3>2, <4>2 DEF ChangedOnly
      <4>4. QED
        BY <4>1, <4>3
    <3>4. Changed(after[Len(ends)], x, e.pre, d.post)
      <4> HIDE DEF start, end, values, first, last
      <4>1. Changed(after[Len(ends)], x, IF TRUE THEN e.pre ELSE ends[m].pre, ends[m].post)
        BY <1>3, <2>2, <2>3, <3>3, EndEffectIsCollected
      <4>2. QED
        BY <2>2, <4>1
    <3>5. p[1] \in IF e.pre = AnyValue THEN values ELSE {e.pre}
      BY <3>1
    <3>6. QED
      BY <1>3, <1>6, <2>1, <3>4, <3>5
  <2>6. QED
    BY <2>4, <2>5
<1>9. QED
  BY <1>7, <1>8

----------------------------------------------------------------------------
(* The transitions of a variable                                           *)

\* Conditions with the time they have to hold, and those that ask for one of the facts G.
ConditionSet(V) == [var : V, value : Int, type : {"s", "o", "e", "a"}]
GroundedSet(V, G) == {c \in ConditionSet(V) : <<c.var, c.value>> \in G}

\* What typed conditions ask for is what they asked for before.
LEMMA TypedIsGrounded ==
    ASSUME NEW V, NEW G, NEW conds \in Conditions(V), ToSet(conds) \subseteq G,
           NEW type \in {"s", "o", "e", "a"}
    PROVE  Typed(conds, type) \in Seq(GroundedSet(V, G))
<1>1. /\ DOMAIN conds = 1..Len(conds) /\ Len(conds) \in Nat
      /\ \A i \in DOMAIN conds : conds[i] \in V \X Int /\ conds[i] \in G
  <2>1. conds \in Seq(V \X Int)
    BY DEF Conditions
  <2>2. DOMAIN conds = 1..Len(conds) /\ Len(conds) \in Nat /\ \A i \in DOMAIN conds : conds[i] \in V \X Int
    BY <2>1
  <2>3. QED
    BY <2>2 DEF ToSet
<1>2. \A i \in DOMAIN conds : conds[i][1] \in V /\ conds[i][2] \in Int /\ conds[i] = <<conds[i][1], conds[i][2]>>
  BY <1>1
<1>3. \A i \in DOMAIN conds :
         [var |-> conds[i][1], value |-> conds[i][2], type |-> type] \in GroundedSet(V, G)
  BY <1>1, <1>2 DEF GroundedSet, ConditionSet
<1>4. Typed(conds, type) = [i \in DOMAIN conds |-> [var |-> conds[i][1], value |-> conds[i][2], type |-> type]]
  BY DEF Typed
<1> HIDE DEF GroundedSet
<1>5. QED
  BY <1>1, <1>3, <1>4

\* Of the conditions of effect e a transition of variable x may ask for facts in G only.
Allows(e, x, phase, G) ==
    /\ e.var # x => <<e.var, e.pre>> \in G
    /\ e.var = x => ToSet(e.when[phase]) \subseteq G

\* What transitions ask for because of the effects of their operator.
LEMMA EffectConditionsAreGrounded ==
    ASSUME NEW V, NEW G, NEW effects \in Seq(PrePostSet(V)), NEW x, NEW phase \in {"start", "end"},
           NEW type \in {"s", "e"}, \A i \in DOMAIN effects : Allows(effects[i], x, phase, G)
    PROVE  EffectConditions(effects, x, phase, type) \in Seq(GroundedSet(V, G))
<1> DEFINE T == GroundedSet(V, G)
           part(i) == IF effects[i].var # x /\ effects[i].pre # AnyValue
                      THEN Typed(<<<<effects[i].var, effects[i].pre>>>>, type)
                      ELSE IF effects[i].var = x /\ effects[i].when.conditional
                           THEN Typed(effects[i].when[phase], type) ELSE <<>>
           parts == [i \in DOMAIN effects |-> part(i)]
<1>1. DOMAIN effects = 1..Len(effects) /\ Len(effects) \in Nat /\ \A i \in DOMAIN effects : effects[i] \in PrePostSet(V)
  OBVIOUS
<1>2. ASSUME NEW i \in DOMAIN effects
      PROVE  part(i) \in Seq(T)
  <2> DEFINE e == effects[i]
  <2>1. /\ e.var \in V /\ e.pre \in Int /\ e.when \in WhenSet(V) /\ Allows(e, x, phase, G)
        /\ type \in {"s", "o", "e", "a"}
    BY <1>1 DEF PrePostSet
  <2>2. e.when[phase] \in Conditions(V)
    BY <2>1 DEF WhenSet
  <2> HIDE DEF e, T
  <2>3. CASE e.var # x
    <3>1. <<e.var, e.pre>> \in V \X Int /\ <<e.var, e.pre>> \in G
      BY <2>1, <2>3 DEF Allows
    <3>2. <<<<e.var, e.pre>>>> \in Conditions(V) /\ ToSet(<<<<e.var, e.pre>>>>) = {<<e.var, e.pre>>}
      BY <3>1, ShortSequences, ZenonT(40) DEF Conditions
    <3>3. Typed(<<<<e.var, e.pre>>>>, type) \in Seq(T)
      BY <2>1, <3>1, <3>2, TypedIsGrounded DEF T
    <3>4. QED
      BY <2>3, <3>3 DEF e
  <2>4. CASE e.var = x
    <3>1. Typed(e.when[phase], type) \in Seq(T)
      BY <2>1, <2>2, <2>4, TypedIsGrounded DEF Allows, T
    <3>2. QED
      BY <2>4, <3>1 DEF e
  <2>5. QED
    BY <2>3, <2>4
<1>3. EffectConditions(effects, x, phase, type) = FlattenSeq(parts)
  BY Zenon DEF EffectConditions
<1> HIDE DEF part, T
<1>4. parts \in Seq(Seq(T))
  BY <1>1, <1>2
<1> HIDE DEF parts
<1>5. QED
  BY <1>3, <1>4, FlattenSeqHolds DEF T

\* less compares by a, then by b, then by c.
Lexicographic(less, n, a, b, c) ==
    /\ \A i \in 1..n : a[i] \in Int /\ b[i] \in Int /\ c[i] \in Int
    /\ \A i, j \in 1..n :
          <<i, j>> \in less <=> \/ a[i] < a[j]
                                \/ a[i] = a[j] /\ b[i] < b[j]
                                \/ a[i] = a[j] /\ b[i] = b[j] /\ c[i] < c[j]

\* Such a comparison is a strict weak order.
LEMMA LexicographicCompares ==
    ASSUME NEW n \in Nat, NEW a, NEW b, NEW c, NEW less, Lexicographic(less, n, a, b, c)
    PROVE  Compares(less, n)
<1>1. \A i \in 1..n : a[i] \in Int /\ b[i] \in Int /\ c[i] \in Int
  BY DEF Lexicographic
<1>2. \A i, j \in 1..n :
        <<i, j>> \in less <=> \/ a[i] < a[j]
                              \/ a[i] = a[j] /\ b[i] < b[j]
                              \/ a[i] = a[j] /\ b[i] = b[j] /\ c[i] < c[j]
  BY DEF Lexicographic
<1>3. \A i \in 1..n : <<i, i>> \notin less
  BY <1>1, <1>2
<1>4. ASSUME NEW i \in 1..n, NEW j \in 1..n, NEW k \in 1..n, <<i, j>> \in less, <<j, k>> \in less
      PROVE  <<i, k>> \in less
  BY <1>1, <1>2, <1>4
<1>5. ASSUME NEW i \in 1..n, NEW j \in 1..n, NEW k \in 1..n, <<i, j>> \notin less, <<j, k>> \notin less
      PROVE  <<i, k>> \notin less
  BY <1>1, <1>2, <1>5
<1>6. QED
  BY <1>3, <1>4, <1>5 DEF Compares

\* Sorting conditions neither adds nor removes one.
LEMMA SortConditionsIs ==
    ASSUME NEW V \in SUBSET Int, NEW T \in SUBSET ConditionSet(V), NEW conds \in Seq(T)
    PROVE  SortConditions(conds) \in Seq(T)
<1> DEFINE n == Len(conds)
           less(a, b) == a.var < b.var \/ (a.var = b.var /\ a.value < b.value)
           R == {p \in Positions(conds) : less(conds[p[1]], conds[p[2]])}
<1>1. n \in Nat /\ DOMAIN conds = 1..n /\ \A i \in 1..n : conds[i].var \in Int /\ conds[i].value \in Int
  <2>1. n \in Nat /\ DOMAIN conds = 1..n /\ \A i \in 1..n : conds[i] \in T
    OBVIOUS
  <2>2. \A i \in 1..n : conds[i] \in ConditionSet(V)
    BY <2>1
  <2>3. \A c \in ConditionSet(V) : c.var \in Int /\ c.value \in Int
    BY DEF ConditionSet
  <2>4. \A i \in 1..n : conds[i].var \in Int /\ conds[i].value \in Int
    BY <2>2, <2>3, Zenon
  <2>5. QED
    BY <2>1, <2>4
<1>2. \A i, j \in 1..n : <<i, j>> \in R <=> less(conds[i], conds[j])
  BY <1>1 DEF Positions
<1>3. Compares(R, n)
  <2> DEFINE a == [i \in 1..n |-> conds[i].var]
             b == [i \in 1..n |-> conds[i].value]
             c == [i \in 1..n |-> 0]
  <2>1. \A i \in 1..n : a[i] = conds[i].var /\ b[i] = conds[i].value /\ c[i] = 0
    OBVIOUS
  <2> HIDE DEF a, b, c, R, n
  <2>2. \A i \in 1..n : a[i] \in Int /\ b[i] \in Int /\ c[i] \in Int
    BY <1>1, <2>1
  <2>3. Lexicographic(R, n, a, b, c)
    BY <1>2, <2>1, <2>2 DEF Lexicographic
  <2>4. QED
    BY <1>1, <2>3, LexicographicCompares
<1>4. SortConditions(conds) = InOrder(conds, R)
  BY Zenon DEF SortConditions
<1> HIDE DEF R
<1>5. QED
  BY <1>3, <1>4, InOrderSorts

\* Leaving elements out keeps the type.
LEMMA OnlyAtType ==
    ASSUME NEW T, NEW s \in Seq(T), NEW N
    PROVE  OnlyAt(s, N) \in Seq(T)
  BY OnlyAtPicks

\* A transition asks for nothing that its operator does not ask for.
LEMMA TransitionConditionsAreGrounded ==
    ASSUME NEW V \in SUBSET Int, NEW o \in OperatorSet(V), NEW x
    PROVE  TransitionConditions(o, x) \in Seq(GroundedSet(V, Grounds(o, x)))
<1> DEFINE G == Grounds(o, x)
           T == GroundedSet(V, G)
           effects == ToSet(Effects(o))
           starts == o.start.prePost
           ends == o.end.prePost
<1>1. /\ o.prevail.start \in Conditions(V) /\ o.prevail.overall \in Conditions(V) /\ o.prevail.end \in Conditions(V)
      /\ starts \in Seq(PrePostSet(V)) /\ ends \in Seq(PrePostSet(V))
  BY DEF OperatorSet, EffectsSet, PrevailSet
<1>2. /\ ToSet(Prevails(o)) \subseteq G
      /\ \A e \in effects : e.var # x => <<e.var, e.pre>> \in G
      /\ \A e \in effects : e.var = x => ToSet(e.when.start \o e.when.overall \o e.when.end) \subseteq G
  <2> HIDE DEF effects
  <2>1. G = ToSet(Prevails(o))
               \cup {<<e.var, e.pre>> : e \in {f \in effects : f.var # x}}
               \cup UNION {ToSet(e.when.start \o e.when.overall \o e.when.end) : e \in {f \in effects : f.var = x}}
    BY Zenon DEF Grounds, effects
  <2> HIDE DEF G
  <2>2. QED
    BY <2>1
<1>3. effects = ToSet(starts) \cup ToSet(ends)
  BY <1>1, ConcatHolds DEF Effects
<1> HIDE DEF G
<1>4. ToSet(o.prevail.start) \subseteq G /\ ToSet(o.prevail.overall) \subseteq G /\ ToSet(o.prevail.end) \subseteq G
  <2> DEFINE a == o.prevail.start
             b == o.prevail.overall
             c == o.prevail.end
  <2>1. a \in Seq(V \X Int) /\ b \in Seq(V \X Int) /\ c \in Seq(V \X Int) /\ Prevails(o) = a \o b \o c
    BY <1>1 DEF Conditions, Prevails
  <2> HIDE DEF a, b, c
  <2>2. ToSet(a \o b \o c) = ToSet(a) \cup ToSet(b) \cup ToSet(c)
    BY <2>1, Concat3Holds
  <2>3. ToSet(a) \subseteq G /\ ToSet(b) \subseteq G /\ ToSet(c) \subseteq G
    BY <1>2, <2>1, <2>2
  <2>4. QED
    BY <2>3 DEF a, b, c
<1>5. \A e \in effects : Allows(e, x, "start", G) /\ Allows(e, x, "end", G)
  <2> TAKE e \in effects
  <2>1. e.when \in WhenSet(V)
    <3>1. ToSet(starts) \subseteq PrePostSet(V) /\ ToSet(ends) \subseteq PrePostSet(V)
      <4> HIDE DEF starts, ends
      <4>1. /\ \A i \in DOMAIN starts : starts[i] \in PrePostSet(V)
            /\ \A i \in DOMAIN ends : ends[i] \in PrePostSet(V)
        BY <1>1
      <4>2. QED
        BY <4>1 DEF ToSet
    <3>2. e \in PrePostSet(V)
      <4> HIDE DEF effects
      <4>1. QED
        BY <1>3, <3>1
    <3>3. QED
      BY <3>2 DEF PrePostSet
  <2> DEFINE a == e.when.start
             b == e.when.overall
             c == e.when.end
  <2>2. a \in Seq(V \X Int) /\ b \in Seq(V \X Int) /\ c \in Seq(V \X Int)
    BY <2>1 DEF WhenSet, Conditions
  <2>3. e.var = x => ToSet(a \o b \o c) \subseteq G
    BY <1>2
  <2>4. e.var # x => <<e.var, e.pre>> \in G
    BY <1>2
  <2> HIDE DEF a, b, c, effects
  <2>5. ToSet(a \o b \o c) = ToSet(a) \cup ToSet(b) \cup ToSet(c)
    BY <2>2, Concat3Holds
  <2>6. e.var = x => ToSet(a) \subseteq G /\ ToSet(c) \subseteq G
    BY <2>3, <2>5
  <2>7. QED
    BY <2>4, <2>6 DEF Allows, a, c
<1>6. /\ \A i \in DOMAIN starts : Allows(starts[i], x, "start", G)
      /\ \A i \in DOMAIN ends : Allows(ends[i], x, "end", G)
  <2> HIDE DEF starts, ends, effects
  <2>1. QED
    BY <1>3, <1>5 DEF ToSet
<1> HIDE DEF effects
<1> DEFINE a == Typed(o.prevail.start, "s")
           b == Typed(o.prevail.overall, "o")
           c == Typed(o.prevail.end, "e")
           d == EffectConditions(starts, x, "start", "s")
           f == EffectConditions(ends, x, "end", "e")
           open(conds) == OnlyAt(conds, {i \in DOMAIN conds : ~SelfFulfilled(o, <<conds[i].var, conds[i].value>>)})
           all == a \o open(b) \o open(c) \o d \o open(f)
<1>7. /\ a \in Seq(GroundedSet(V, G)) /\ b \in Seq(GroundedSet(V, G)) /\ c \in Seq(GroundedSet(V, G))
  BY <1>1, <1>4, TypedIsGrounded
<1>8. d \in Seq(GroundedSet(V, G)) /\ f \in Seq(GroundedSet(V, G))
  <2> HIDE DEF starts, ends
  <2>1. QED
    BY <1>1, <1>6, EffectConditionsAreGrounded
<1>9. TransitionConditions(o, x) = SortConditions(WithoutRepetition(all))
  BY Zenon DEF TransitionConditions
<1> HIDE DEF a, b, c, d, f
<1>10. a \in Seq(T) /\ b \in Seq(T) /\ c \in Seq(T) /\ d \in Seq(T) /\ f \in Seq(T)
  BY <1>7, <1>8
<1> HIDE DEF T
<1>11. open(b) \in Seq(T) /\ open(c) \in Seq(T) /\ open(f) \in Seq(T)
  BY <1>10, OnlyAtType
<1> HIDE DEF open
<1>12. all \in Seq(T)
  BY <1>10, <1>11
<1> HIDE DEF all
<1>13. WithoutRepetition(all) \in Seq(T)
  <2>1. \E N : WithoutRepetition(all) = OnlyAt(all, N)
    BY Zenon DEF WithoutRepetition
  <2>2. QED
    BY <1>12, <2>1, OnlyAtType
<1>14. T \in SUBSET ConditionSet(V)
  BY DEF T, GroundedSet
<1>15. SortConditions(WithoutRepetition(all)) \in Seq(T)
  BY <1>13, <1>14, SortConditionsIs
<1>16. QED
  BY <1>9, <1>15 DEF T, G

\* The transitions of a task on the variables V; their operators tell how long they take, and axioms take no time.
TransitionSet(t, V) ==
    {a \in [target : Int, op : Int, type : {"s", "e", "a"}, duration : Int, conditions : Seq(ConditionSet(V))] :
        a.duration = IF a.type = "a" THEN 0 ELSE t.operators[a.op].duration}

\* b does for the search what a does.
Represents(b, a) == b.target = a.target /\ b.duration = a.duration /\ CondSet(b) \subseteq CondSet(a)
IsRepresented(s, u) == \A a \in ToSet(s) : \E b \in ToSet(u) : Represents(b, a)

\* A part of a part.
LEMMA RepresentedByParts ==
    ASSUME NEW s, NEW u, NEW w, IsRepresented(s, u), IsRepresented(u, w)
    PROVE  IsRepresented(s, w)
<1>1. ASSUME NEW a \in ToSet(s)
      PROVE  \E b \in ToSet(w) : Represents(b, a)
  <2>1. PICK b \in ToSet(u) : Represents(b, a)
    BY DEF IsRepresented
  <2>2. PICK c \in ToSet(w) : Represents(c, b)
    BY DEF IsRepresented
  <2>3. c.target = a.target /\ c.duration = a.duration
    BY <2>1, <2>2 DEF Represents
  <2>4. CondSet(c) \subseteq CondSet(a)
    BY <2>1, <2>2 DEF Represents
  <2>5. QED
    BY <2>2, <2>3, <2>4 DEF Represents
<1>2. QED
  BY <1>1 DEF IsRepresented

\* Sorting keeps all transitions.
LEMMA SortTransitionsIs ==
    ASSUME NEW t, NEW V, NEW s \in Seq(TransitionSet(t, V))
    PROVE  SortTransitions(s) \in Seq(TransitionSet(t, V)) /\ ToSet(s) \subseteq ToSet(SortTransitions(s))
<1> DEFINE n == Len(s)
           T == TransitionSet(t, V)
           R == {p \in Positions(s) : Precedes(s[p[1]], s[p[2]])}
           u == SortTransitions(s)
           a == [i \in 1..n |-> s[i].target]
           b == [i \in 1..n |-> s[i].duration]
           c == [i \in 1..n |-> Len(s[i].conditions)]
<1>1. n \in Nat /\ DOMAIN s = 1..n /\ \A i \in 1..n : s[i] \in T
  OBVIOUS
<1>2. \A i \in 1..n : s[i].target \in Int /\ s[i].duration \in Int /\ Len(s[i].conditions) \in Int
  <2>1. ASSUME NEW x \in T
        PROVE  x.target \in Int /\ x.duration \in Int /\ Len(x.conditions) \in Int
    <3>1. x.target \in Int /\ x.duration \in Int /\ x.conditions \in Seq(ConditionSet(V))
      BY DEF TransitionSet
    <3>2. QED
      BY <3>1
  <2> HIDE DEF T
  <2>2. QED
    BY <1>1, <2>1, Zenon
<1>3. \A i, j \in 1..n : <<i, j>> \in R <=> Precedes(s[i], s[j])
  BY <1>1 DEF Positions
<1>4. \A i \in 1..n : a[i] = s[i].target /\ b[i] = s[i].duration /\ c[i] = Len(s[i].conditions)
  OBVIOUS
<1>5. u = InOrder(s, R)
  BY Zenon DEF SortTransitions
<1> HIDE DEF a, b, c, R, u, T
<1>6. Compares(R, n)
  <2> HIDE DEF n
  <2>1. \A i, j \in 1..n :
           <<i, j>> \in R <=> \/ a[i] < a[j]
                              \/ a[i] = a[j] /\ b[i] < b[j]
                              \/ a[i] = a[j] /\ b[i] = b[j] /\ c[i] < c[j]
    BY <1>3, <1>4, ZenonT(40) DEF Precedes
  <2>2. Lexicographic(R, n, a, b, c)
    BY <1>2, <1>4, <2>1 DEF Lexicographic
  <2>3. QED
    BY <1>1, <2>2, LexicographicCompares
<1>7. u \in Seq(T) /\ \E at : Permutes(u, at, s)
  <2>1. s \in Seq(T)
    BY DEF T
  <2>2. /\ InOrder(s, R) \in Seq(T)
        /\ \E at : /\ Permutes(InOrder(s, R), at, s)
                   /\ \A j, k \in 1..Len(s) : j < k => <<at[k], at[j]>> \notin R
    BY <1>6, <2>1, InOrderSorts
  <2>3. QED
    BY <1>5, <2>2
<1>8. PICK at : Permutes(u, at, s)
  BY <1>7
<1>9. DOMAIN u = 1..n
  <2>1. DOMAIN u = 1..Len(u)
    BY <1>7
  <2>2. QED
    BY <1>8, <2>1 DEF Permutes
<1>10. ToSet(s) \subseteq ToSet(u)
  <2> SUFFICES ASSUME NEW i \in 1..n PROVE s[i] \in ToSet(u)
    BY <1>1 DEF ToSet
  <2>1. PICK k \in 1..n : at[k] = i
    BY <1>8 DEF Permutes
  <2>2. u[k] = s[i]
    BY <1>8, <2>1 DEF Permutes
  <2>3. QED
    BY <1>9, <2>1, <2>2 DEF ToSet
<1>11. QED
  BY <1>7, <1>10 DEF u, T

\* The least position at which R is like it is at i.
LEMMA LeastPosition ==
    ASSUME NEW n \in Nat, NEW R, NEW i \in 1..n, i \in R
    PROVE  \E j \in 1..n : j \in R /\ j <= i /\ \A k \in 1..n : k \in R => j <= k
<1> DEFINE S == {k \in 1..n : k \in R}
<1>1. S \in SUBSET Nat /\ S # {} /\ i \in S
  OBVIOUS
<1>2. PICK j \in S : \A k \in S : j <= k
  <2> HIDE DEF S
  <2>1. QED
    BY <1>1, HasLeast
<1>3. QED
  BY <1>1, <1>2

\* Of a run of the same transitions the first one remains; the same transitions take the same time.
LEMMA UniqueRepresents ==
    ASSUME NEW t, NEW V, NEW s \in Seq(TransitionSet(t, V))
    PROVE  Unique(s) \in Seq(TransitionSet(t, V)) /\ IsRepresented(s, Unique(s))
<1> DEFINE n == Len(s)
           T == TransitionSet(t, V)
           N == {i \in DOMAIN s : i = 1 \/ ~SameTransition(s[i - 1], s[i])}
           u == Unique(s)
<1>1. n \in Nat /\ DOMAIN s = 1..n /\ \A i \in 1..n : s[i] \in T
  OBVIOUS
<1>2. u = OnlyAt(s, N)
  BY Zenon DEF Unique
<1>3. u \in Seq(T) /\ ToSet(u) = {s[i] : i \in {j \in DOMAIN s : j \in N}}
  <2> HIDE DEF T, N
  <2>1. s \in Seq(T)
    BY DEF T
  <2>2. QED
    BY <1>2, <2>1, OnlyAtIs
<1>4. ASSUME NEW i \in 1..n
      PROVE  \E b \in ToSet(u) : Represents(b, s[i])
  <2> DEFINE Like == {k \in 1..n : SameTransition(s[k], s[i])}
  <2>1. i \in Like
    BY DEF SameTransition
  <2>2. PICK j \in 1..n : j \in Like /\ \A k \in 1..n : k \in Like => j <= k
    <3> HIDE DEF Like
    <3>1. QED
      BY <1>1, <2>1, LeastPosition
  <2>3. j = 1 \/ ~SameTransition(s[j - 1], s[j])
    <3> SUFFICES ASSUME j # 1, SameTransition(s[j - 1], s[j]) PROVE FALSE
      OBVIOUS
    <3>1. j - 1 \in 1..n /\ ~(j <= j - 1)
      BY <1>1
    <3>2. SameTransition(s[j - 1], s[i])
      BY <2>2 DEF SameTransition
    <3>3. QED
      BY <2>2, <3>1, <3>2
  <2>4. s[j] \in ToSet(u)
    BY <1>1, <1>3, <2>3
  <2>5. SameTransition(s[j], s[i])
    BY <2>2
  <2>6. s[j].duration = s[i].duration
    <3>1. \A a \in T : a.duration = IF a.type = "a" THEN 0 ELSE t.operators[a.op].duration
      BY DEF TransitionSet
    <3> HIDE DEF T
    <3>2. QED
      BY <1>1, <2>5, <3>1 DEF SameTransition
  <2>7. Represents(s[j], s[i])
    <3>1. s[j].target = s[i].target /\ s[j].conditions = s[i].conditions
      BY <2>5 DEF SameTransition
    <3>2. CondSet(s[j]) = CondSet(s[i])
      BY <3>1 DEF CondSet
    <3>3. QED
      BY <2>6, <3>1, <3>2 DEF Represents
  <2>8. QED
    BY <2>4, <2>7
<1>5. IsRepresented(s, u)
  <2> HIDE DEF u, n
  <2>1. QED
    BY <1>1, <1>4 DEF IsRepresented, ToSet
<1>6. QED
  BY <1>3, <1>5

\* A transition that an earlier one dominates is left out; the first of those
\* that dominate it remains.
LEMMA DominanceRepresents ==
    ASSUME NEW t, NEW V, NEW s \in Seq(TransitionSet(t, V)), NEW u,
           u = OnlyAt(s, {i \in DOMAIN s : \A j \in 1..(i - 1) : ~Dominates(s[j], s[i])})
    PROVE  u \in Seq(TransitionSet(t, V)) /\ IsRepresented(s, u)
<1> DEFINE n == Len(s)
           T == TransitionSet(t, V)
           N == {i \in DOMAIN s : \A j \in 1..(i - 1) : ~Dominates(s[j], s[i])}
<1>1. n \in Nat /\ DOMAIN s = 1..n /\ \A i \in 1..n : s[i] \in T
  OBVIOUS
<1>2. u \in Seq(T) /\ ToSet(u) = {s[i] : i \in {j \in DOMAIN s : j \in N}}
  <2> HIDE DEF T
  <2>1. s \in Seq(T)
    BY DEF T
  <2>2. u = OnlyAt(s, N)
    OBVIOUS
  <2> HIDE DEF N
  <2>3. OnlyAt(s, N) \in Seq(T) /\ ToSet(OnlyAt(s, N)) = {s[i] : i \in {j \in DOMAIN s : j \in N}}
    BY <2>1, OnlyAtIs
  <2>4. QED
    BY <2>2, <2>3, Zenon
<1>3. ASSUME NEW i \in 1..n
      PROVE  \E b \in ToSet(u) : Represents(b, s[i])
  <2> DEFINE Above == {k \in 1..n : Dominates(s[k], s[i])}
  <2>1. i \in Above
    BY DEF Dominates
  <2>2. PICK j \in 1..n : j \in Above /\ \A k \in 1..n : k \in Above => j <= k
    <3> HIDE DEF Above
    <3>1. QED
      BY <1>1, <2>1, LeastPosition
  <2>3. ASSUME NEW k \in 1..(j - 1)
        PROVE  ~Dominates(s[k], s[j])
    <3> SUFFICES ASSUME Dominates(s[k], s[j]) PROVE FALSE
      OBVIOUS
    <3>1. k \in 1..n /\ ~(j <= k)
      BY <1>1
    <3>2. Dominates(s[j], s[i])
      BY <2>2
    <3>3. Dominates(s[k], s[i])
      <4>1. CondSet(s[k]) \subseteq CondSet(s[i])
        BY <3>2 DEF Dominates
      <4>2. QED
        BY <3>2, <4>1 DEF Dominates
    <3>4. QED
      BY <2>2, <3>1, <3>3
  <2>4. s[j] \in ToSet(u)
    BY <1>1, <1>2, <2>3
  <2>5. Represents(s[j], s[i])
    BY <2>2 DEF Dominates, Represents
  <2>6. QED
    BY <2>4, <2>5
<1>4. IsRepresented(s, u)
  <2> HIDE DEF n
  <2>1. QED
    BY <1>1, <1>3 DEF IsRepresented, ToSet
<1>5. QED
  BY <1>2, <1>4

\* Every transition is represented in the graph by one that asks for no more (finalize).
LEMMA FinalizeVertexRepresents ==
    ASSUME NEW t, NEW V \in SUBSET Int, NEW s \in Seq(TransitionSet(t, V))
    PROVE  IsRepresented(s, FinalizeVertex(s))
<1> DEFINE T == TransitionSet(t, V)
           sorted == Unique(SortTransitions(s))
           kept == OnlyAt(sorted, {i \in DOMAIN sorted : \A j \in 1..(i - 1) : ~Dominates(sorted[j], sorted[i])})
           u == [k \in DOMAIN kept |-> [kept[k] EXCEPT !.conditions = SortConditions(@)]]
<1>1. SortTransitions(s) \in Seq(T) /\ IsRepresented(s, SortTransitions(s))
  <2>1. SortTransitions(s) \in Seq(T) /\ ToSet(s) \subseteq ToSet(SortTransitions(s))
    BY SortTransitionsIs
  <2>2. \A a : Represents(a, a)
    BY DEF Represents
  <2>3. QED
    BY <2>1, <2>2 DEF IsRepresented
<1>2. sorted \in Seq(T) /\ IsRepresented(SortTransitions(s), sorted)
  BY <1>1, UniqueRepresents
<1> HIDE DEF sorted
<1>3. kept \in Seq(T) /\ IsRepresented(sorted, kept)
  BY <1>2, DominanceRepresents
<1>4. FinalizeVertex(s) = u
  BY Zenon DEF FinalizeVertex, sorted
<1> HIDE DEF kept
<1>5. ASSUME NEW k \in DOMAIN kept
      PROVE  Represents(u[k], kept[k])
  <2> DEFINE a == kept[k]
             conds == a.conditions
             F == {c \in ConditionSet(V) : <<c.var, c.value>> \in CondSet(a)}
  <2>1. a \in [target : Int, op : Int, type : {"s", "e", "a"}, duration : Int, conditions : Seq(ConditionSet(V))]
    <3>1. a \in T
      BY <1>3
    <3>2. QED
      BY <3>1 DEF TransitionSet
  <2>2. conds \in Seq(ConditionSet(V))
    BY <2>1
  <2>3. conds \in Seq(F)
    <3>1. /\ DOMAIN conds = 1..Len(conds) /\ Len(conds) \in Nat
          /\ \A i \in DOMAIN conds : conds[i] \in ConditionSet(V)
      BY <2>2
    <3>2. \A i \in DOMAIN conds : <<conds[i].var, conds[i].value>> \in CondSet(a)
      BY DEF CondSet
    <3> HIDE DEF conds
    <3>3. \A i \in DOMAIN conds : conds[i] \in F
      BY <3>1, <3>2
    <3>4. conds = [i \in 1..Len(conds) |-> conds[i]]
      BY <2>2, <3>1
    <3> HIDE DEF F
    <3>5. QED
      BY <3>1, <3>3, <3>4
  <2>4. SortConditions(conds) \in Seq(F)
    <3>1. F \in SUBSET ConditionSet(V)
      OBVIOUS
    <3> HIDE DEF F, conds
    <3>2. QED
      BY <2>3, <3>1, SortConditionsIs
  <2>5. u[k] = [a EXCEPT !.conditions = SortConditions(conds)]
    BY Zenon
  <2> HIDE DEF u
  <2>6. u[k].target = a.target /\ u[k].duration = a.duration /\ u[k].conditions = SortConditions(conds)
    BY <2>1, <2>5
  <2>7. CondSet(u[k]) \subseteq CondSet(a)
    <3> DEFINE w == SortConditions(conds)
    <3>1. \A i \in DOMAIN w : w[i] \in F
      BY <2>4
    <3>2. \A c \in F : <<c.var, c.value>> \in CondSet(a)
      OBVIOUS
    <3> HIDE DEF w, F, a
    <3>3. \A i \in DOMAIN w : <<w[i].var, w[i].value>> \in CondSet(a)
      BY <3>1, <3>2
    <3>4. CondSet(u[k]) = {<<w[i].var, w[i].value>> : i \in DOMAIN w}
      BY <2>6 DEF CondSet, w
    <3>5. QED
      BY <3>3, <3>4
  <2>8. QED
    BY <2>6, <2>7 DEF Represents
<1>6. DOMAIN u = DOMAIN kept
  OBVIOUS
<1> HIDE DEF u
<1>7. IsRepresented(kept, u)
  BY <1>5, <1>6 DEF IsRepresented, ToSet
<1>8. IsRepresented(s, u)
  BY <1>1, <1>2, <1>3, <1>7, RepresentedByParts
<1>9. QED
  BY <1>4, <1>8

\* Transitions of a variable by one operator: one for each of its changes from that value.
LEMMA SymbolicTransitionsAre ==
    ASSUME NEW t, TaskType(t), NEW V, V = DOMAIN t.variables, NEW i \in DOMAIN t.operators, NEW x, NEW v
    PROVE  /\ SymbolicTransitions(t, x, v, i) \in Seq(TransitionSet(t, V))
           /\ \A c \in ToSet(Changes(t, t.operators[i])) :
                 c.var = x /\ c.pre # c.post /\ v \in OldValues(t, c) =>
                    \E a \in ToSet(SymbolicTransitions(t, x, v, i)) :
                        /\ a.target = c.post /\ a.duration = t.operators[i].duration
                        /\ a.conditions = TransitionConditions(t.operators[i], x)
<1> DEFINE o == t.operators[i]
           changes == Changes(t, o)
           N == {k \in DOMAIN changes : LET c == changes[k] IN c.var = x /\ c.pre # c.post /\ v \in OldValues(t, c)}
           mine == OnlyAt(changes, N)
           conds == TransitionConditions(o, x)
           transition(k) == [target |-> mine[k].post, op |-> i, type |-> mine[k].type,
                             duration |-> o.duration, conditions |-> conds]
           u == [k \in DOMAIN mine |-> transition(k)]
<1>1. /\ o \in OperatorSet(V) /\ V \in SUBSET Int /\ i \in Int
  <2>1. t.variables \in Seq(VariableSet) /\ t.operators \in Seq(OperatorSet(V))
    BY Zenon DEF TaskType
  <2>2. V \in SUBSET Int
    BY <2>1
  <2>3. o \in OperatorSet(V) /\ i \in Int
    BY <2>1
  <2>4. QED
    BY <2>2, <2>3
<1>2. changes \in Seq(ChangeSet(V))
  <2> HIDE DEF o
  <2>1. PICK after : /\ after \in [0..Len(o.end.prePost) -> Seq(ChangeSet(V))]
                     /\ Collects(after, t, o)
                     /\ changes = after[Len(o.end.prePost)]
    BY <1>1, ChangesCollect
  <2>2. Len(o.end.prePost) \in Nat
    <3>1. o.end.prePost \in Seq(PrePostSet(V))
      BY <1>1 DEF OperatorSet, EffectsSet
    <3>2. QED
      BY <3>1
  <2>3. QED
    BY <2>1, <2>2
<1>3. conds \in Seq(ConditionSet(V))
  <2> HIDE DEF o
  <2>1. conds \in Seq(GroundedSet(V, Grounds(o, x)))
    BY <1>1, TransitionConditionsAreGrounded
  <2>2. GroundedSet(V, Grounds(o, x)) \subseteq ConditionSet(V)
    BY DEF GroundedSet
  <2> HIDE DEF conds
  <2>3. QED
    BY <2>1, <2>2
<1>4. SymbolicTransitions(t, x, v, i) = u
  BY Zenon DEF SymbolicTransitions
<1>5. o.duration \in Int
  BY <1>1 DEF OperatorSet
<1> HIDE DEF changes, conds, N
<1>6. /\ mine \in Seq(ChangeSet(V))
      /\ ToSet(mine) = {changes[k] : k \in {j \in DOMAIN changes : j \in N}}
  BY <1>2, OnlyAtIs
<1> HIDE DEF mine
<1>7. DOMAIN mine = 1..Len(mine) /\ Len(mine) \in Nat /\ \A k \in DOMAIN mine : mine[k] \in ChangeSet(V)
  BY <1>6
<1>8. \A k \in DOMAIN mine : transition(k) \in TransitionSet(t, V)
  <2> TAKE k \in DOMAIN mine
  <2>1. mine[k].post \in Int /\ mine[k].type \in {"s", "e"}
    BY <1>7 DEF ChangeSet
  <2>2. QED
    BY <1>1, <1>3, <1>5, <2>1 DEF TransitionSet
<1>9. u \in Seq(TransitionSet(t, V))
  <2> HIDE DEF transition
  <2>1. QED
    BY <1>7, <1>8
<1>10. ASSUME NEW c \in ToSet(changes), c.var = x, c.pre # c.post, v \in OldValues(t, c)
       PROVE  \E a \in ToSet(u) : a.target = c.post /\ a.duration = o.duration /\ a.conditions = conds
  <2>1. PICK j \in DOMAIN changes : changes[j] = c
    BY DEF ToSet
  <2>2. j \in N
    BY <1>10, <2>1 DEF N
  <2>3. c \in ToSet(mine)
    BY <1>6, <2>1, <2>2
  <2>4. PICK k \in DOMAIN mine : mine[k] = c
    BY <2>3 DEF ToSet
  <2>5. u[k].target = c.post /\ u[k].duration = o.duration /\ u[k].conditions = conds /\ k \in DOMAIN u
    BY <2>4
  <2> HIDE DEF u
  <2>6. u[k] \in ToSet(u)
    BY <2>5 DEF ToSet
  <2>7. QED
    BY <2>5, <2>6
<1> HIDE DEF u, o
<1>11. QED
  BY <1>4, <1>9, <1>10 DEF changes, conds, o

\* Axioms add transitions without a duration.
LEMMA AxiomTransitionsType ==
    ASSUME NEW t, TaskType(t), NEW V, V = DOMAIN t.variables, NEW x, NEW v
    PROVE  AxiomTransitions(t, x, v) \in Seq(TransitionSet(t, V))
<1> DEFINE L == Len(t.relational)
           all == [i \in DOMAIN t.relational |-> i]
           N == {i \in DOMAIN t.relational : t.relational[i].effect = x /\ t.relational[i].old = v}
           mine == OnlyAt(all, N)
           transition(k) == [target |-> t.relational[mine[k]].new, op |-> mine[k], type |-> "a", duration |-> 0,
                             conditions |-> Typed(t.relational[mine[k]].conditions, "a")]
           u == [k \in DOMAIN mine |-> transition(k)]
<1>1. L \in Nat /\ DOMAIN t.relational = 1..L /\ \A i \in 1..L : t.relational[i] \in RelationalSet(V)
  <2>1. t.relational \in Seq(RelationalSet(V))
    BY DEF TaskType
  <2>2. QED
    BY <2>1
<1>2. all \in Seq(1..L)
  BY <1>1
<1>3. AxiomTransitions(t, x, v) = u
  BY Zenon DEF AxiomTransitions
<1> HIDE DEF all, N
<1>4. mine \in Seq(1..L)
  BY <1>2, OnlyAtType
<1> HIDE DEF mine
<1>5. DOMAIN mine = 1..Len(mine) /\ Len(mine) \in Nat /\ \A k \in DOMAIN mine : mine[k] \in 1..L
  BY <1>4
<1>6. ASSUME NEW k \in DOMAIN mine
      PROVE  transition(k) \in TransitionSet(t, V)
  <2> DEFINE a == t.relational[mine[k]]
             conds == Typed(a.conditions, "a")
  <2>1. a.new \in Int /\ a.conditions \in Conditions(V) /\ mine[k] \in Int
    <3>1. a \in RelationalSet(V) /\ mine[k] \in Int
      BY <1>1, <1>5
    <3>2. QED
      BY <3>1 DEF RelationalSet
  <2> HIDE DEF a
  <2>2. conds \in Seq(ConditionSet(V))
    <3>1. conds \in Seq(GroundedSet(V, ToSet(a.conditions)))
      BY <2>1, TypedIsGrounded
    <3>2. GroundedSet(V, ToSet(a.conditions)) \subseteq ConditionSet(V)
      BY DEF GroundedSet
    <3> HIDE DEF conds
    <3>3. QED
      BY <3>1, <3>2
  <2> HIDE DEF conds
  <2>3. [target |-> a.new, op |-> mine[k], type |-> "a", duration |-> 0, conditions |-> conds] \in TransitionSet(t, V)
    BY <2>1, <2>2 DEF TransitionSet
  <2>4. QED
    BY <2>3 DEF a, conds
<1> HIDE DEF transition
<1>7. u \in Seq(TransitionSet(t, V))
  BY <1>5, <1>6
<1>8. QED
  BY <1>3, <1>7

\* What the graph of a symbolic variable holds at value v, before it is finalized.
Outgoing(t, x, v) ==
    FlattenSeq([i \in DOMAIN t.operators |-> SymbolicTransitions(t, x, v, i)]) \o AxiomTransitions(t, x, v)

\* No transition is lost on the way there.
LEMMA OutgoingHolds ==
    ASSUME NEW t, TaskType(t), NEW V, V = DOMAIN t.variables, NEW x, NEW v
    PROVE  /\ Outgoing(t, x, v) \in Seq(TransitionSet(t, V))
           /\ \A i \in DOMAIN t.operators : ToSet(SymbolicTransitions(t, x, v, i)) \subseteq ToSet(Outgoing(t, x, v))
<1> DEFINE T == TransitionSet(t, V)
           M == Len(t.operators)
           parts == [i \in DOMAIN t.operators |-> SymbolicTransitions(t, x, v, i)]
           axioms == AxiomTransitions(t, x, v)
<1>1. M \in Nat /\ DOMAIN t.operators = 1..M
  <2>1. t.operators \in Seq(OperatorSet(V))
    BY DEF TaskType
  <2>2. QED
    BY <2>1
<1>2. \A i \in 1..M : SymbolicTransitions(t, x, v, i) \in Seq(T)
  BY <1>1, SymbolicTransitionsAre
<1>3. axioms \in Seq(T)
  BY AxiomTransitionsType
<1> HIDE DEF T
<1>4. parts \in Seq(Seq(T)) /\ DOMAIN parts = 1..M /\ \A i \in 1..M : parts[i] = SymbolicTransitions(t, x, v, i)
  BY <1>1, <1>2
<1> HIDE DEF parts, axioms
<1>5. /\ FlattenSeq(parts) \in Seq(T)
      /\ ToSet(FlattenSeq(parts)) = UNION {ToSet(parts[i]) : i \in DOMAIN parts}
  BY <1>4, FlattenSeqHolds
<1> DEFINE w == FlattenSeq(parts)
<1> HIDE DEF w
<1>6. w \o axioms \in Seq(T) /\ ToSet(w \o axioms) = ToSet(w) \cup ToSet(axioms)
  BY <1>3, <1>5, ConcatHolds DEF w
<1>7. Outgoing(t, x, v) = w \o axioms
  BY DEF Outgoing, w, parts, axioms
<1>8. \A i \in 1..M : ToSet(parts[i]) \subseteq ToSet(w)
  BY <1>4, <1>5 DEF w
<1>9. QED
  BY <1>1, <1>4, <1>6, <1>7, <1>8 DEF T

\* The graph of a symbolic variable.
LEMMA VerticesAre ==
    ASSUME NEW t, NEW x, NEW needed, BuildDTG(t, x, needed).kind = "symbolic"
    PROVE  BuildDTG(t, x, needed).vertices =
              [v \in 1..t.variables[x].range |-> FinalizeVertex(Outgoing(t, x, v - 1))]
  BY Zenon DEF BuildDTG, Outgoing

\* The graphs are those of the stripped task.
TransitionsInv ==
    /\ PruningInv
    /\ graphs = <<>> \/ (/\ stage \in {"transition graphs", "generator", "written", "aborted"}
                         /\ graphs = BuildDTGs(task, ordering, necessary))

\* Every phase of main() keeps the invariant.
LEMMA NextTransitionsInv == TransitionsInv /\ [Next]_vars => TransitionsInv'
<1> SUFFICES ASSUME TransitionsInv, [Next]_vars
             PROVE  TransitionsInv'
  OBVIOUS
<1>1. PruningInv'
  BY NextPruningInv DEF TransitionsInv
<1>2. CASE BuildCausalGraph
  BY <1>1, <1>2 DEF BuildCausalGraph, TransitionsInv
<1>3. CASE StripTask
  BY <1>1, <1>3 DEF StripTask, TransitionsInv
<1>4. CASE BuildTransitionGraphs
  <2>1. /\ stage' = "transition graphs" /\ task' = task /\ ordering' = ordering /\ necessary' = necessary
        /\ graphs' = BuildDTGs(task, ordering, necessary)
    BY <1>4 DEF BuildTransitionGraphs
  <2>2. QED
    BY <1>1, <2>1 DEF TransitionsInv
<1>5. CASE BuildSuccessorGenerator
  BY <1>1, <1>5 DEF BuildSuccessorGenerator, TransitionsInv
<1>6. CASE WriteOutput
  BY <1>1, <1>6 DEF WriteOutput, TransitionsInv
<1>7. CASE Abort
  BY <1>1, <1>7 DEF Abort, TransitionsInv
<1>8. CASE UNCHANGED vars
  BY <1>1, <1>8 DEF vars, TransitionsInv
<1>9. QED
  BY <1>2, <1>3, <1>4, <1>5, <1>6, <1>7, <1>8 DEF Next

\* In graphs that were built for a task every change has its transition.
LEMMA GraphsAreComplete ==
    ASSUME TaskType(task), ordering \in Seq(DOMAIN task.variables), graphs = BuildDTGs(task, ordering, necessary)
    PROVE  EveryChangeHasATransition
<1> DEFINE V == DOMAIN task.variables
<1>1. /\ V \in SUBSET Int
      /\ \A i \in DOMAIN task.operators : task.operators[i] \in OperatorSet(V)
      /\ \A x \in V : task.variables[x].range \in Int
  <2>1. task.variables \in Seq(VariableSet) /\ task.operators \in Seq(OperatorSet(V))
    BY Zenon DEF TaskType
  <2>2. V \in SUBSET Int
    BY <2>1
  <2>3. \A x \in V : task.variables[x].range \in Int
    <3>1. \A x \in V : task.variables[x] \in VariableSet
      BY <2>1
    <3> HIDE DEF V
    <3>2. QED
      BY <3>1 DEF VariableSet
  <2> HIDE DEF V
  <2>4. QED
    BY <2>1, <2>2, <2>3
<1>2. \A k \in DOMAIN ordering : ordering[k] \in V /\ graphs[k] = BuildDTG(task, ordering[k], necessary)
  BY DEF BuildDTGs
<1>3. ASSUME NEW k \in DOMAIN ordering, graphs[k].kind = "symbolic", NEW i \in DOMAIN task.operators,
             ChangesOnce(task.operators[i], ordering[k]), NEW p \in Possible(task.operators[i], ordering[k])
      PROVE  \E a \in ToSet(graphs[k].vertices[p[1] + 1]) :
                /\ a.target = p[2]
                /\ a.duration = task.operators[i].duration
                /\ CondSet(a) \subseteq Grounds(task.operators[i], ordering[k])
  <2> DEFINE x == ordering[k]
             o == task.operators[i]
             values == 0..(task.variables[x].range - 1)
             out == Outgoing(task, x, p[1])
  <2>1. x \in V /\ o \in OperatorSet(V) /\ graphs[k] = BuildDTG(task, x, necessary)
    BY <1>1, <1>2
  <2>2. p[1] \in values
    <3>1. Possible(o, x) \subseteq values \X values
      BY Zenon DEF Possible
    <3>2. p \in Possible(o, x)
      BY <1>3
    <3> HIDE DEF values, o, x
    <3>3. QED
      BY <3>1, <3>2
  <2>3. graphs[k].vertices[p[1] + 1] = FinalizeVertex(out)
    <3>1. graphs[k].vertices = [v \in 1..task.variables[x].range |-> FinalizeVertex(Outgoing(task, x, v - 1))]
      BY <1>3, <2>1, VerticesAre
    <3>2. p[1] + 1 \in 1..task.variables[x].range /\ (p[1] + 1) - 1 = p[1]
      <4>1. task.variables[x].range \in Int
        BY <1>1, <2>1
      <4>2. QED
        BY <2>2, <4>1
    <3> HIDE DEF x
    <3>3. QED
      BY <3>1, <3>2
  <2>4. PICK c \in ToSet(Changes(task, o)) :
           c.var = x /\ c.pre # c.post /\ p[1] \in OldValues(task, c) /\ c.post = p[2]
    <3> HIDE DEF V
    <3>1. ChangesOnce(o, x) /\ p \in Possible(o, x) /\ task.variables[x].range \in Int
      BY <1>1, <1>3, <2>1
    <3> HIDE DEF x, o
    <3>2. QED
      BY <2>1, <3>1, PossibleIsCollected DEF V
  <2> HIDE DEF values
  <2>5. PICK a \in ToSet(SymbolicTransitions(task, x, p[1], i)) :
           a.target = p[2] /\ a.duration = o.duration /\ a.conditions = TransitionConditions(o, x)
    <3> HIDE DEF x
    <3>1. \A d \in ToSet(Changes(task, task.operators[i])) :
             d.var = x /\ d.pre # d.post /\ p[1] \in OldValues(task, d) =>
                \E a \in ToSet(SymbolicTransitions(task, x, p[1], i)) :
                    /\ a.target = d.post /\ a.duration = task.operators[i].duration
                    /\ a.conditions = TransitionConditions(task.operators[i], x)
      BY SymbolicTransitionsAre
    <3>2. QED
      BY <2>4, <3>1
  <2>6. out \in Seq(TransitionSet(task, V)) /\ a \in ToSet(out)
    <3> HIDE DEF x
    <3>1. /\ out \in Seq(TransitionSet(task, V))
          /\ \A j \in DOMAIN task.operators : ToSet(SymbolicTransitions(task, x, p[1], j)) \subseteq ToSet(out)
      BY OutgoingHolds
    <3> HIDE DEF out
    <3>2. QED
      BY <2>5, <3>1
  <2>7. CondSet(a) \subseteq Grounds(o, x)
    <3> DEFINE conds == TransitionConditions(o, x)
    <3> HIDE DEF x, o
    <3>1. conds \in Seq(GroundedSet(V, Grounds(o, x)))
      BY <1>1, <2>1, TransitionConditionsAreGrounded
    <3> HIDE DEF conds
    <3>2. \A j \in DOMAIN conds : conds[j] \in GroundedSet(V, Grounds(o, x))
      BY <3>1
    <3>3. \A j \in DOMAIN conds : <<conds[j].var, conds[j].value>> \in Grounds(o, x)
      BY <3>2 DEF GroundedSet
    <3>4. a.conditions = conds
      BY <2>5 DEF conds
    <3>5. QED
      BY <3>3, <3>4 DEF CondSet
  <2> HIDE DEF out
  <2>8. PICK b \in ToSet(FinalizeVertex(out)) : Represents(b, a)
    <3>1. IsRepresented(out, FinalizeVertex(out))
      BY <1>1, <2>6, FinalizeVertexRepresents
    <3>2. QED
      BY <2>6, <3>1 DEF IsRepresented
  <2>9. b.target = p[2] /\ b.duration = o.duration /\ CondSet(b) \subseteq Grounds(o, x)
    <3> HIDE DEF o, x
    <3>1. QED
      BY <2>5, <2>7, <2>8 DEF Represents
  <2>10. b \in ToSet(graphs[k].vertices[p[1] + 1])
    BY <2>3, <2>8
  <2>11. QED
    BY <2>9, <2>10
<1> HIDE DEF V
<1>4. ASSUME NEW k \in DOMAIN ordering, graphs[k].kind = "symbolic", NEW o \in ToSet(task.operators),
             ChangesOnce(o, ordering[k]), NEW p \in Possible(o, ordering[k])
      PROVE  \E a \in ToSet(graphs[k].vertices[p[1] + 1]) :
                a.target = p[2] /\ a.duration = o.duration /\ CondSet(a) \subseteq Grounds(o, ordering[k])
  <2>1. PICK i \in DOMAIN task.operators : task.operators[i] = o
    BY DEF ToSet
  <2>2. QED
    BY <1>3, <1>4, <2>1
<1>5. QED
  BY <1>4, Zenon DEF EveryChangeHasATransition

\* In every task, in every state, each change that an operator with at most one
\* effect at start and one at end can make to a symbolic variable has its transition.
THEOREM SpecEveryChangeHasATransition == Spec => []EveryChangeHasATransition
<1>1. Init => TransitionsInv
  BY InitPruningInv DEF Init, TransitionsInv
<1>2. TransitionsInv => EveryChangeHasATransition
  <2> SUFFICES ASSUME TransitionsInv, graphs # <<>> PROVE EveryChangeHasATransition
    BY DEF EveryChangeHasATransition
  <2>1. TaskType(task) /\ ordering \in Seq(DOMAIN task.variables) /\ graphs = BuildDTGs(task, ordering, necessary)
    BY DEF TransitionsInv, PruningInv
  <2>2. QED
    BY <2>1, GraphsAreComplete
<1>3. QED
  BY <1>1, NextTransitionsInv, <1>2, PTL DEF Spec
=============================================================================
