------------------------ MODULE TimeStampedStateProofs ------------------------
(***************************************************************************)
(* What the operators of TimeStampedState return, for every temporal task: *)
(* the lemmas that the theorems about the branches of the search rest on.  *)
(***************************************************************************)
EXTENDS Monitoring, FiniteSetTheorems, WellFoundedInduction, TLAPS

----------------------------------------------------------------------------
(* Natural numbers                                                         *)

\* Least picks the least element of a nonempty set of natural numbers (the end
\* of the next running operator).
LEMMA LeastIsLeast ==
    ASSUME NEW S \in SUBSET Nat, S # {}
    PROVE  /\ Least(S) \in S
           /\ \A j \in S : Least(S) <= j
<1> DEFINE Smaller == {ss \in Nat \X Nat : ss[1] < ss[2]}
<1>1. IsWellFoundedOn(Smaller, Nat)
  BY NatLessThanWellFounded, Zenon DEF OpToRel
<1>2. PICK t \in S : \A j \in S : <<j, t>> \notin Smaller
  BY <1>1, WFMin, Zenon
<1>3. \A j \in S : t <= j
  <2> TAKE j \in S
  <2>1. <<j, t>> \in Nat \X Nat /\ <<j, t>>[1] = j /\ <<j, t>>[2] = t
    OBVIOUS
  <2>2. ~(j < t)
    BY <1>2, <2>1, Zenon
  <2>3. QED
    BY <2>2
<1>4. QED
  BY <1>2, <1>3, Zenon DEF Least

\* A set that holds 0, and with a number below n the next, holds all up to n.
LEMMA UpTo ==
    ASSUME NEW n \in Nat, NEW P, 0 \in P, \A k \in 0..(n - 1) : k \in P => k + 1 \in P
    PROVE  \A k \in 0..n : k \in P
<1> DEFINE Bad == {k \in 0..n : k \notin P}
           m == Least(Bad)
<1> SUFFICES ASSUME Bad # {} PROVE FALSE
  OBVIOUS
<1>1. Bad \in SUBSET Nat
  OBVIOUS
<1>2. m \in Bad /\ \A j \in Bad : m <= j
  <2> HIDE DEF Bad
  <2>1. QED
    BY <1>1, LeastIsLeast
<1> HIDE DEF m
<1>3. m \in 0..n /\ m \notin P /\ m # 0
  BY <1>2
<1>4. m - 1 \in 0..(n - 1) /\ (m - 1) + 1 = m
  BY <1>3
<1>5. m - 1 \notin Bad
  BY <1>2, <1>4
<1>6. m - 1 \in P
  BY <1>4, <1>5
<1>7. QED
  BY <1>3, <1>4, <1>6

----------------------------------------------------------------------------
(* The progression of a state to its end                                   *)

\* The ends of what runs in s.
Ends(s) == {x.increment : x \in {y \in s.operators : y.increment > 0}}

\* The k-th state of a progression, from the one before it.
Progressed(k, t) == IF k % 2 = 1 THEN PassToIntermediate(t) ELSE LetTimePass(t, FALSE)

\* An odd step goes half way, an even one to the happening.
LEMMA ProgressedIs ==
    ASSUME NEW k \in Nat, NEW t
    PROVE  /\ Progressed(1, t) = PassToIntermediate(t)
           /\ Progressed(2, t) = LetTimePass(t, FALSE)
           /\ Progressed(k + 2, t) = Progressed(k, t)
<1>1. 1 % 2 = 1 /\ 2 % 2 # 1 /\ (k + 2) % 2 = k % 2
  OBVIOUS
<1>2. QED
  BY <1>1, Zenon DEF Progressed

\* The loop of is_consistent_when_progressed: the progression of a state is as
\* long as there are ends, and every state in it comes from the one before.
LEMMA ProgressionIs ==
    ASSUME NEW s, Cardinality(Ends(s)) \in Nat
    PROVE  Progression(s) = [k \in 0..(2 * Cardinality(Ends(s))) |->
                                IF k = 0 THEN s ELSE Progressed(k, Progression(s)[k - 1])]
<1> DEFINE n == 2 * Cardinality(Ends(s))
           Good == {m \in Nat : \E f : f = [k \in 0..m |->
                        IF k = 0 THEN s ELSE Progressed(k, f[k - 1])]}
<1>1. n \in Nat
  OBVIOUS
<1>2. 0 \in Good
  <2> DEFINE f == [k \in 0..0 |-> s]
  <2>1. f = [k \in 0..0 |-> IF k = 0 THEN s ELSE Progressed(k, f[k - 1])]
    OBVIOUS
  <2>2. QED
    BY <2>1
<1>3. ASSUME NEW m \in 0..(n - 1), m \in Good
      PROVE  m + 1 \in Good
  <2>1. PICK f : f = [k \in 0..m |-> IF k = 0 THEN s ELSE Progressed(k, f[k - 1])]
    BY <1>3
  <2> DEFINE g == [k \in 0..(m + 1) |-> IF k <= m THEN f[k] ELSE Progressed(k, f[k - 1])]
  <2>2. \A k \in 0..(m + 1) : g[k] = IF k = 0 THEN s ELSE Progressed(k, g[k - 1])
    <3> TAKE k \in 0..(m + 1)
    <3>1. k # 0 => k - 1 \in 0..m /\ g[k - 1] = f[k - 1]
      BY m \in Nat
    <3>2. CASE k <= m
      <4>1. k \in 0..m /\ g[k] = f[k]
        BY <3>2
      <4>2. f[k] = IF k = 0 THEN s ELSE Progressed(k, f[k - 1])
        BY <2>1, <4>1, Zenon
      <4> HIDE DEF g
      <4>3. QED
        BY <3>1, <4>1, <4>2
    <3>3. CASE ~(k <= m)
      <4>1. k # 0 /\ g[k] = Progressed(k, f[k - 1])
        BY <3>3, m \in Nat
      <4> HIDE DEF g
      <4>2. QED
        BY <3>1, <4>1
    <3>4. QED
      BY <3>2, <3>3
  <2>3. g = [k \in 0..(m + 1) |-> IF k = 0 THEN s ELSE Progressed(k, g[k - 1])]
    <3>1. g = [k \in 0..(m + 1) |-> g[k]]
      OBVIOUS
    <3> HIDE DEF g
    <3>2. QED
      BY <2>2, <3>1
  <2>4. m + 1 \in Nat
    BY <1>3
  <2> HIDE DEF g
  <2>5. QED
    BY <2>3, <2>4
<1>4. n \in 0..n
  BY <1>1
<1>5. n \in Good
  <2> HIDE DEF n, Good
  <2>1. QED
    BY <1>1, <1>2, <1>3, <1>4, UpTo
<1>6. Progression(s) = CHOOSE f : f = [k \in 0..n |-> IF k = 0 THEN s ELSE Progressed(k, f[k - 1])]
  BY Zenon DEF Progression, Progressed, Ends
<1>7. PICK f : f = [k \in 0..n |-> IF k = 0 THEN s ELSE Progressed(k, f[k - 1])]
  BY <1>5
<1> HIDE DEF n
<1>8. QED
  BY <1>6, <1>7, Zenon DEF n

----------------------------------------------------------------------------
(* Effects that are due together                                           *)

\* Scheduled effects, as seen when they are due.
DueEffect == [increment : Int, effect : Effect, op : Op]

\* The order of the effects is strict.
LEMMA PrecedesIsStrict ==
    ASSUME NEW e \in DueEffect, NEW f \in DueEffect, NEW g \in DueEffect
    PROVE  /\ ~Precedes(e, e)
           /\ Precedes(e, f) /\ Precedes(f, g) => Precedes(e, g)
<1>1. ASSUME NEW x \in DueEffect
      PROVE  /\ x.increment \in Int /\ x.effect.var \in Int
             /\ x.effect.pre \in Int /\ x.effect.post \in Int
  <2>1. x.increment \in Int /\ x.effect \in Effect
    BY DEF DueEffect
  <2>2. x.effect.var \in Var /\ x.effect.pre \in Val \cup {-1} /\ x.effect.post \in Val
    BY <2>1 DEF Effect
  <2>3. (\A v \in Var : v \in Int) /\ (\A v \in Val \cup {-1} : v \in Int)
    <3>1. Var \subseteq Nat /\ Val \subseteq Nat
      BY TaskAssumption, Zenon
    <3>2. QED
      BY <3>1
  <2>4. QED
    BY <2>1, <2>2, <2>3, Zenon
<1>2. QED
  BY <1>1 DEF Precedes

\* Of finitely many effects there is a last one.
LEMMA LastEffect ==
    ASSUME NEW S, IsFiniteSet(S), S \subseteq DueEffect, S # {}
    PROVE  \E x \in S : \A y \in S : ~Precedes(x, y)
<1> DEFINE Last(T) == \E x \in T : \A y \in T : ~Precedes(x, y)
           Good == {n \in Nat : \A T \in SUBSET S : Cardinality(T) = n /\ T # {} => Last(T)}
           N == Cardinality(S)
<1>1. N \in Nat
  BY FS_CardinalityType
<1>2. \A T \in SUBSET S : IsFiniteSet(T)
  BY FS_Subset
<1>3. 0 \in Good
  BY <1>2, FS_EmptySet
<1>4. ASSUME NEW n \in 0..(N - 1), n \in Good
      PROVE  n + 1 \in Good
  <2> SUFFICES ASSUME NEW T \in SUBSET S, Cardinality(T) = n + 1, T # {}
               PROVE  Last(T)
    BY <1>4
  <2>1. PICK z \in T : TRUE
    OBVIOUS
  <2>2. Cardinality(T \ {z}) = n
    <3>1. IsFiniteSet(T)
      BY <1>2
    <3>2. Cardinality(T \ {z}) = Cardinality(T) - 1
      BY <2>1, <3>1, FS_RemoveElement
    <3>3. QED
      BY <3>2, n \in Nat
  <2>3. z \in DueEffect
    OBVIOUS
  <2>4. CASE T \ {z} = {}
    <3>1. ~Precedes(z, z)
      BY <2>3, PrecedesIsStrict, Zenon
    <3>2. \A y \in T : y = z
      BY <2>4
    <3>3. QED
      BY <3>1, <3>2, <2>1, Zenon
  <2>5. CASE T \ {z} # {}
    <3>1. PICK x \in T \ {z} : \A y \in T \ {z} : ~Precedes(x, y)
      <4>1. T \ {z} \in SUBSET S
        OBVIOUS
      <4>2. Last(T \ {z})
        <5> HIDE DEF Last
        <5>1. QED
          BY <1>4, <2>2, <2>5, <4>1
      <4>3. QED
        BY <4>2
    <3>2. CASE Precedes(x, z)
      <4>1. \A y \in T : ~Precedes(z, y)
        <5> TAKE y \in T
        <5>1. x \in DueEffect /\ y \in DueEffect
          OBVIOUS
        <5>2. CASE y = z
          BY <5>2, <2>3, PrecedesIsStrict, Zenon
        <5>3. CASE y # z
          BY <5>1, <5>3, <2>3, <3>1, <3>2, PrecedesIsStrict, Zenon
        <5>4. QED
          BY <5>2, <5>3
      <4>2. QED
        BY <4>1, <2>1, Zenon
    <3>3. CASE ~Precedes(x, z)
      BY <3>1, <3>3, Zenon
    <3>4. QED
      BY <3>2, <3>3
  <2>6. QED
    BY <2>4, <2>5
<1>5. N \in Good
  <2>1. N \in 0..N
    BY <1>1
  <2> HIDE DEF Good, N
  <2>2. QED
    BY <1>1, <1>3, <1>4, <2>1, UpTo
<1> HIDE DEF Last
<1>6. QED
  <2>1. Last(S)
    BY <1>5
  <2>2. QED
    BY <2>1 DEF Last

\* The last effect of S, and the values after the effects S when after[T] are
\* those after fewer effects T.
LastOf(S) == CHOOSE x \in S : \A y \in S : ~Precedes(x, y)
AfterEffects(after, S, value) ==
    IF S = {} THEN value
    ELSE LET before == after[S \ {LastOf(S)}]
         IN  IF Holds(LastOf(S).effect.end, before)
             THEN [before EXCEPT ![LastOf(S).effect.var] = LastOf(S).effect.post] ELSE before

\* The values after a finite set of effects are those after all but the last
\* one, changed by the last one if its conditions hold then.
LEMMA OutcomeIs ==
    ASSUME NEW E, IsFiniteSet(E), E \subseteq DueEffect, NEW value
    PROVE  \E after : /\ Outcome(E, value) = after[E]
                      /\ \A S \in SUBSET E : after[S] = AfterEffects(after, S, value)
<1> DEFINE N == Cardinality(E)
           Good == {n \in Nat : \E f : \A S \in SUBSET E :
                        Cardinality(S) <= n => f[S] = AfterEffects(f, S, value)}
<1>1. N \in Nat
  BY FS_CardinalityType
<1>2. \A S \in SUBSET E : IsFiniteSet(S) /\ Cardinality(S) \in Nat /\ Cardinality(S) <= N
  BY FS_Subset, FS_CardinalityType
<1>3. ASSUME NEW S \in SUBSET E, S # {}
      PROVE  S \ {LastOf(S)} \in SUBSET E /\ Cardinality(S \ {LastOf(S)}) = Cardinality(S) - 1
  <2>1. LastOf(S) \in S
    BY <1>2, <1>3, LastEffect, Zenon DEF LastOf
  <2>2. QED
    BY <1>2, <2>1, FS_RemoveElement
<1>4. 0 \in Good
  <2> DEFINE f == [S \in SUBSET E |-> value]
  <2>1. \A S \in SUBSET E : Cardinality(S) <= 0 => f[S] = AfterEffects(f, S, value)
    <3>1. \A S \in SUBSET E : Cardinality(S) <= 0 => S = {}
      BY <1>2, FS_EmptySet
    <3>2. QED
      BY <3>1 DEF AfterEffects
  <2> HIDE DEF f
  <2>2. QED
    BY <2>1
<1>5. ASSUME NEW n \in 0..(N - 1), n \in Good
      PROVE  n + 1 \in Good
  <2>1. PICK f : \A S \in SUBSET E : Cardinality(S) <= n => f[S] = AfterEffects(f, S, value)
    BY <1>5
  <2> DEFINE g == [S \in SUBSET E |-> IF Cardinality(S) <= n THEN f[S]
                                       ELSE AfterEffects(f, S, value)]
  <2>2. ASSUME NEW S \in SUBSET E, Cardinality(S) <= n + 1
        PROVE  g[S] = AfterEffects(g, S, value)
    <3>1. g[S] = AfterEffects(f, S, value)
      BY <2>1
    <3>2. CASE S = {}
      BY <3>1, <3>2 DEF AfterEffects
    <3>3. CASE S # {}
      <4>1. g[S \ {LastOf(S)}] = f[S \ {LastOf(S)}]
        <5>1. Cardinality(S \ {LastOf(S)}) <= n
          <6>1. Cardinality(S \ {LastOf(S)}) = Cardinality(S) - 1 /\ Cardinality(S) \in Nat
            BY <1>2, <1>3, <3>3
          <6> QED
            BY <2>2, <6>1, n \in Nat
        <5>2. QED
          BY <1>3, <3>3, <5>1
      <4> HIDE DEF g
      <4>2. QED
        BY <3>1, <4>1, Zenon DEF AfterEffects
    <3>4. QED
      BY <3>2, <3>3
  <2> HIDE DEF g
  <2>3. n + 1 \in Nat
    BY <1>5
  <2>4. QED
    BY <2>2, <2>3
<1>6. N \in Good
  <2>1. N \in 0..N
    BY <1>1
  <2> HIDE DEF Good, N
  <2>2. QED
    BY <1>1, <1>4, <1>5, <2>1, UpTo
<1>7. PICK f : \A S \in SUBSET E : Cardinality(S) <= N => f[S] = AfterEffects(f, S, value)
  BY <1>6
<1> DEFINE whole == [S \in SUBSET E |-> f[S]]
           Solves(after) == after = [S \in SUBSET E |-> AfterEffects(after, S, value)]
<1>8. Solves(whole)
  <2>1. \A S \in SUBSET E : whole[S] = AfterEffects(whole, S, value)
    <3> TAKE S \in SUBSET E
    <3>1. f[S] = AfterEffects(f, S, value) /\ whole[S] = f[S]
      BY <1>2, <1>7
    <3>2. S # {} => whole[S \ {LastOf(S)}] = f[S \ {LastOf(S)}]
      BY <1>3
    <3> HIDE DEF whole
    <3>3. QED
      BY <3>1, <3>2, Zenon DEF AfterEffects
  <2>2. whole = [S \in SUBSET E |-> whole[S]]
    OBVIOUS
  <2> HIDE DEF whole
  <2>3. QED
    BY <2>1, <2>2
<1> DEFINE after == CHOOSE h : Solves(h)
<1>9. Outcome(E, value) = after[E]
  BY Zenon DEF Outcome, AfterEffects, LastOf
<1>10. Solves(after)
  <2> HIDE DEF Solves, whole
  <2>1. QED
    BY <1>8, Zenon
<1> HIDE DEF after
<1>11. QED
  BY <1>9, <1>10

\* The effects due explain the new value of a variable: it is set by one of
\* them, or none of them had to fire.
LEMMA OutcomeExplained ==
    ASSUME NEW E, IsFiniteSet(E), E \subseteq DueEffect, NEW value \in [Var -> Val]
    PROVE  /\ Outcome(E, value) \in [Var -> Val]
           /\ \A x \in Var :
                \/ \E e \in E : e.effect.var = x /\ Outcome(E, value)[x] = e.effect.post
                \/ /\ Outcome(E, value)[x] = value[x]
                   /\ \A e \in E : e.effect.var = x => e.effect.end # {}
<1> DEFINE Set(S, v, x) == \E e \in S : e.effect.var = x /\ v[x] = e.effect.post
           Kept(S, v, x) == v[x] = value[x] /\ \A e \in S : e.effect.var = x => e.effect.end # {}
           Right(S, v) == v \in [Var -> Val] /\ \A x \in Var : Set(S, v, x) \/ Kept(S, v, x)
           N == Cardinality(E)
<1>1. PICK after : /\ Outcome(E, value) = after[E]
                   /\ \A S \in SUBSET E : after[S] = AfterEffects(after, S, value)
  BY OutcomeIs
<1> DEFINE Good == {n \in Nat : \A S \in SUBSET E : Cardinality(S) = n => Right(S, after[S])}
<1>2. N \in Nat
  BY FS_CardinalityType
<1>3. \A S \in SUBSET E : IsFiniteSet(S)
  BY FS_Subset
<1>4. 0 \in Good
  <2> SUFFICES ASSUME NEW S \in SUBSET E, Cardinality(S) = 0
               PROVE  Right(S, after[S])
    OBVIOUS
  <2>1. S = {}
    BY <1>3, FS_EmptySet
  <2>2. after[S] = value
    BY <1>1, <2>1 DEF AfterEffects
  <2>3. QED
    BY <2>1, <2>2
<1>5. ASSUME NEW n \in 0..(N - 1), n \in Good
      PROVE  n + 1 \in Good
  <2> SUFFICES ASSUME NEW S \in SUBSET E, Cardinality(S) = n + 1
               PROVE  Right(S, after[S])
    BY <1>5
  <2> DEFINE e == LastOf(S)
             before == after[S \ {e}]
  <2>1. S # {}
    BY FS_EmptySet, n \in Nat
  <2>2. e \in S
    BY <1>3, <2>1, LastEffect, Zenon DEF LastOf
  <2>3. e.effect.var \in Var /\ e.effect.post \in Val
    BY <2>2 DEF DueEffect, Effect
  <2>4. Cardinality(S \ {e}) = n
    <3>1. Cardinality(S \ {e}) = Cardinality(S) - 1
      BY <1>3, <2>2, FS_RemoveElement
    <3>2. QED
      BY <3>1, n \in Nat
  <2>5. Right(S \ {e}, before)
    <3>1. S \ {e} \in SUBSET E
      OBVIOUS
    <3> HIDE DEF Right, e
    <3>2. QED
      BY <1>5, <2>4, <3>1
  <2>6. after[S] = IF Holds(e.effect.end, before)
                   THEN [before EXCEPT ![e.effect.var] = e.effect.post] ELSE before
    BY <1>1, <2>1, Zenon DEF AfterEffects
  <2> HIDE DEF e
  <2>7. CASE Holds(e.effect.end, before)
    <3>1. after[S] = [before EXCEPT ![e.effect.var] = e.effect.post]
      BY <2>6, <2>7
    <3> HIDE DEF before
    <3>2. after[S] \in [Var -> Val]
      BY <2>3, <2>5, <3>1
    <3>3. ASSUME NEW x \in Var
          PROVE  Set(S, after[S], x) \/ Kept(S, after[S], x)
      <4>1. CASE x = e.effect.var
        BY <2>2, <2>3, <2>5, <3>1, <4>1
      <4>2. CASE x # e.effect.var
        <5>1. after[S][x] = before[x]
          BY <2>5, <3>1, <4>2
        <5>2. Set(S \ {e}, before, x) \/ Kept(S \ {e}, before, x)
          BY <2>5
        <5>3. QED
          BY <4>2, <5>1, <5>2
      <4>3. QED
        BY <4>1, <4>2
    <3>4. QED
      BY <3>2, <3>3
  <2>8. CASE ~Holds(e.effect.end, before)
    <3>1. after[S] = before
      BY <2>6, <2>8
    <3>2. e.effect.end # {}
      BY <2>8 DEF Holds
    <3> HIDE DEF before
    <3>3. ASSUME NEW x \in Var
          PROVE  Set(S, before, x) \/ Kept(S, before, x)
      <4>1. Set(S \ {e}, before, x) \/ Kept(S \ {e}, before, x)
        BY <2>5
      <4>2. QED
        BY <3>2, <4>1
    <3>4. QED
      BY <2>5, <3>1, <3>3
  <2>9. QED
    BY <2>7, <2>8
<1>6. N \in Good
  <2>1. N \in 0..N
    BY <1>2
  <2> HIDE DEF Good, N
  <2>2. QED
    BY <1>2, <1>4, <1>5, <2>1, UpTo
<1>7. Right(E, after[E])
  <2> HIDE DEF Right
  <2>1. QED
    BY <1>6
<1>8. QED
  BY <1>1, <1>7

\* Evaluating the rules keeps the type, changes derived variables only, and
\* changes nothing when it is done again.
LEMMA EvaluateIs ==
    ASSUME NEW value \in [Var -> Val]
    PROVE  /\ Evaluate(value) \in [Var -> Val]
           /\ Evaluate(Evaluate(value)) = Evaluate(value)
           /\ \A x \in Var \ Derived : Evaluate(value)[x] = value[x]
<1> DEFINE once == Evaluate(value)
<1>1. 0 \in Val /\ 1 \in Val /\ Axiom \subseteq [head : Var, body : SUBSET Condition]
  BY TaskAssumption, Zenon
<1>2. once \in [Var -> Val]
  BY <1>1 DEF Evaluate
<1>3. \A x \in Var \ Derived : once[x] = value[x]
  BY DEF Evaluate
<1>4. \A a \in Axiom : Holds(a.body, once) <=> Holds(a.body, value)
  <2> SUFFICES ASSUME NEW a \in Axiom, NEW c \in a.body
               PROVE  once[c.var] = value[c.var]
    BY Zenon DEF Holds
  <2>1. c.var \in Var
    BY <1>1 DEF Condition
  <2>2. c.var \notin Derived
    BY LayerAssumption, Zenon
  <2>3. QED
    BY <1>3, <2>1, <2>2
<1>5. \A x \in Var : Evaluate(once)[x] = once[x]
  <2> SUFFICES ASSUME NEW x \in Var
               PROVE  Evaluate(once)[x] = once[x]
    OBVIOUS
  <2>1. once[x] = IF x \notin Derived THEN value[x]
                  ELSE IF \E a \in Axiom : a.head = x /\ Holds(a.body, value) THEN 1 ELSE 0
    BY DEF Evaluate
  <2> HIDE DEF once
  <2>2. Evaluate(once)[x] = IF x \notin Derived THEN once[x]
                  ELSE IF \E a \in Axiom : a.head = x /\ Holds(a.body, once) THEN 1 ELSE 0
    BY DEF Evaluate
  <2>3. QED
    BY <1>4, <2>1, <2>2, Zenon
<1>6. Evaluate(once) = once
  <2>1. Evaluate(once) = [x \in Var |-> Evaluate(once)[x]]
    BY Zenon DEF Evaluate
  <2>2. once = [x \in Var |-> once[x]]
    BY <1>2
  <2> HIDE DEF once
  <2>3. QED
    BY <1>5, <2>1, <2>2
<1>7. QED
  BY <1>2, <1>3, <1>6

\* The effects at the start of an operator keep the type.
LEMMA StartOutcomeTyped ==
    ASSUME NEW o \in Op, NEW value \in [Var -> Val]
    PROVE  StartOutcome(EffectStart[o], value) \in [Var -> Val]
<1>1. EffectStart[o] \subseteq Effect
  BY TaskAssumption
<1>2. ASSUME NEW x \in Var, NEW S \in SUBSET Effect, \E e \in S : e.var = x
      PROVE  (CHOOSE e \in S : e.var = x).post \in Val
  <2>1. (CHOOSE e \in S : e.var = x) \in Effect
    BY <1>2
  <2>2. QED
    BY <2>1 DEF Effect
<1>3. QED
  BY <1>1, <1>2 DEF StartOutcome

----------------------------------------------------------------------------
(* What is pending                                                         *)

\* What is pending and running in s has its type; the values are left out.
PendingTyped(s) ==
    /\ s.effects \subseteq ScheduledEffect
    /\ s.moduleEffects \subseteq ScheduledEffect
    /\ s.overall \subseteq ScheduledCondition
    /\ s.atEnd \subseteq ScheduledCondition
    /\ s.operators \subseteq ScheduledOperator

\* An element of a set of scheduled effects, conditions or operators, moved closer.
Moved(x, dt) == [x EXCEPT !.increment = @ - dt]

\* Moving closer changes the increment and nothing else.
LEMMA MovedFields ==
    ASSUME NEW dt \in Nat,
           NEW x \in ScheduledEffect \cup ScheduledCondition \cup ScheduledOperator
    PROVE  /\ Moved(x, dt).increment = x.increment - dt
           /\ Moved(x, dt).op = x.op
           /\ Moved(x, 0) = x
           /\ x \in ScheduledEffect => Moved(x, dt).effect = x.effect
           /\ x \in ScheduledCondition => Moved(x, dt).cond = x.cond
  BY DEF Moved, ScheduledEffect, ScheduledCondition, ScheduledOperator

\* What is in the future after dt was there before, and is due dt earlier.
LEMMA FutureIsMoved ==
    ASSUME NEW S, NEW dt \in Nat
    PROVE  /\ \A y \in Future(S, dt) : \E x \in S : y = Moved(x, dt) /\ y.increment > 0
           /\ \A x \in S : Moved(x, dt).increment > 0 => Moved(x, dt) \in Future(S, dt)
  BY DEF Future, Closer, Moved

\* The types are kept when time passes.
LEMMA FutureTyped ==
    ASSUME NEW S, NEW dt \in Nat
    PROVE  /\ S \subseteq ScheduledEffect => Future(S, dt) \subseteq ScheduledEffect
           /\ S \subseteq ScheduledCondition => Future(S, dt) \subseteq ScheduledCondition
           /\ S \subseteq ScheduledOperator => Future(S, dt) \subseteq ScheduledOperator
<1>1. ASSUME S \subseteq ScheduledEffect, NEW x \in S, Moved(x, dt).increment > 0
      PROVE  Moved(x, dt) \in ScheduledEffect
  BY <1>1, MovedFields DEF Moved, ScheduledEffect
<1>2. ASSUME S \subseteq ScheduledCondition, NEW x \in S, Moved(x, dt).increment > 0
      PROVE  Moved(x, dt) \in ScheduledCondition
  BY <1>2, MovedFields DEF Moved, ScheduledCondition
<1>3. ASSUME S \subseteq ScheduledOperator, NEW x \in S, Moved(x, dt).increment > 0
      PROVE  Moved(x, dt) \in ScheduledOperator
  BY <1>3, MovedFields DEF Moved, ScheduledOperator
<1>4. QED
  BY <1>1, <1>2, <1>3, FutureIsMoved, Zenon

\* What an operator schedules has its type, if it takes time.
LEMMA ScheduleTyped ==
    ASSUME NEW o \in Op, Duration[o] > 0
    PROVE  /\ \A E \in SUBSET Effect : Schedule(o, E) \subseteq ScheduledEffect
           /\ \A C \in SUBSET Condition : Require(o, C) \subseteq ScheduledCondition
           /\ [increment |-> Duration[o], op |-> o] \in ScheduledOperator
<1>1. Duration[o] \in Nat \ {0}
  BY TaskAssumption
<1>2. ASSUME NEW E \in SUBSET Effect
      PROVE  Schedule(o, E) \subseteq ScheduledEffect
  BY <1>1 DEF Schedule, ScheduledEffect
<1>3. ASSUME NEW C \in SUBSET Condition
      PROVE  Require(o, C) \subseteq ScheduledCondition
  BY <1>1 DEF Require, ScheduledCondition
<1>4. QED
  BY <1>1, <1>2, <1>3 DEF ScheduledOperator

\* Without a gap, starting an operator adds what it schedules and moves nothing.
LEMMA AppliedWithoutGap ==
    ASSUME Gap = 0, NEW s, PendingTyped(s), NEW o \in Op, Duration[o] > 0
    PROVE  LET t == ApplyOperator(s, o)
               fired(E) == {e \in E : Holds(e.start, s.value)}
           IN  /\ t.effects = s.effects \cup Schedule(o, fired(EffectEnd[o]))
               /\ t.moduleEffects = Schedule(o, fired(ModuleEffectEnd[o]))
               /\ t.overall = s.overall \cup Require(o, PrevailOverall[o])
               /\ t.atEnd = s.atEnd \cup Require(o, PrevailEnd[o])
               /\ t.operators = s.operators \cup {[increment |-> Duration[o], op |-> o]}
<1> DEFINE fired(E) == {e \in E : Holds(e.start, s.value)}
           effects == s.effects \cup Schedule(o, fired(EffectEnd[o]))
           modules == Schedule(o, fired(ModuleEffectEnd[o]))
           later(S) == Closer(S \ {e \in S : e.increment < Gap}, Gap)
<1>1. effects \subseteq ScheduledEffect /\ modules \subseteq ScheduledEffect
  <2>1. fired(EffectEnd[o]) \in SUBSET Effect /\ fired(ModuleEffectEnd[o]) \in SUBSET Effect
    BY TaskAssumption
  <2> HIDE DEF fired
  <2>2. QED
    BY <2>1, ScheduleTyped, Zenon DEF PendingTyped
<1>2. ASSUME NEW S, S \subseteq ScheduledEffect
      PROVE  later(S) = S
  <2>1. S \ {e \in S : e.increment < 0} = S
    BY <1>2 DEF ScheduledEffect
  <2>2. Closer(S, 0) = {Moved(x, 0) : x \in S}
    BY Zenon DEF Closer, Moved
  <2>3. \A x \in S : Moved(x, 0) = x
    BY <1>2, MovedFields, Zenon
  <2>4. {Moved(x, 0) : x \in S} = S
    BY <2>3
  <2>5. QED
    BY <2>1, <2>2, <2>4, Gap = 0
<1>3. /\ ApplyOperator(s, o).effects = later(effects)
      /\ ApplyOperator(s, o).moduleEffects = later(modules)
      /\ ApplyOperator(s, o).overall = s.overall \cup Require(o, PrevailOverall[o])
      /\ ApplyOperator(s, o).atEnd = s.atEnd \cup Require(o, PrevailEnd[o])
      /\ ApplyOperator(s, o).operators = s.operators \cup {[increment |-> Duration[o], op |-> o]}
  BY DEF ApplyOperator
<1>4. later(effects) = effects /\ later(modules) = modules
  <2> HIDE DEF effects, modules, later
  <2>1. QED
    BY <1>1, <1>2, Zenon
<1>5. QED
  BY <1>3, <1>4

\* Without a gap, letting time pass moves everything that is pending and
\* running closer by the same time, and drops what is due.
LEMMA PassedWithoutGap ==
    ASSUME Gap = 0, NEW s, PendingTyped(s), s.operators # {}
    PROVE  LET t == LetTimePass(s, TRUE)
           IN  \E dt \in Nat :
                 /\ t.effects = Pending(s.effects, dt, t.value)
                 /\ t.moduleEffects = Pending(s.moduleEffects, dt, t.value)
                 /\ t.overall = Future(s.overall, dt)
                 /\ t.atEnd = Future(s.atEnd, dt)
                 /\ t.operators = Future(s.operators, dt)
<1> DEFINE dt == NextHappening(s)
           ends == {x.increment : x \in {y \in s.operators : y.increment > 0}}
<1>1. ends \in SUBSET Nat /\ ends # {}
  BY DEF PendingTyped, ScheduledOperator
<1>2. dt \in Nat
  <2>1. dt = Least(ends)
    BY <1>1, Zenon DEF NextHappening
  <2>2. QED
    BY <1>1, <2>1, LeastIsLeast, Zenon
<1>3. LetTimePass(s, TRUE) = PassBy(s, dt)
  BY Gap = 0 DEF LetTimePass
<1> HIDE DEF dt
<1>4. LET t == PassBy(s, dt)
      IN  /\ t.effects = Pending(s.effects, dt, t.value)
          /\ t.moduleEffects = Pending(s.moduleEffects, dt, t.value)
          /\ t.overall = Future(s.overall, dt)
          /\ t.atEnd = Future(s.atEnd, dt)
          /\ t.operators = Future(s.operators, dt)
  BY DEF PassBy
<1>5. QED
  BY <1>2, <1>3, <1>4, Zenon

----------------------------------------------------------------------------
(* Types                                                                   *)

\* A state of the search: typed, with finitely many effects and operators.
Searched(s) ==
    /\ s \in State
    /\ IsFiniteSet(s.effects) /\ IsFiniteSet(s.moduleEffects) /\ IsFiniteSet(s.operators)

\* The types of what is pending are part of it.
LEMMA SearchedIsTyped ==
    ASSUME NEW s, Searched(s)
    PROVE  PendingTyped(s) /\ s.value \in [Var -> Val] /\ s.timestamp \in Nat
  BY DEF Searched, State, PendingTyped

\* What is moved closer stays finite, and does not become more.
LEMMA CloserIsFinite ==
    ASSUME NEW S, IsFiniteSet(S), NEW dt \in Nat
    PROVE  /\ IsFiniteSet(Closer(S, dt)) /\ Cardinality(Closer(S, dt)) <= Cardinality(S)
           /\ IsFiniteSet(Future(S, dt)) /\ IsFiniteSet(Due(S, dt))
<1> DEFINE f == [x \in S |-> Moved(x, dt)]
<1>1. f \in Surjection(S, Closer(S, dt))
  BY DEF Surjection, Closer, Moved
<1>2. IsFiniteSet(Closer(S, dt)) /\ Cardinality(Closer(S, dt)) <= Cardinality(S)
  BY <1>1, FS_Surjection
<1>3. Future(S, dt) \in SUBSET Closer(S, dt) /\ Due(S, dt) \in SUBSET Closer(S, dt)
  BY DEF Future, Due
<1>4. QED
  BY <1>2, <1>3, FS_Subset

\* What is due has the type of effects that are due.
LEMMA DueTyped ==
    ASSUME NEW S \in SUBSET ScheduledEffect, NEW dt \in Nat
    PROVE  Due(S, dt) \subseteq DueEffect
<1> SUFFICES ASSUME NEW x \in S
             PROVE  Moved(x, dt) \in DueEffect
  BY DEF Due, Closer, Moved
<1>1. x \in ScheduledEffect
  OBVIOUS
<1>2. QED
  BY <1>1 DEF Moved, DueEffect, ScheduledEffect

\* When time passes the state stays typed, and its values are evaluated.
LEMMA PassByTyped ==
    ASSUME NEW s, Searched(s), NEW dt \in Nat
    PROVE  /\ Searched(PassBy(s, dt))
           /\ PassBy(s, dt).value = Evaluate(PassBy(s, dt).value)
<1> DEFINE t == PassBy(s, dt)
           modulesDone == Outcome(Due(s.moduleEffects, dt), s.value)
           done == Outcome(Due(s.effects, dt), modulesDone)
<1>1. PendingTyped(s) /\ s.value \in [Var -> Val] /\ s.timestamp \in Nat
  BY SearchedIsTyped
<1>2. /\ IsFiniteSet(Due(s.effects, dt)) /\ Due(s.effects, dt) \subseteq DueEffect
      /\ IsFiniteSet(Due(s.moduleEffects, dt)) /\ Due(s.moduleEffects, dt) \subseteq DueEffect
  BY <1>1, CloserIsFinite, DueTyped DEF Searched, PendingTyped
<1>3. modulesDone \in [Var -> Val]
  BY <1>1, <1>2, OutcomeExplained
<1>4. done \in [Var -> Val]
  <2> HIDE DEF modulesDone
  <2>1. QED
    BY <1>2, <1>3, OutcomeExplained
<1>5. /\ t.value = Evaluate(done) /\ t.timestamp = s.timestamp + dt
      /\ t.effects = Pending(s.effects, dt, t.value)
      /\ t.moduleEffects = Pending(s.moduleEffects, dt, t.value)
      /\ t.overall = Future(s.overall, dt) /\ t.atEnd = Future(s.atEnd, dt)
      /\ t.operators = Future(s.operators, dt)
      /\ t = [value |-> t.value, timestamp |-> t.timestamp, effects |-> t.effects,
              moduleEffects |-> t.moduleEffects, overall |-> t.overall, atEnd |-> t.atEnd,
              operators |-> t.operators]
  BY DEF PassBy
<1> HIDE DEF t, done
<1>6. t.value \in [Var -> Val] /\ t.value = Evaluate(t.value)
  BY <1>4, <1>5, EvaluateIs
<1>7. /\ t.effects \in SUBSET Future(s.effects, dt)
      /\ t.moduleEffects \in SUBSET Future(s.moduleEffects, dt)
  BY <1>5 DEF Pending
<1>8. /\ Future(s.effects, dt) \subseteq ScheduledEffect
      /\ Future(s.moduleEffects, dt) \subseteq ScheduledEffect
      /\ t.overall \subseteq ScheduledCondition /\ t.atEnd \subseteq ScheduledCondition
      /\ t.operators \subseteq ScheduledOperator
  BY <1>1, <1>5, FutureTyped, Zenon DEF PendingTyped
<1>9. IsFiniteSet(t.effects) /\ IsFiniteSet(t.moduleEffects) /\ IsFiniteSet(t.operators)
  <2>1. /\ IsFiniteSet(Future(s.effects, dt))
        /\ IsFiniteSet(Future(s.moduleEffects, dt))
        /\ IsFiniteSet(Future(s.operators, dt))
    BY CloserIsFinite, Zenon DEF Searched
  <2>2. IsFiniteSet(t.effects)
    BY <1>7, <2>1, FS_Subset, Zenon
  <2>3. IsFiniteSet(t.moduleEffects)
    BY <1>7, <2>1, FS_Subset, Zenon
  <2>4. IsFiniteSet(t.operators)
    BY <1>5, <2>1, Zenon
  <2>5. QED
    BY <2>2, <2>3, <2>4
<1>10. t.timestamp \in Nat
  BY <1>1, <1>5
<1>11. t \in State
  BY <1>5, <1>6, <1>7, <1>8, <1>10 DEF State
<1>12. QED
  BY <1>6, <1>9, <1>11 DEF Searched, t

\* Without a gap no effect is due at once when an operator is started: the
\* values are those after its effects at the start.
LEMMA AppliedTyped ==
    ASSUME Gap = 0, NEW s, Searched(s), NEW o \in Op, Duration[o] > 0
    PROVE  LET t == ApplyOperator(s, o)
           IN  /\ Searched(t)
               /\ t.value = Evaluate(StartOutcome(EffectStart[o], s.value))
               /\ t.timestamp = s.timestamp
<1> DEFINE t == ApplyOperator(s, o)
           fired(E) == {e \in E : Holds(e.start, s.value)}
           effects == s.effects \cup Schedule(o, fired(EffectEnd[o]))
           modules == Schedule(o, fired(ModuleEffectEnd[o]))
           started == Evaluate(StartOutcome(EffectStart[o], s.value))
           due == {e \in effects : e.increment < Gap}
           modulesDue == {e \in modules : e.increment < Gap}
<1>1. PendingTyped(s) /\ s.value \in [Var -> Val] /\ s.timestamp \in Nat
  BY SearchedIsTyped
<1>2. /\ fired(EffectEnd[o]) \in SUBSET EffectEnd[o] /\ EffectEnd[o] \in SUBSET Effect
      /\ fired(ModuleEffectEnd[o]) \in SUBSET ModuleEffectEnd[o]
      /\ ModuleEffectEnd[o] \in SUBSET Effect
      /\ PrevailOverall[o] \in SUBSET Condition /\ PrevailEnd[o] \in SUBSET Condition
  BY TaskAssumption
<1>3. IsFiniteSet(EffectEnd[o]) /\ IsFiniteSet(ModuleEffectEnd[o])
  BY TaskAssumption, Zenon
<1>4. ASSUME NEW S, IsFiniteSet(S)
      PROVE  IsFiniteSet(Schedule(o, S))
  <2> DEFINE f == [e \in S |-> [increment |-> Duration[o], effect |-> e, op |-> o]]
  <2>1. f \in Surjection(S, Schedule(o, S))
    BY DEF Surjection, Schedule
  <2>2. QED
    BY <1>4, <2>1, FS_Surjection
<1>5. IsFiniteSet(fired(EffectEnd[o])) /\ IsFiniteSet(fired(ModuleEffectEnd[o]))
  <2> HIDE DEF fired
  <2>1. QED
    BY <1>2, <1>3, FS_Subset
<1>6. IsFiniteSet(effects) /\ IsFiniteSet(modules)
  <2> HIDE DEF fired
  <2>1. IsFiniteSet(Schedule(o, fired(EffectEnd[o]))) /\ IsFiniteSet(modules)
    BY <1>4, <1>5
  <2>2. QED
    BY <2>1, FS_Union DEF Searched
<1>7. effects \subseteq ScheduledEffect /\ modules \subseteq ScheduledEffect
  <2> HIDE DEF fired
  <2>1. fired(EffectEnd[o]) \in SUBSET Effect /\ fired(ModuleEffectEnd[o]) \in SUBSET Effect
    BY <1>2
  <2>2. QED
    BY <1>1, <2>1, ScheduleTyped, Zenon DEF PendingTyped
<1>8. due = {} /\ modulesDue = {}
  <2> HIDE DEF effects, modules
  <2>1. \A e \in ScheduledEffect : ~(e.increment < Gap)
    BY Gap = 0 DEF ScheduledEffect
  <2>2. QED
    BY <1>7, <2>1
<1>9. started \in [Var -> Val] /\ Evaluate(started) = started
  BY <1>1, StartOutcomeTyped, EvaluateIs
<1>10. \A v : Outcome({}, v) = v
  <2> TAKE v
  <2>1. PICK after : /\ Outcome({}, v) = after[{}]
                     /\ \A S \in SUBSET {} : after[S] = AfterEffects(after, S, v)
    BY OutcomeIs, FS_EmptySet
  <2>2. QED
    BY <2>1 DEF AfterEffects
<1>11. t = [value |-> Evaluate(Outcome(due, Outcome(modulesDue, started))),
            timestamp |-> s.timestamp + Gap,
            effects |-> Closer(effects \ due, Gap),
            moduleEffects |-> Closer(modules \ modulesDue, Gap),
            overall |-> s.overall \cup Require(o, PrevailOverall[o]),
            atEnd |-> s.atEnd \cup Require(o, PrevailEnd[o]),
            operators |-> s.operators \cup {[increment |-> Duration[o], op |-> o]}]
  BY Zenon DEF ApplyOperator
<1> DEFINE T == [value |-> started, timestamp |-> s.timestamp,
                 effects |-> effects, moduleEffects |-> modules,
                 overall |-> s.overall \cup Require(o, PrevailOverall[o]),
                 atEnd |-> s.atEnd \cup Require(o, PrevailEnd[o]),
                 operators |-> s.operators \cup {[increment |-> Duration[o], op |-> o]}]
<1>12. t = T
  <2>1. Evaluate(Outcome(due, Outcome(modulesDue, started))) = started
    <3> HIDE DEF due, modulesDue, started
    <3>1. QED
      BY <1>8, <1>9, <1>10
  <2>2. s.timestamp + Gap = s.timestamp
    BY <1>1, Gap = 0
  <2>3. t.effects = effects /\ t.moduleEffects = modules
    BY <1>1, AppliedWithoutGap, Gap = 0, Zenon
  <2>4. t.effects = Closer(effects \ due, Gap) /\ t.moduleEffects = Closer(modules \ modulesDue, Gap)
    <3> HIDE DEF due, modulesDue, effects, modules, t
    <3>1. QED
      BY <1>11
  <2> HIDE DEF due, modulesDue, effects, modules, t, started
  <2>5. QED
    BY <1>11, <2>1, <2>2, <2>3, <2>4
<1>13. /\ Require(o, PrevailOverall[o]) \subseteq ScheduledCondition
       /\ Require(o, PrevailEnd[o]) \subseteq ScheduledCondition
       /\ [increment |-> Duration[o], op |-> o] \in ScheduledOperator
  BY <1>2, ScheduleTyped
<1>14. IsFiniteSet(T.operators)
  BY FS_AddElement DEF Searched
<1> HIDE DEF effects, modules, started
<1>15. T \in State
  BY <1>1, <1>7, <1>9, <1>13 DEF State, PendingTyped
<1> HIDE DEF t
<1>16. QED
  <2>1. Searched(T)
    BY <1>6, <1>14, <1>15 DEF Searched
  <2>2. QED
    BY <1>12, <2>1 DEF started, t

----------------------------------------------------------------------------
(* The next happening                                                      *)

\* The next happening is the first end.
LEMMA HappeningIsFirst ==
    ASSUME NEW s, PendingTyped(s), s.operators # {}
    PROVE  /\ NextHappening(s) \in Ends(s)
           /\ Ends(s) \in SUBSET (Nat \ {0})
           /\ \A x \in s.operators : NextHappening(s) <= x.increment
<1>1. \A x \in s.operators : x.increment \in Nat \ {0}
  BY DEF PendingTyped, ScheduledOperator
<1>2. Ends(s) = {x.increment : x \in s.operators} /\ Ends(s) # {}
  BY <1>1 DEF Ends
<1>3. Ends(s) \in SUBSET (Nat \ {0})
  BY <1>1, <1>2
<1>4. NextHappening(s) = Least(Ends(s))
  BY <1>2, Zenon DEF NextHappening, Ends
<1>5. NextHappening(s) \in Ends(s) /\ \A j \in Ends(s) : NextHappening(s) <= j
  <2>1. Ends(s) \in SUBSET Nat
    BY <1>3
  <2>2. QED
    BY <1>2, <1>4, <2>1, LeastIsLeast
<1>6. QED
  BY <1>2, <1>3, <1>5

\* Moving closer in two steps is moving closer in one.
LEMMA CloserTwice ==
    ASSUME NEW S, NEW h \in Nat, NEW dt \in Nat, h <= dt,
           S \subseteq ScheduledEffect \/ S \subseteq ScheduledCondition
               \/ S \subseteq ScheduledOperator
    PROVE  Closer(Closer(S, h), dt - h) = Closer(S, dt)
<1>1. Closer(Closer(S, h), dt - h) = {Moved(Moved(x, h), dt - h) : x \in S}
  BY DEF Closer, Moved
<1>2. \A x \in S : Moved(Moved(x, h), dt - h) = Moved(x, dt)
  <2> TAKE x \in S
  <2>1. x.increment \in Nat
    BY DEF ScheduledEffect, ScheduledCondition, ScheduledOperator
  <2>2. (x.increment - h) - (dt - h) = x.increment - dt
    BY <2>1
  <2>3. CASE x \in ScheduledEffect
    <3>1. \A d \in Int : Moved(x, d) = [increment |-> x.increment - d, effect |-> x.effect, op |-> x.op]
      BY <2>3 DEF Moved, ScheduledEffect
    <3>2. QED
      BY <2>2, <3>1 DEF Moved
  <2>4. CASE x \in ScheduledCondition
    <3>1. \A d \in Int : Moved(x, d) = [increment |-> x.increment - d, cond |-> x.cond, op |-> x.op]
      BY <2>4 DEF Moved, ScheduledCondition
    <3>2. QED
      BY <2>2, <3>1 DEF Moved
  <2>5. CASE x \in ScheduledOperator
    <3>1. \A d \in Int : Moved(x, d) = [increment |-> x.increment - d, op |-> x.op]
      BY <2>5 DEF Moved, ScheduledOperator
    <3>2. QED
      BY <2>2, <3>1 DEF Moved
  <2>6. QED
    BY <2>3, <2>4, <2>5
<1>3. Closer(S, dt) = {Moved(x, dt) : x \in S}
  BY Zenon DEF Closer, Moved
<1>4. QED
  BY <1>1, <1>2, <1>3

\* Time passes to the next happening from the midpoint as it does from the
\* state: nothing happens before.
LEMMA MidpointIsOnTheWay ==
    ASSUME Gap = 0, NEW s, Searched(s), s.operators # {}
    PROVE  /\ LetTimePass(PassToIntermediate(s), FALSE) = LetTimePass(s, TRUE)
           /\ LetTimePass(s, FALSE) = LetTimePass(s, TRUE)
<1> DEFINE dt == NextHappening(s)
           h == dt \div 2
           m == PassToIntermediate(s)
<1>1. PendingTyped(s) /\ s.timestamp \in Nat
  BY SearchedIsTyped
<1>2. /\ dt \in Nat \ {0} /\ dt \in Ends(s) /\ Ends(s) \in SUBSET (Nat \ {0})
      /\ \A x \in s.operators : dt <= x.increment
  BY <1>1, HappeningIsFirst
<1> HIDE DEF dt
<1>3. h \in Nat /\ h < dt /\ dt - h \in Nat
  BY <1>2
<1>4. /\ m.value = s.value /\ m.timestamp = s.timestamp + h
      /\ m.effects = Closer(s.effects, h) /\ m.moduleEffects = Closer(s.moduleEffects, h)
      /\ m.overall = Closer(s.overall, h) /\ m.atEnd = Closer(s.atEnd, h)
      /\ m.operators = Closer(s.operators, h)
  <2>1. s \in State
    BY DEF Searched
  <2>2. m = [s EXCEPT !.timestamp = @ + h, !.effects = Closer(@, h),
                      !.moduleEffects = Closer(@, h), !.overall = Closer(@, h),
                      !.atEnd = Closer(@, h), !.operators = Closer(@, h)]
    BY Zenon DEF PassToIntermediate, dt
  <2> HIDE DEF m, h
  <2>3. QED
    BY <2>1, <2>2 DEF State
<1> HIDE DEF h, m
<1>5. NextHappening(m) = dt - h
  <2>1. \A x \in s.operators : Moved(x, h).increment = x.increment - h /\ x.increment \in Nat
    BY <1>1, <1>3, MovedFields DEF PendingTyped, ScheduledOperator
  <2>2. Ends(m) = {x.increment - h : x \in s.operators}
    <3>1. m.operators = {Moved(x, h) : x \in s.operators}
      BY <1>4, Zenon DEF Closer, Moved
    <3>2. \A x \in s.operators : x.increment - h > 0
      BY <1>2, <1>3, <2>1
    <3>3. QED
      BY <2>1, <3>1, <3>2 DEF Ends
  <2>3. PICK x \in s.operators : x.increment = dt
    BY <1>2 DEF Ends
  <2>4. dt - h \in Ends(m) /\ \A j \in Ends(m) : j \in Nat /\ dt - h <= j
    BY <1>2, <1>3, <2>1, <2>2, <2>3
  <2>5. Least(Ends(m)) \in Ends(m) /\ \A j \in Ends(m) : Least(Ends(m)) <= j
    BY <2>4, LeastIsLeast
  <2>6. Least(Ends(m)) = dt - h
    BY <1>3, <2>4, <2>5
  <2>7. NextHappening(m) = Least(Ends(m))
    BY <2>4, Zenon DEF NextHappening, Ends
  <2>8. QED
    BY <2>6, <2>7
<1>6. PassBy(m, dt - h) = PassBy(s, dt)
  <2>1. /\ Closer(m.effects, dt - h) = Closer(s.effects, dt)
        /\ Closer(m.moduleEffects, dt - h) = Closer(s.moduleEffects, dt)
        /\ Closer(m.overall, dt - h) = Closer(s.overall, dt)
        /\ Closer(m.atEnd, dt - h) = Closer(s.atEnd, dt)
        /\ Closer(m.operators, dt - h) = Closer(s.operators, dt)
    <3>1. h <= dt
      BY <1>2, <1>3
    <3>2. QED
      BY <1>1, <1>2, <1>3, <1>4, <3>1, CloserTwice DEF PendingTyped
  <2>2. m.timestamp + (dt - h) = s.timestamp + dt
    BY <1>1, <1>2, <1>3, <1>4
  <2>3. QED
    BY <1>4, <2>1, <2>2, Zenon DEF PassBy, Due, Future, Pending
<1>7. /\ LetTimePass(m, FALSE) = PassBy(m, dt - h)
      /\ LetTimePass(s, FALSE) = PassBy(s, dt) /\ LetTimePass(s, TRUE) = PassBy(s, dt)
  BY <1>5, Gap = 0 DEF LetTimePass, dt
<1>8. QED
  BY <1>6, <1>7 DEF m

\* There are finitely many ends.
LEMMA EndsAreFinite ==
    ASSUME NEW s, Searched(s)
    PROVE  IsFiniteSet(Ends(s)) /\ Cardinality(Ends(s)) \in Nat
<1> DEFINE running == {y \in s.operators : y.increment > 0}
           f == [y \in running |-> y.increment]
<1>1. IsFiniteSet(running)
  BY FS_Subset DEF Searched
<1>2. f \in Surjection(running, Ends(s))
  BY DEF Surjection, Ends
<1>3. IsFiniteSet(Ends(s))
  BY <1>1, <1>2, FS_Surjection
<1>4. QED
  BY <1>3, FS_CardinalityType

\* After the next happening at least one end is left behind.
LEMMA OneEndLess ==
    ASSUME Gap = 0, NEW s, Searched(s), s.operators # {}
    PROVE  LET t == LetTimePass(s, TRUE)
           IN  /\ Searched(t) /\ t.value = Evaluate(t.value)
               /\ Cardinality(Ends(t)) \in Nat /\ Cardinality(Ends(s)) \in Nat
               /\ Cardinality(Ends(t)) + 1 <= Cardinality(Ends(s))
<1> DEFINE t == LetTimePass(s, TRUE)
           dt == NextHappening(s)
           f == [j \in Ends(t) |-> j + dt]
<1>1. PendingTyped(s)
  BY SearchedIsTyped
<1>2. dt \in Nat \ {0} /\ dt \in Ends(s) /\ Ends(s) \in SUBSET (Nat \ {0})
  BY <1>1, HappeningIsFirst
<1>3. t = PassBy(s, dt)
  BY Gap = 0 DEF LetTimePass
<1> HIDE DEF dt, t
<1>4. Searched(t) /\ t.value = Evaluate(t.value) /\ t.operators = Future(s.operators, dt)
  <2>1. dt \in Nat
    BY <1>2
  <2>2. Searched(PassBy(s, dt)) /\ PassBy(s, dt).value = Evaluate(PassBy(s, dt).value)
    BY <2>1, PassByTyped, Zenon
  <2>3. PassBy(s, dt).operators = Future(s.operators, dt)
    BY DEF PassBy
  <2>4. QED
    BY <1>3, <2>2, <2>3, Zenon
<1>5. \A j \in Ends(t) : j \in Nat \ {0} /\ j + dt \in Ends(s) \ {dt}
  <2> TAKE j \in Ends(t)
  <2>1. PICK y \in t.operators : y.increment = j /\ j > 0
    BY DEF Ends
  <2>2. PICK x \in s.operators : y = Moved(x, dt)
    <3>1. dt \in Nat
      BY <1>2
    <3>2. QED
      <4>1. y \in Future(s.operators, dt)
        BY <1>4, <2>1
      <4>2. QED
        BY <3>1, <4>1, FutureIsMoved, Zenon
  <2>3. x.increment \in Nat \ {0} /\ y.increment = x.increment - dt
    BY <1>1, <1>2, <2>2, MovedFields DEF PendingTyped, ScheduledOperator
  <2>4. j \in Nat \ {0} /\ j + dt = x.increment
    BY <1>2, <2>1, <2>3
  <2>5. QED
    BY <1>2, <2>3, <2>4 DEF Ends
<1>6. f \in Injection(Ends(t), Ends(s) \ {dt})
  <2>1. f \in [Ends(t) -> Ends(s) \ {dt}]
    BY <1>5
  <2>2. \A i, j \in Ends(t) : f[i] = f[j] => i = j
    <3>1. \A i, j \in Nat : i + dt = j + dt => i = j
      BY <1>2
    <3>2. QED
      BY <1>5, <3>1
  <2> HIDE DEF f
  <2>3. QED
    BY <2>1, <2>2 DEF Injection, IsInjective
<1>7. /\ IsFiniteSet(Ends(s)) /\ Cardinality(Ends(s)) \in Nat
      /\ Cardinality(Ends(t)) \in Nat
  BY <1>4, EndsAreFinite
<1>8. /\ IsFiniteSet(Ends(s) \ {dt})
      /\ Cardinality(Ends(s) \ {dt}) = Cardinality(Ends(s)) - 1
  BY <1>2, <1>7, FS_RemoveElement
<1>9. Cardinality(Ends(t)) <= Cardinality(Ends(s) \ {dt})
  <2> HIDE DEF f
  <2>1. QED
    BY <1>6, <1>8, FS_Injection
<1>10. Cardinality(Ends(t)) + 1 <= Cardinality(Ends(s))
  BY <1>7, <1>8, <1>9
<1>11. QED
  BY <1>4, <1>7, <1>10 DEF t

\* The progression of the state after the next happening is the rest of the
\* progression of the state before.
LEMMA ProgressionGoesOn ==
    ASSUME Gap = 0, NEW s, Searched(s), s.operators # {}
    PROVE  LET t == LetTimePass(s, TRUE)
           IN  \A k \in DOMAIN Progression(t) :
                  k + 2 \in DOMAIN Progression(s) /\ Progression(t)[k] = Progression(s)[k + 2]
<1> DEFINE t == LetTimePass(s, TRUE)
           n == 2 * Cardinality(Ends(t))
           Good == {k \in Nat : Progression(t)[k] = Progression(s)[k + 2]}
<1>1. /\ Cardinality(Ends(t)) \in Nat /\ Cardinality(Ends(s)) \in Nat
      /\ Cardinality(Ends(t)) + 1 <= Cardinality(Ends(s))
  BY OneEndLess, Gap = 0
<1> HIDE DEF t
<1>2. n \in Nat /\ n + 2 <= 2 * Cardinality(Ends(s)) /\ 2 * Cardinality(Ends(s)) \in Nat
  BY <1>1
<1>3. DOMAIN Progression(t) = 0..n /\ DOMAIN Progression(s) = 0..(2 * Cardinality(Ends(s)))
  BY <1>1, ProgressionIs
<1>4. \A k \in 0..n : Progression(t)[k] = IF k = 0 THEN t ELSE Progressed(k, Progression(t)[k - 1])
  BY <1>1, ProgressionIs
<1>5. \A k \in 0..(2 * Cardinality(Ends(s))) :
        Progression(s)[k] = IF k = 0 THEN s ELSE Progressed(k, Progression(s)[k - 1])
  BY <1>1, ProgressionIs
<1>6. \A k \in 1..(2 * Cardinality(Ends(s))) : Progression(s)[k] = Progressed(k, Progression(s)[k - 1])
  BY <1>2, <1>5
<1>7. 0 \in Good
  <2>1. Progression(s)[0] = s
    BY <1>2, <1>5
  <2>2. 0 \in Nat
    OBVIOUS
  <2>3. Progression(s)[1] = PassToIntermediate(s)
    <3>1. 1 \in 1..(2 * Cardinality(Ends(s))) /\ 1 - 1 = 0
      BY <1>2
    <3>2. QED
      BY <1>6, <2>1, <2>2, <3>1, ProgressedIs
  <2>4. Progression(s)[2] = LetTimePass(Progression(s)[1], FALSE)
    <3>1. 2 \in 1..(2 * Cardinality(Ends(s))) /\ 2 - 1 = 1
      BY <1>2
    <3>2. QED
      BY <1>6, <2>2, <3>1, ProgressedIs
  <2>5. Progression(s)[0 + 2] = t
    <3>1. LetTimePass(PassToIntermediate(s), FALSE) = t
      BY MidpointIsOnTheWay, Gap = 0, Zenon DEF t
    <3>2. Progression(s)[2] = t
      BY <2>3, <2>4, <3>1, Zenon
    <3>3. 0 + 2 = 2
      OBVIOUS
    <3>4. QED
      BY <3>2, <3>3
  <2>6. Progression(t)[0] = t
    BY <1>2, <1>4
  <2>7. QED
    BY <2>5, <2>6
<1>8. ASSUME NEW k \in 0..(n - 1), k \in Good
      PROVE  k + 1 \in Good
  <2> HIDE DEF n
  <2>1. /\ k \in Nat /\ k + 1 \in 0..n /\ k + 1 # 0 /\ (k + 1) - 1 = k
        /\ (k + 1) + 2 \in 1..(2 * Cardinality(Ends(s))) /\ ((k + 1) + 2) - 1 = k + 2
    BY <1>2, <1>8
  <2>2. Progressed((k + 1) + 2, Progression(t)[k]) = Progressed(k + 1, Progression(t)[k])
    <3>1. k + 1 \in Nat
      BY <2>1
    <3>2. QED
      BY <3>1, ProgressedIs
  <2>3. Progression(t)[k + 1] = Progressed(k + 1, Progression(t)[k])
    BY <1>4, <2>1
  <2>4. Progression(s)[(k + 1) + 2] = Progressed((k + 1) + 2, Progression(s)[k + 2])
    BY <1>6, <2>1
  <2>5. Progression(t)[k] = Progression(s)[k + 2]
    BY <1>8
  <2>6. QED
    BY <2>1, <2>2, <2>3, <2>4, <2>5
<1>9. \A k \in 0..n : k \in Good
  <2> HIDE DEF n, Good
  <2>1. QED
    BY <1>2, <1>7, <1>8, UpTo
<1>10. QED
  <2>1. ASSUME NEW k \in DOMAIN Progression(t)
        PROVE  k + 2 \in DOMAIN Progression(s) /\ Progression(t)[k] = Progression(s)[k + 2]
    <3>1. k \in 0..n /\ k \in Good
      BY <1>3, <1>9
    <3> HIDE DEF n
    <3>2. k + 2 \in 0..(2 * Cardinality(Ends(s)))
      BY <1>2, <3>1
    <3>3. QED
      BY <1>3, <3>1, <3>2
  <2>2. QED
    BY <2>1 DEF t

\* What can be completed still can after the next happening, and the over-all
\* conditions hold then as well.
LEMMA ConsistentGoesOn ==
    ASSUME Gap = 0, NEW s, Searched(s), s.operators # {}, IsConsistentWhenProgressed(s)
    PROVE  IsConsistentWhenProgressed(LetTimePass(s, TRUE))
<1> DEFINE t == LetTimePass(s, TRUE)
<1>1. \A k \in DOMAIN Progression(t) :
        k + 2 \in DOMAIN Progression(s) /\ Progression(t)[k] = Progression(s)[k + 2]
  BY ProgressionGoesOn, Gap = 0
<1>2. \A k \in DOMAIN Progression(s) : IsConsistentNow(Progression(s)[k])
  BY Zenon DEF IsConsistentWhenProgressed
<1> HIDE DEF t
<1>3. \A k \in DOMAIN Progression(t) : IsConsistentNow(Progression(t)[k])
  BY <1>1, <1>2
<1>4. QED
  BY <1>3, Zenon DEF IsConsistentWhenProgressed, t

\* A state that can be completed is consistent itself.
LEMMA ConsistentFromNow ==
    ASSUME NEW s, Searched(s), IsConsistentWhenProgressed(s)
    PROVE  IsConsistentNow(s)
<1>1. Cardinality(Ends(s)) \in Nat
  BY EndsAreFinite
<1>2. 0 \in DOMAIN Progression(s) /\ Progression(s)[0] = s
  <2>1. Progression(s) = [k \in 0..(2 * Cardinality(Ends(s))) |->
                            IF k = 0 THEN s ELSE Progressed(k, Progression(s)[k - 1])]
    BY <1>1, ProgressionIs
  <2>2. 0 \in 0..(2 * Cardinality(Ends(s)))
    BY <1>1
  <2>3. QED
    BY <2>1, <2>2
<1>3. QED
  BY <1>2, Zenon DEF IsConsistentWhenProgressed

\* Where nothing runs and nothing is required, nothing can go wrong.
LEMMA ConsistentWhenIdle ==
    ASSUME NEW s, s.operators = {}, s.overall = {}, s.atEnd = {}
    PROVE  IsConsistentWhenProgressed(s)
<1>1. Ends(s) = {} /\ Cardinality(Ends(s)) = 0
  BY FS_EmptySet DEF Ends
<1>2. Progression(s) = [k \in 0..(2 * Cardinality(Ends(s))) |->
                           IF k = 0 THEN s ELSE Progressed(k, Progression(s)[k - 1])]
  <2>1. Cardinality(Ends(s)) \in Nat
    BY <1>1
  <2>2. QED
    BY <2>1, ProgressionIs
<1>3. DOMAIN Progression(s) = {0} /\ Progression(s)[0] = s
  <2>1. 0..(2 * Cardinality(Ends(s))) = {0}
    BY <1>1
  <2>2. QED
    BY <1>2, <2>1
<1>4. IsConsistentNow(s)
  BY DEF IsConsistentNow
<1>5. QED
  BY <1>3, <1>4, Zenon DEF IsConsistentWhenProgressed

----------------------------------------------------------------------------
(* What the monitor looks at                                               *)

\* The next state in which something ends, if anything runs.
Successor(t) == IF CanLetTimePass(t) THEN LetTimePass(t, FALSE) ELSE t

\* The states s passes through, one after the other.
LEMMA PassedIs ==
    ASSUME NEW s, Cardinality(s.operators) \in Nat
    PROVE  \E state : /\ Passed(s) = {state[k] : k \in 0..Cardinality(s.operators)}
                      /\ state[0] = s
                      /\ \A k \in 1..Cardinality(s.operators) : state[k] = Successor(state[k - 1])
<1> DEFINE n == Cardinality(s.operators)
           Solves(f, m) == f = [k \in 0..m |-> IF k = 0 THEN s ELSE Successor(f[k - 1])]
           Good == {m \in Nat : \E f : Solves(f, m)}
<1>1. n \in Nat
  OBVIOUS
<1>2. 0 \in Good
  <2> DEFINE f == [k \in 0..0 |-> s]
  <2>1. Solves(f, 0)
    OBVIOUS
  <2> HIDE DEF Solves, f
  <2>2. QED
    BY <2>1
<1>3. ASSUME NEW m \in 0..(n - 1), m \in Good
      PROVE  m + 1 \in Good
  <2>1. PICK f : f = [k \in 0..m |-> IF k = 0 THEN s ELSE Successor(f[k - 1])]
    BY <1>3
  <2> DEFINE g == [k \in 0..(m + 1) |-> IF k <= m THEN f[k] ELSE Successor(f[k - 1])]
  <2>2. \A k \in 0..(m + 1) : g[k] = IF k = 0 THEN s ELSE Successor(g[k - 1])
    <3> TAKE k \in 0..(m + 1)
    <3>1. k # 0 => k - 1 \in 0..m /\ g[k - 1] = f[k - 1]
      BY m \in Nat
    <3>2. CASE k <= m
      <4>1. k \in 0..m /\ g[k] = f[k]
        BY <3>2
      <4>2. f[k] = IF k = 0 THEN s ELSE Successor(f[k - 1])
        BY <2>1, <4>1, Zenon
      <4> HIDE DEF g
      <4>3. QED
        BY <3>1, <4>1, <4>2
    <3>3. CASE ~(k <= m)
      <4>1. k # 0 /\ g[k] = Successor(f[k - 1])
        BY <3>3, m \in Nat
      <4> HIDE DEF g
      <4>2. QED
        BY <3>1, <4>1
    <3>4. QED
      BY <3>2, <3>3
  <2>3. Solves(g, m + 1)
    <3>1. g = [k \in 0..(m + 1) |-> g[k]]
      OBVIOUS
    <3> HIDE DEF g
    <3>2. QED
      BY <2>2, <3>1
  <2>4. m + 1 \in Nat
    BY <1>3
  <2> HIDE DEF g, Solves
  <2>5. QED
    BY <2>3, <2>4
<1>4. n \in Good
  <2>1. n \in 0..n
    BY <1>1
  <2> HIDE DEF n, Good
  <2>2. QED
    BY <1>1, <1>2, <1>3, <2>1, UpTo
<1> DEFINE state == CHOOSE f : Solves(f, n)
<1>5. Passed(s) = {state[k] : k \in DOMAIN state}
  BY Zenon DEF Passed, Successor
<1>6. Solves(state, n)
  <2>1. \E f : Solves(f, n)
    BY <1>4
  <2> HIDE DEF Solves, n
  <2>2. QED
    BY <2>1, Zenon
<1> HIDE DEF state
<1>7. DOMAIN state = 0..n /\ state[0] = s /\ \A k \in 1..n : state[k] = Successor(state[k - 1])
  BY <1>1, <1>6
<1>8. QED
  BY <1>5, <1>7

\* When time passes at least one operator ends.
LEMMA OneOperatorLess ==
    ASSUME Gap = 0, NEW s, Searched(s), s.operators # {}
    PROVE  LET t == LetTimePass(s, FALSE)
           IN  /\ Searched(t)
               /\ Cardinality(s.operators) \in Nat /\ Cardinality(t.operators) \in Nat
               /\ Cardinality(t.operators) + 1 <= Cardinality(s.operators)
<1> DEFINE t == LetTimePass(s, FALSE)
           dt == NextHappening(s)
<1>1. PendingTyped(s)
  BY SearchedIsTyped
<1>2. dt \in Nat /\ dt \in Ends(s)
  BY <1>1, HappeningIsFirst
<1>3. t = PassBy(s, dt)
  BY Gap = 0 DEF LetTimePass
<1> HIDE DEF dt, t
<1>4. Searched(t) /\ t.operators = Future(s.operators, dt)
  <2>1. Searched(PassBy(s, dt))
    BY <1>2, PassByTyped
  <2>2. PassBy(s, dt).operators = Future(s.operators, dt)
    BY DEF PassBy
  <2>3. QED
    BY <1>3, <2>1, <2>2
<1>5. PICK p \in s.operators : p.increment = dt
  BY <1>2 DEF Ends
<1>6. t.operators \in SUBSET Closer(s.operators \ {p}, dt)
  <2> SUFFICES ASSUME NEW q \in t.operators
               PROVE  q \in Closer(s.operators \ {p}, dt)
    OBVIOUS
  <2>1. PICK x \in s.operators : q = Moved(x, dt) /\ q.increment > 0
    BY <1>2, <1>4, FutureIsMoved
  <2>2. Moved(p, dt).increment = 0
    BY <1>1, <1>2, <1>5, MovedFields DEF PendingTyped
  <2>3. x # p
    BY <2>1, <2>2
  <2>4. QED
    BY <2>1, <2>3, Zenon DEF Closer, Moved
<1>7. IsFiniteSet(s.operators) /\ Cardinality(s.operators) \in Nat
  BY FS_CardinalityType DEF Searched
<1>8. /\ IsFiniteSet(s.operators \ {p})
      /\ Cardinality(s.operators \ {p}) = Cardinality(s.operators) - 1
  BY <1>5, <1>7, FS_RemoveElement
<1>9. /\ IsFiniteSet(Closer(s.operators \ {p}, dt))
      /\ Cardinality(Closer(s.operators \ {p}, dt)) <= Cardinality(s.operators \ {p})
  BY <1>2, <1>8, CloserIsFinite
<1>10. /\ Cardinality(t.operators) <= Cardinality(Closer(s.operators \ {p}, dt))
       /\ Cardinality(t.operators) \in Nat
       /\ Cardinality(Closer(s.operators \ {p}, dt)) \in Nat
  BY <1>6, <1>9, FS_Subset, FS_CardinalityType
<1>11. Cardinality(t.operators) + 1 <= Cardinality(s.operators)
  BY <1>7, <1>8, <1>9, <1>10
<1>12. QED
  BY <1>4, <1>7, <1>10, <1>11 DEF t

\* The monitor looks at every state until nothing runs, and at one state only
\* in which nothing runs.
LEMMA PassedGoesOn ==
    ASSUME Gap = 0, NEW s, Searched(s)
    PROVE  /\ s \in Passed(s)
           /\ \A t \in Passed(s) : /\ Searched(t)
                                   /\ t.operators # {} => LetTimePass(t, TRUE) \in Passed(s)
                                   /\ t.operators = {} => Final(s) = t
<1> DEFINE n == Cardinality(s.operators)
<1>1. n \in Nat
  BY FS_CardinalityType DEF Searched
<1>2. PICK state : /\ Passed(s) = {state[k] : k \in 0..n}
                   /\ state[0] = s
                   /\ \A k \in 1..n : state[k] = Successor(state[k - 1])
  BY <1>1, PassedIs
<1> DEFINE Right(k) == /\ Searched(state[k])
                       /\ state[k].operators # {} => Cardinality(state[k].operators) + k <= n
           Good == {k \in Nat : Right(k)}
<1>3. 0 \in Good
  BY <1>1, <1>2
<1> HIDE DEF n
<1>4. ASSUME NEW k \in 0..(n - 1), k \in Good
      PROVE  k + 1 \in Good
  <2>1. k \in Nat /\ k + 1 \in Nat /\ k + 1 \in 1..n /\ (k + 1) - 1 = k
    BY <1>1
  <2>2. state[k + 1] = Successor(state[k])
    BY <1>2, <2>1
  <2>3. Right(k)
    BY <1>4
  <2>4. CASE state[k].operators = {}
    BY <2>1, <2>2, <2>3, <2>4 DEF Successor, CanLetTimePass
  <2>5. CASE state[k].operators # {}
    <3>1. state[k + 1] = LetTimePass(state[k], FALSE)
      BY <2>2, <2>5 DEF Successor, CanLetTimePass
    <3>2. /\ Searched(state[k + 1])
          /\ Cardinality(state[k].operators) \in Nat /\ Cardinality(state[k + 1].operators) \in Nat
          /\ Cardinality(state[k + 1].operators) + 1 <= Cardinality(state[k].operators)
      BY <2>3, <2>5, <3>1, OneOperatorLess, Gap = 0
    <3>3. Cardinality(state[k + 1].operators) + (k + 1) <= n
      BY <1>1, <2>1, <2>3, <2>5, <3>2
    <3>4. QED
      BY <2>1, <3>2, <3>3
  <2>6. QED
    BY <2>4, <2>5
<1>5. \A k \in 0..n : Right(k)
  <2> HIDE DEF Right
  <2>1. \A k \in 0..n : k \in Good
    <3> HIDE DEF Good
    <3>1. QED
      BY <1>1, <1>3, <1>4, UpTo
  <2>2. QED
    BY <2>1
<1>6. ASSUME NEW k \in 0..n, state[k].operators # {}
      PROVE  LetTimePass(state[k], TRUE) \in Passed(s)
  <2>1. IsFiniteSet(state[k].operators) /\ Cardinality(state[k].operators) \in Nat
    BY <1>5, FS_CardinalityType DEF Searched
  <2>2. Cardinality(state[k].operators) # 0
    BY <1>6, <2>1, FS_EmptySet
  <2>3. k + 1 \in 1..n /\ (k + 1) - 1 = k
    BY <1>1, <1>5, <1>6, <2>1, <2>2
  <2>4. state[k + 1] = LetTimePass(state[k], FALSE)
    BY <1>2, <1>6, <2>3 DEF Successor, CanLetTimePass
  <2>5. LetTimePass(state[k], FALSE) = LetTimePass(state[k], TRUE)
    BY <1>5, <1>6, MidpointIsOnTheWay, Gap = 0
  <2>6. state[k + 1] \in Passed(s)
    BY <1>1, <1>2, <2>3
  <2>7. QED
    BY <2>4, <2>5, <2>6
<1>7. ASSUME NEW k \in 0..n, state[k].operators = {}, NEW j \in 0..n, k <= j
      PROVE  state[j] = state[k]
  <2> DEFINE Same == {i \in Nat : state[k + i] = state[k]}
  <2>1. j - k \in Nat /\ k + (j - k) = j /\ j - k \in 0..(j - k)
    BY <1>1, <1>7
  <2>2. 0 \in Same
    OBVIOUS
  <2>3. ASSUME NEW i \in 0..((j - k) - 1), i \in Same
        PROVE  i + 1 \in Same
    <3>1. k + (i + 1) \in 1..n /\ (k + (i + 1)) - 1 = k + i /\ i + 1 \in Nat
      BY <1>1, <1>7, <2>1
    <3>2. state[k + (i + 1)] = Successor(state[k + i])
      BY <1>2, <3>1
    <3>3. state[k + i] = state[k]
      BY <2>3
    <3>4. QED
      BY <1>7, <3>1, <3>2, <3>3 DEF Successor, CanLetTimePass
  <2>4. j - k \in Same
    <3> HIDE DEF Same
    <3>1. QED
      BY <2>1, <2>2, <2>3, UpTo
  <2>5. QED
    BY <2>1, <2>4
<1>8. ASSUME NEW k \in 0..n, state[k].operators = {}
      PROVE  Final(s) = state[k]
  <2>1. ASSUME NEW t \in Passed(s), t.operators = {}
        PROVE  t = state[k]
    <3>1. PICK j \in 0..n : t = state[j]
      BY <1>2
    <3>2. k <= j \/ j <= k
      BY <1>1
    <3>3. QED
      BY <1>7, <1>8, <2>1, <3>1, <3>2
  <2>2. state[k] \in Passed(s)
    BY <1>2
  <2>3. QED
    BY <1>8, <2>1, <2>2, Zenon DEF Final, CanLetTimePass
<1>9. s \in Passed(s)
  BY <1>1, <1>2
<1>10. QED
  <2>1. ASSUME NEW t \in Passed(s)
        PROVE  /\ Searched(t)
               /\ t.operators # {} => LetTimePass(t, TRUE) \in Passed(s)
               /\ t.operators = {} => Final(s) = t
    <3>1. PICK k \in 0..n : t = state[k]
      BY <1>2
    <3>2. QED
      BY <1>5, <1>6, <1>8, <3>1
  <2>2. QED
    BY <1>9, <2>1
=============================================================================
