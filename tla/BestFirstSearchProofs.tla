------------------------ MODULE BestFirstSearchProofs ------------------------
(***************************************************************************)
(* What the search keeps of the state space, for every temporal task and   *)
(* whatever the heuristics prefer.  That nothing is missed is proved for   *)
(* Gap = 0, as the executive calls the planner (epsilonize_internally is   *)
(* off), because the time stamps are then those of TimeStampedStateProofs. *)
(***************************************************************************)
EXTENDS BestFirstSearch, TimeStampedStateProofs

----------------------------------------------------------------------------
(* The closed list is a tree: what TracePath relies on                     *)

\* The states that can be traced.
ClosedStates == {n.state : n \in closed}

\* Operator o leads from the closed state s on.
MayFollow(s, o) ==
    /\ s \in ClosedStates
    /\ o = TimePass \/ (o \in Op /\ IsApplicable(s, o))

\* Node n is where the search began, or was reached from a closed state.
IsReached(n) ==
    \/ n = [state |-> InitialState, predecessor |-> None, operator |-> None]
    \/ /\ MayFollow(n.predecessor, n.operator)
       /\ n.state = After(n.predecessor, n.operator)

\* Each closed state was reached from a closed one, by an operator that could be
\* started there or by letting time pass, so that a traced path consists of
\* steps the search took and ends where it began; what is still open goes on
\* from closed states, however states were thrown away in between.
ClosedIsTree ==
    /\ \A n \in closed \cup {current} : IsReached(n)
    /\ \A n \in open : MayFollow(n.parent, n.operator)

\* A longer closed list loses nothing.
LEMMA ReachedStays ==
    ASSUME ClosedStates \subseteq ClosedStates'
    PROVE  /\ \A s, o : MayFollow(s, o) => MayFollow(s, o)'
           /\ \A n : IsReached(n) => IsReached(n)'
<1>1. \A s, o : MayFollow(s, o) => MayFollow(s, o)'
  BY DEF MayFollow
<1>2. QED
  BY <1>1 DEF IsReached

\* Every step of the search keeps it.
LEMMA ClosedIsTreeStep == ClosedIsTree /\ [Next]_vars => ClosedIsTree'
<1> SUFFICES ASSUME ClosedIsTree, [Next]_vars PROVE ClosedIsTree'
  OBVIOUS
<1>1. CASE CloseState
  <2>1. /\ closed' = closed \cup {current} /\ current' = current
        /\ open' = open \/ open' = open \cup Successors(current.state)
    BY <1>1 DEF CloseState
  <2>2. ClosedStates \subseteq ClosedStates' /\ current.state \in ClosedStates'
    BY <2>1 DEF ClosedStates
  <2>3. \A n \in closed' \cup {current'} : IsReached(n)'
    BY <2>1, <2>2, ReachedStays DEF ClosedIsTree
  <2>4. ASSUME NEW n \in Successors(current.state)
        PROVE  MayFollow(n.parent, n.operator)'
    BY <2>2, <2>4 DEF Successors, IsInserted, MayFollow
  <2>5. \A n \in open' : MayFollow(n.parent, n.operator)'
    BY <2>1, <2>2, <2>4, ReachedStays DEF ClosedIsTree
  <2>6. QED
    BY <2>3, <2>5 DEF ClosedIsTree
<1>2. CASE FetchNextState
  <2>1. PICK n \in open :
          /\ open' = open \ {n}
          /\ current' = [state |-> After(n.parent, n.operator), predecessor |-> n.parent, operator |-> n.operator]
    BY <1>2 DEF FetchNextState, Selectable
  <2>2. closed' = closed
    BY <1>2 DEF FetchNextState
  <2>3. IsReached(current')
    BY <2>1 DEF ClosedIsTree, IsReached
  <2>4. ClosedStates' = ClosedStates
    BY <2>2 DEF ClosedStates
  <2>5. /\ \A m \in closed' \cup {current'} : IsReached(m)'
        /\ \A m \in open' : MayFollow(m.parent, m.operator)'
    BY <2>1, <2>2, <2>3, <2>4, ReachedStays DEF ClosedIsTree
  <2>6. QED
    BY <2>5 DEF ClosedIsTree
<1>3. CASE UNCHANGED <<closed, current, open>>
  <2>1. ClosedStates' = ClosedStates
    BY <1>3 DEF ClosedStates
  <2>2. QED
    BY <1>3, <2>1, ReachedStays DEF ClosedIsTree
<1>4. QED
  BY <1>1, <1>2, <1>3 DEF Next, DiscardState, TimeOut, Explored, SavePlan, vars

\* Whatever the heuristics prefer, the closed list is a tree of steps the search
\* could take, in every task and with every setting.
THEOREM ClosedListIsTree == Spec => []ClosedIsTree
<1>1. Init => ClosedIsTree
  BY DEF Init, ClosedIsTree, IsReached
<1>2. QED
  BY <1>1, ClosedIsTreeStep, PTL DEF Spec

----------------------------------------------------------------------------
(* Time stamps and makespans are natural numbers                           *)

\* Latest picks the latest of finitely many times.
LEMMA LatestIsLatest ==
    ASSUME NEW S \in SUBSET Int, IsFiniteSet(S), S # {}
    PROVE  Latest(S) \in S /\ \A j \in S : j <= Latest(S)
<1> DEFINE n == Cardinality(S) - 1
           Good == {k \in 0..n : \A T \in SUBSET S : Cardinality(T) = k + 1 =>
                                     \E i \in T : \A j \in T : j <= i}
<1>1. Cardinality(S) \in Nat /\ n \in Nat
  BY FS_CardinalityType, FS_EmptySet
<1>2. \A T \in SUBSET S : IsFiniteSet(T)
  BY FS_Subset
<1>3. 0 \in Good
  <2> SUFFICES ASSUME NEW T \in SUBSET S, Cardinality(T) = 1
               PROVE  \E i \in T : \A j \in T : j <= i
    BY <1>1
  <2>1. PICK x : T = {x}
    BY <1>2, FS_Singleton
  <2>2. QED
    BY <2>1
<1>4. ASSUME NEW k \in 0..(n - 1), k \in Good
      PROVE  k + 1 \in Good
  <2> SUFFICES ASSUME NEW T \in SUBSET S, Cardinality(T) = k + 2
               PROVE  \E i \in T : \A j \in T : j <= i
    BY <1>1
  <2>1. PICK x : x \in T
    <3>1. Cardinality(T) # 0
      BY k \in Nat
    <3>2. QED
      BY <1>2, <3>1, FS_EmptySet
  <2>2. T \ {x} \in SUBSET S /\ Cardinality(T \ {x}) = k + 1
    <3>1. Cardinality(T \ {x}) = Cardinality(T) - 1
      BY <1>2, <2>1, FS_RemoveElement
    <3>2. (k + 2) - 1 = k + 1
      BY k \in Nat
    <3>3. Cardinality(T \ {x}) = k + 1
      BY <3>1, <3>2, Cardinality(T) = k + 2, Zenon
    <3>4. T \ {x} \in SUBSET S
      OBVIOUS
    <3>5. QED
      BY <3>3, <3>4
  <2>3. PICK i \in T \ {x} : \A j \in T \ {x} : j <= i
    BY <1>4, <2>2
  <2>4. CASE i <= x
    BY <2>1, <2>3, <2>4
  <2>5. CASE ~(i <= x)
    BY <2>1, <2>3, <2>5
  <2>6. QED
    BY <2>4, <2>5
<1>5. n \in Good
  <2>1. n \in 0..n
    BY <1>1
  <2> HIDE DEF n, Good
  <2>2. QED
    BY <1>1, <1>3, <1>4, <2>1, UpTo
<1>6. \E i \in S : \A j \in S : j <= i
  BY <1>1, <1>5
<1>7. QED
  BY <1>6, Zenon DEF Latest

\* The makespan of a typed state.
LEMMA MakespanTyped ==
    ASSUME NEW s, Searched(s), NEW d \in Nat
    PROVE  MakespanWith(s, d) \in Nat
<1> DEFINE ends == {x.increment : x \in s.operators}
           f == [x \in s.operators |-> x.increment]
<1>1. IsFiniteSet(s.operators) /\ s.operators \subseteq ScheduledOperator /\ s.timestamp \in Nat
  BY SearchedIsTyped DEF Searched, PendingTyped
<1>2. f \in Surjection(s.operators, ends)
  BY DEF Surjection
<1>3. IsFiniteSet(ends)
  BY <1>1, <1>2, FS_Surjection
<1>4. ends \in SUBSET Nat
  BY <1>1 DEF ScheduledOperator
<1> HIDE DEF ends
<1>5. IsFiniteSet({0, d})
  <2>1. {0, d} = {0} \cup {d}
    OBVIOUS
  <2>2. IsFiniteSet({0})
    BY FS_Singleton
  <2>3. IsFiniteSet({0} \cup {d})
    BY <2>2, FS_AddElement
  <2>4. QED
    BY <2>1, <2>3
<1>6. IsFiniteSet({0, d} \cup ends) /\ {0, d} \cup ends \in SUBSET Nat /\ {0, d} \cup ends # {}
  <2>1. IsFiniteSet({0, d} \cup ends)
    BY <1>3, <1>5, FS_Union
  <2>2. QED
    BY <1>4, <2>1
<1>7. Latest({0, d} \cup ends) \in Nat
  BY <1>6, LatestIsLatest
<1>8. MakespanWith(s, d) = s.timestamp + Latest({0, d} \cup ends)
  BY Zenon DEF MakespanWith, ends
<1>9. QED
  BY <1>1, <1>7, <1>8

\* A step leads from a typed state to a typed one, if it takes time.
LEMMA AfterTyped ==
    ASSUME Gap = 0, NEW s, Searched(s),
           NEW o, o = TimePass \/ (o \in Op /\ Duration[o] > 0)
    PROVE  Searched(After(s, o))
<1>1. CASE o = TimePass
  <2>1. NextHappening(s) \in Nat
    <3>1. CASE s.operators = {}
      <4>1. {x.increment : x \in {y \in s.operators : y.increment > 0}} = {}
        BY <3>1
      <4>2. QED
        BY <4>1 DEF NextHappening
    <3>2. CASE s.operators # {}
      BY <3>2, SearchedIsTyped, HappeningIsFirst
    <3>3. QED
      BY <3>1, <3>2
  <2>2. After(s, o) = PassBy(s, NextHappening(s))
    BY <1>1, Gap = 0 DEF After, LetTimePass
  <2>3. QED
    BY <2>1, <2>2, PassByTyped
<1>2. CASE o # TimePass
  <2>1. o \in Op /\ Duration[o] > 0 /\ After(s, o) = ApplyOperator(s, o)
    BY <1>2 DEF After
  <2>2. QED
    BY <2>1, AppliedTyped, Gap = 0
<1>3. QED
  BY <1>1, <1>2

\* The search begins in a typed state.
LEMMA InitialIsTyped == Searched(InitialState)
<1>1. Evaluate(InitialValue) \in [Var -> Val]
  BY EvaluateIs, TaskAssumption
<1>2. QED
  BY <1>1, FS_EmptySet DEF Searched, State, InitialState

----------------------------------------------------------------------------
(* Traced plans                                                            *)

\* A step of a traced plan: moved up, it may start before 0.
TracedStep == [start : Int, op : Op]

\* A closed list a plan can be traced through.
Traceable(list) ==
    /\ IsFiniteSet(list)
    /\ \A n \in list : n.state.timestamp \in Nat
    /\ \A n \in list : n.predecessor = None \/ n.predecessor \in {m.state : m \in list}
    /\ \A n \in list : n.predecessor = None \/ n.operator \in Op \cup {TimePass}

\* Moving a path up and putting a step before it gives a path.
LEMMA ProlongedTyped ==
    ASSUME NEW path \in Seq(TracedStep), NEW n, NEW diff \in Int,
           n.operator \in Op \cup {TimePass}, n.predecessor.timestamp \in Nat
    PROVE  Prolonged(path, n, diff) \in Seq(TracedStep)
<1>1. MovedUp(path, diff) \in Seq(TracedStep)
  <2> DEFINE moved == [i \in DOMAIN path |-> [path[i] EXCEPT !.start = @ - diff]]
  <2>1. DOMAIN path = 1..Len(path) /\ Len(path) \in Nat
    OBVIOUS
  <2>2. ASSUME NEW i \in DOMAIN path
        PROVE  [path[i] EXCEPT !.start = @ - diff] \in TracedStep
    <3>1. path[i] \in TracedStep
      OBVIOUS
    <3>2. QED
      BY <3>1 DEF TracedStep
  <2>3. moved \in Seq(TracedStep)
    BY <2>1, <2>2
  <2>4. QED
    BY <2>3 DEF MovedUp
<1>2. StepTo(n) \in Seq(TracedStep)
  <2>1. CASE n.operator = TimePass
    BY <2>1 DEF StepTo
  <2>2. CASE n.operator # TimePass
    <3>1. [start |-> n.predecessor.timestamp, op |-> n.operator] \in TracedStep
      BY <2>2 DEF TracedStep
    <3>2. QED
      BY <2>2, <3>1 DEF StepTo
  <2>3. QED
    BY <2>1, <2>2
<1>3. QED
  BY <1>1, <1>2 DEF Prolonged

\* The values of t are those f takes base to, one after the other.
Iterates(t, base, f, n) == t = [k \in 0..n |-> IF k = 0 THEN base ELSE f[t[k - 1]]]

\* There is such a t, of any length.
LEMMA IterationExists ==
    ASSUME NEW n \in Nat, NEW T, NEW base \in T, NEW f \in [T -> T]
    PROVE  \E t \in [0..n -> T] : Iterates(t, base, f, n)
<1> DEFINE Solves(t, m) == Iterates(t, base, f, m)
           Good == {m \in 0..n : \E t \in [0..m -> T] : Solves(t, m)}
<1>1. 0 \in Good
  <2> DEFINE t == [k \in 0..0 |-> base]
  <2>1. t \in [0..0 -> T] /\ Solves(t, 0)
    BY DEF Iterates
  <2> HIDE DEF Solves, t
  <2>2. QED
    BY <2>1
<1>2. ASSUME NEW m \in 0..(n - 1), m \in Good
      PROVE  m + 1 \in Good
  <2>1. PICK t \in [0..m -> T] : t = [k \in 0..m |-> IF k = 0 THEN base ELSE f[t[k - 1]]]
    BY <1>2 DEF Iterates
  <2> DEFINE u == [k \in 0..(m + 1) |-> IF k <= m THEN t[k] ELSE f[t[m]]]
  <2>2. m \in Nat /\ m \in 0..m /\ t[m] \in T /\ f[t[m]] \in T
    OBVIOUS
  <2>3. u \in [0..(m + 1) -> T]
    BY <2>2
  <2>4. ASSUME NEW k \in 0..(m + 1)
        PROVE  u[k] = IF k = 0 THEN base ELSE f[u[k - 1]]
    <3>1. CASE k <= m
      <4>1. k \in 0..m /\ u[k] = t[k]
        BY <2>2, <3>1
      <4>2. t[k] = IF k = 0 THEN base ELSE f[t[k - 1]]
        BY <2>1, <4>1, Zenon
      <4>3. k # 0 => u[k - 1] = t[k - 1]
        BY <2>2, <4>1
      <4> HIDE DEF u
      <4>4. QED
        BY <4>1, <4>2, <4>3
    <3>2. CASE ~(k <= m)
      <4>1. k = m + 1 /\ k # 0 /\ k - 1 = m
        BY <2>2, <3>2
      <4>2. u[k] = f[t[m]]
        BY <3>2
      <4>3. u[m] = t[m]
        BY <2>2
      <4> HIDE DEF u
      <4>4. QED
        BY <4>1, <4>2, <4>3
    <3>3. QED
      BY <3>1, <3>2
  <2>5. Solves(u, m + 1)
    <3>1. u = [k \in 0..(m + 1) |-> u[k]]
      OBVIOUS
    <3> HIDE DEF u
    <3>2. QED
      BY <2>4, <3>1 DEF Iterates
  <2>6. m + 1 \in 0..n
    OBVIOUS
  <2> HIDE DEF u, Solves
  <2>7. QED
    BY <2>3, <2>5, <2>6
<1>3. n \in 0..n
  OBVIOUS
<1>4. n \in Good
  <2> HIDE DEF Good
  <2>1. QED
    BY <1>1, <1>2, <1>3, UpTo
<1>5. QED
  BY <1>4

\* One step of a trace goes to a closed state and prolongs the path.
LEMMA TraceStepTyped ==
    ASSUME NEW list, Traceable(list), NEW s, s.timestamp \in Nat,
           NEW last \in [at : {s} \cup {m.state : m \in list}, path : Seq(TracedStep)]
    PROVE  TraceStep(list, last) \in [at : {s} \cup {m.state : m \in list}, path : Seq(TracedStep)]
<1> DEFINE entries == Entries(list, last.at)
           stamps == {m.state.timestamp : m \in entries}
           n == CHOOSE m \in entries : \A e \in entries : m.state.timestamp <= e.state.timestamp
           diff == last.at.timestamp - n.state.timestamp
<1>1. entries \subseteq list
  BY DEF Entries
<1>2. last.at.timestamp \in Nat /\ last.path \in Seq(TracedStep)
  BY DEF Traceable
<1>3. TraceStep(list, last) = IF entries = {} \/ n.predecessor = None THEN last
                              ELSE [at |-> n.predecessor, path |-> Prolonged(last.path, n, diff)]
  BY Zenon DEF TraceStep
<1> HIDE DEF entries
<1>4. ASSUME entries # {} PROVE n \in entries
  <2>1. stamps \in SUBSET Nat /\ stamps # {}
    BY <1>1, <1>4 DEF Traceable
  <2> HIDE DEF stamps
  <2>2. Least(stamps) \in stamps /\ \A t \in stamps : Least(stamps) <= t
    BY <2>1, LeastIsLeast
  <2> USE DEF stamps
  <2>3. PICK m \in entries : m.state.timestamp = Least(stamps)
    BY <2>2
  <2>4. \A e \in entries : m.state.timestamp <= e.state.timestamp
    BY <2>2, <2>3
  <2>5. QED
    BY <2>4, Zenon
<1> HIDE DEF n
<1>5. ASSUME entries # {}, n.predecessor # None
      PROVE  /\ n.predecessor \in {m.state : m \in list}
             /\ Prolonged(last.path, n, diff) \in Seq(TracedStep)
  <2>1. n \in list
    BY <1>1, <1>4, <1>5
  <2>2. n.predecessor \in {m.state : m \in list} /\ n.operator \in Op \cup {TimePass}
    BY <1>5, <2>1, Zenon DEF Traceable
  <2>3. n.predecessor.timestamp \in Nat /\ n.state.timestamp \in Nat
    BY <2>1, <2>2 DEF Traceable
  <2>4. diff \in Int
    BY <1>2, <2>3
  <2> HIDE DEF diff
  <2>5. QED
    BY <1>2, <2>2, <2>3, <2>4, ProlongedTyped
<1> HIDE DEF diff
<1>6. QED
  BY <1>3, <1>5

\* A traced plan is a sequence of steps.
LEMMA TraceTyped ==
    ASSUME NEW list, Traceable(list), NEW s, s.timestamp \in Nat
    PROVE  TracePath(list, s) \in Seq(TracedStep)
<1> DEFINE N == Cardinality(list) + 1
           T == [at : {s} \cup {m.state : m \in list}, path : Seq(TracedStep)]
           base == [at |-> s, path |-> <<>>]
           f == [r \in T |-> TraceStep(list, r)]
           Solves(t) == t = [k \in 0..N |-> IF k = 0 THEN base ELSE TraceStep(list, t[k - 1])]
           trace == CHOOSE t : Solves(t)
<1>1. N \in Nat
  BY FS_CardinalityType DEF Traceable
<1>2. base \in T
  OBVIOUS
<1>3. f \in [T -> T]
  <2>1. \A r \in T : TraceStep(list, r) \in T
    BY TraceStepTyped
  <2> HIDE DEF T
  <2>2. QED
    BY <2>1
<1>4. TracePath(list, s) = trace[N].path
  BY DEF TracePath
<1>5. \E t \in [0..N -> T] : Iterates(t, base, f, N)
  <2> HIDE DEF N, T, base, f
  <2>1. QED
    BY <1>1, <1>2, <1>3, IterationExists
<1>6. \E t : Solves(t)
  <2>1. PICK t \in [0..N -> T] : t = [k \in 0..N |-> IF k = 0 THEN base ELSE f[t[k - 1]]]
    BY <1>5 DEF Iterates
  <2>2. \A r \in T : f[r] = TraceStep(list, r)
    OBVIOUS
  <2> HIDE DEF N, T, base, f
  <2>3. \A k \in 0..N : k # 0 => k - 1 \in 0..N
    BY <1>1
  <2>4. \A k \in 0..N : k # 0 => f[t[k - 1]] = TraceStep(list, t[k - 1])
    BY <2>2, <2>3
  <2>5. t = [k \in 0..N |-> IF k = 0 THEN base ELSE TraceStep(list, t[k - 1])]
    BY <2>1, <2>4
  <2>6. QED
    BY <2>5
<1>7. Solves(trace)
  <2> HIDE DEF Solves
  <2>1. QED
    BY <1>6, Zenon
<1> HIDE DEF trace
<1>8. N \in {k \in 0..N : trace[k] \in T}
  <2> DEFINE P == {k \in 0..N : trace[k] \in T}
  <2>1. \A k \in 0..N : trace[k] = IF k = 0 THEN base ELSE TraceStep(list, trace[k - 1])
    <3> HIDE DEF N, base
    <3>1. QED
      BY <1>7
  <2> HIDE DEF N, T, base
  <2>2. 0 \in P
    BY <1>1, <1>2, <2>1
  <2>3. ASSUME NEW k \in 0..(N - 1), k \in P
        PROVE  k + 1 \in P
    <3>1. trace[k] \in T
      BY <2>3
    <3>2. TraceStep(list, trace[k]) \in T
      BY <3>1, TraceStepTyped DEF T
    <3>3. k + 1 \in 0..N /\ k + 1 # 0 /\ (k + 1) - 1 = k
      BY <1>1
    <3>4. trace[k + 1] = TraceStep(list, trace[k])
      BY <2>1, <3>3
    <3>5. QED
      BY <3>2, <3>3, <3>4
  <2>4. N \in 0..N
    BY <1>1
  <2> HIDE DEF P
  <2>5. N \in P
    BY <1>1, <2>2, <2>3, <2>4, UpTo
  <2>6. QED
    BY <2>5 DEF P
<1>9. trace[N] \in T
  BY <1>8
<1> HIDE DEF N
<1>10. QED
  BY <1>4, <1>9

\* The makespan of a traced plan is one, although steps that moved up may start
\* before 0.
LEMMA PlanMakespanTyped ==
    ASSUME NEW p \in Seq(TracedStep)
    PROVE  PlanMakespan(p) \in Nat
<1> DEFINE ends == {p[i].start + Duration[p[i].op] : i \in DOMAIN p}
           f == [i \in DOMAIN p |-> p[i].start + Duration[p[i].op]]
<1>1. \A i \in DOMAIN p : p[i].start + Duration[p[i].op] \in Int
  <2> TAKE i \in DOMAIN p
  <2>1. p[i] \in TracedStep
    OBVIOUS
  <2>2. p[i].start \in Int /\ p[i].op \in Op
    BY <2>1 DEF TracedStep
  <2>3. Duration[p[i].op] \in Nat
    BY <2>2, TaskAssumption
  <2>4. QED
    BY <2>2, <2>3
<1>2. IsFiniteSet(ends)
  <2>1. f \in Surjection(DOMAIN p, ends)
    BY DEF Surjection
  <2>2. DOMAIN p = 1..Len(p) /\ Len(p) \in Nat
    OBVIOUS
  <2>3. IsFiniteSet(DOMAIN p)
    BY <2>2, FS_Interval
  <2>4. QED
    BY <2>1, <2>3, FS_Surjection
<1>3. ends \in SUBSET Int
  BY <1>1
<1>4. PlanMakespan(p) = Latest({0} \cup ends)
  BY DEF PlanMakespan
<1> HIDE DEF ends
<1>5. IsFiniteSet({0} \cup ends)
  <2>1. IsFiniteSet({0})
    BY FS_Singleton
  <2>2. QED
    BY <1>2, <2>1, FS_Union
<1>6. /\ Latest({0} \cup ends) \in {0} \cup ends
      /\ \A j \in {0} \cup ends : j <= Latest({0} \cup ends)
  <2>1. {0} \cup ends \in SUBSET Int /\ {0} \cup ends # {}
    BY <1>3
  <2>2. QED
    BY <1>5, <2>1, LatestIsLatest
<1>7. Latest({0} \cup ends) \in Int /\ 0 <= Latest({0} \cup ends)
  <2>1. 0 \in {0} \cup ends /\ {0} \cup ends \subseteq Int
    BY <1>3
  <2>2. QED
    BY <1>6, <2>1, Zenon
<1>8. QED
  BY <1>4, <1>7

----------------------------------------------------------------------------
(* Nothing is missed                                                       *)

\* The inductive invariant: beside the tree, states, plans and makespans have
\* their types.  A state that an operator which takes no time led to may have
\* anything due; it is not closed.
SearchInv ==
    /\ ClosedIsTree
    /\ IsFiniteSet(closed)
    /\ \A n \in closed : Searched(n.state)
    /\ pc = "step" => \/ current.operator \in Op /\ Duration[current.operator] = 0
                      \/ Searched(current.state)
    /\ pc = "solved" => plan \in Seq(TracedStep)
    /\ bestMakespan \in Nat \cup {None}

\* A typed tree can be traced.
LEMMA TreeIsTraceable ==
    ASSUME ClosedIsTree, IsFiniteSet(closed), \A n \in closed : Searched(n.state)
    PROVE  Traceable(closed)
<1> SUFFICES ASSUME NEW n \in closed
             PROVE  /\ n.state.timestamp \in Nat
                    /\ \/ n.predecessor = None
                       \/ n.predecessor \in ClosedStates /\ n.operator \in Op \cup {TimePass}
  BY DEF Traceable, ClosedStates
<1>1. n.state.timestamp \in Nat
  BY SearchedIsTyped
<1>2. IsReached(n)
  BY DEF ClosedIsTree
<1>3. QED
  BY <1>1, <1>2 DEF IsReached, MayFollow

\* The search begins with it.
LEMMA SearchInvInit == Init => SearchInv
<1> SUFFICES ASSUME Init PROVE SearchInv
  OBVIOUS
<1>1. ClosedIsTree
  BY DEF Init, ClosedIsTree, IsReached
<1>2. IsFiniteSet(closed)
  BY FS_EmptySet DEF Init
<1>3. Searched(current.state)
  BY InitialIsTyped DEF Init
<1>4. QED
  BY <1>1, <1>2, <1>3 DEF Init, SearchInv

\* Every step keeps it.
LEMMA SearchInvStep ==
    ASSUME Gap = 0, SearchInv, [Next]_vars
    PROVE  SearchInv'
<1>1. ClosedIsTree'
  BY ClosedIsTreeStep DEF SearchInv
<1>2. /\ IsFiniteSet(closed) /\ \A n \in closed : Searched(n.state)
      /\ bestMakespan \in Nat \cup {None}
  BY DEF SearchInv
<1>3. CASE CloseState
  <2>1. /\ pc = "step" /\ ~Discarded /\ closed' = closed \cup {current}
        /\ current' = current /\ bestMakespan' = bestMakespan /\ pc' # "step"
        /\ pc' = "solved" => plan' = TracePath(closed', current.state)
    BY <1>3 DEF CloseState
  <2>2. Searched(current.state)
    BY <2>1 DEF SearchInv, Discarded
  <2>3. IsFiniteSet(closed') /\ \A n \in closed' : Searched(n.state)
    BY <1>2, <2>1, <2>2, FS_AddElement
  <2>4. Traceable(closed')
    <3>1. (ClosedIsTree /\ IsFiniteSet(closed) /\ (\A n \in closed : Searched(n.state)) => Traceable(closed))'
      BY TreeIsTraceable, PTL
    <3>2. QED
      BY <1>1, <2>3, <3>1
  <2>5. TracePath(closed', current.state) \in Seq(TracedStep)
    BY <2>2, <2>4, SearchedIsTyped, TraceTyped
  <2>6. QED
    BY <1>1, <1>2, <2>1, <2>3, <2>5 DEF SearchInv
<1>4. CASE DiscardState
  <2>1. /\ pc = "step" /\ closed' = closed /\ bestMakespan' = bestMakespan /\ pc' # "step"
        /\ pc' = "solved" => current.operator = TimePass /\ plan' = TracePath(closed, current.state)
    BY <1>4 DEF DiscardState
  <2>2. pc' = "solved" => Searched(current.state)
    BY <2>1, SearchAssumption DEF SearchInv
  <2>3. Traceable(closed)
    BY TreeIsTraceable DEF SearchInv
  <2>4. pc' = "solved" => plan' \in Seq(TracedStep)
    BY <2>1, <2>2, <2>3, SearchedIsTyped, TraceTyped
  <2>5. QED
    BY <1>1, <1>2, <2>1, <2>4 DEF SearchInv
<1>5. CASE FetchNextState
  <2>1. PICK n \in open :
          current' = [state |-> After(n.parent, n.operator), predecessor |-> n.parent, operator |-> n.operator]
    BY <1>5 DEF FetchNextState, Selectable
  <2>2. closed' = closed /\ bestMakespan' = bestMakespan /\ pc' = "step"
    BY <1>5 DEF FetchNextState
  <2>3. MayFollow(n.parent, n.operator)
    BY DEF SearchInv, ClosedIsTree
  <2>4. Searched(n.parent) /\ (n.operator = TimePass \/ n.operator \in Op)
    BY <1>2, <2>3 DEF MayFollow, ClosedStates
  <2>5. \/ n.operator \in Op /\ Duration[n.operator] = 0
        \/ Searched(After(n.parent, n.operator))
    <3>1. n.operator \in Op => Duration[n.operator] \in Nat
      BY TaskAssumption
    <3>2. QED
      BY <2>4, <3>1, AfterTyped, Gap = 0
  <2>6. QED
    BY <1>1, <1>2, <2>1, <2>2, <2>5 DEF SearchInv
<1>6. CASE SavePlan
  <2>1. /\ pc = "solved" /\ closed' = closed /\ pc' \notin {"step", "solved"}
        /\ bestMakespan' = bestMakespan \/ bestMakespan' = PlanMakespan(plan)
    BY <1>6 DEF SavePlan, Finish
  <2>2. PlanMakespan(plan) \in Nat
    BY <2>1, PlanMakespanTyped DEF SearchInv
  <2>3. QED
    BY <1>1, <1>2, <2>1, <2>2 DEF SearchInv
<1>7. CASE TimeOut \/ Explored
  <2>1. closed' = closed /\ bestMakespan' = bestMakespan /\ pc' = "done"
    BY <1>7 DEF TimeOut, Explored, Finish
  <2>2. QED
    BY <1>1, <1>2, <2>1 DEF SearchInv
<1>8. CASE UNCHANGED vars
  BY <1>1, <1>8 DEF SearchInv, vars
<1>9. QED
  BY <1>3, <1>4, <1>5, <1>6, <1>7, <1>8 DEF Next

\* The best makespan is kept or becomes less.
NoWorse == \/ bestMakespan' = bestMakespan
           \/ bestMakespan' \in Nat /\ Improves(bestMakespan')

\* So it is in every step: only a better plan is saved.
LEMMA NeverWorse ==
    ASSUME SearchInv, [Next]_vars
    PROVE  NoWorse
<1>1. CASE SavePlan
  <2>1. /\ pc = "solved"
        /\ IF Improves(PlanMakespan(plan)) THEN bestMakespan' = PlanMakespan(plan)
           ELSE bestMakespan' = bestMakespan
    BY <1>1, Zenon DEF SavePlan
  <2>2. PlanMakespan(plan) \in Nat
    BY <2>1, PlanMakespanTyped DEF SearchInv
  <2>3. QED
    BY <2>1, <2>2 DEF NoWorse
<1>2. QED
  BY <1>1 DEF Next, CloseState, DiscardState, TimeOut, FetchNextState, Explored, vars, NoWorse

\* What is better than the new best plan is better than the one before.
LEMMA ImprovesLess ==
    ASSUME bestMakespan \in Nat \cup {None}, NoWorse
    PROVE  \A m \in Nat : Improves(m)' => Improves(m)
<1> SUFFICES ASSUME NEW m \in Nat, Improves(m)'
             PROVE  Improves(m)
  OBVIOUS
<1>1. CASE bestMakespan' = bestMakespan
  BY <1>1 DEF Improves
<1>2. CASE bestMakespan' \in Nat /\ Improves(bestMakespan')
  <2>1. bestMakespan' # None /\ m < bestMakespan'
    BY <1>2, SearchAssumption DEF Improves
  <2>2. QED
    BY <1>2, <2>1 DEF Improves
<1>3. QED
  BY <1>1, <1>2 DEF NoWorse

\* A state has no new successors.
LEMMA NoNewSuccessors ==
    ASSUME bestMakespan \in Nat \cup {None}, NoWorse, NEW s, Searched(s), NEW m \in Successors(s)'
    PROVE  m \in Successors(s) /\ m.parent = s /\ m.operator \in Op \cup {TimePass}
<1> DEFINE operators == {o \in Op : IsInserted(s, o)} \cup {o \in {TimePass} : MayPassTime(s)}
           operatorsThen == {o \in Op : IsInserted(s, o)'} \cup {o \in {TimePass} : MayPassTime(s)}
<1>1. Improves(MakespanWith(s, 0))' /\ m \in [parent : {s}, operator : operatorsThen]
  BY DEF Successors
<1>2. Improves(MakespanWith(s, 0))
  BY <1>1, ImprovesLess, MakespanTyped
<1>3. \A o \in Op : IsInserted(s, o)' => IsInserted(s, o)
  <2> SUFFICES ASSUME NEW o \in Op, IsInserted(s, o)'
               PROVE  IsInserted(s, o)
    OBVIOUS
  <2>1. Duration[o] \in Nat
    BY TaskAssumption
  <2>2. MakespanWith(s, Duration[o]) \in Nat
    BY <2>1, MakespanTyped
  <2>3. Improves(MakespanWith(s, Duration[o]))' /\ IsApplicable(s, o)
    BY DEF IsInserted
  <2>4. QED
    BY <2>2, <2>3, ImprovesLess DEF IsInserted
<1>4. operatorsThen \subseteq operators /\ operators \subseteq Op \cup {TimePass}
  BY <1>3
<1> HIDE DEF operators, operatorsThen
<1>5. m \in [parent : {s}, operator : operators] /\ m.parent = s /\ m.operator \in Op \cup {TimePass}
  BY <1>1, <1>4
<1>6. Successors(s) = [parent : {s}, operator : operators]
  BY <1>2 DEF Successors, operators
<1>7. QED
  BY <1>5, <1>6

\* What is settled stays so.
LEMMA SettledStays ==
    ASSUME bestMakespan \in Nat \cup {None}, NoWorse, closed \subseteq closed',
           NEW t, Searched(t), IsSettled(t)
    PROVE  IsSettled(t)'
<1>1. CASE ~Improves(MakespanWith(t, 0))
  <2>1. ~Improves(MakespanWith(t, 0))'
    BY <1>1, ImprovesLess, MakespanTyped
  <2>2. QED
    BY <2>1 DEF IsSettled
<1>2. CASE \E n \in closed : Key(n.state) = Key(t) /\ n.state.timestamp <= t.timestamp
  BY <1>2 DEF IsSettled
<1>3. QED
  BY <1>1, <1>2 DEF IsSettled

\* NothingIsMissed, for one step m that goes on from a closed state.
NotMissed(m) ==
    \/ m.operator \in Op /\ Duration[m.operator] = 0
    \/ m \in open
    \/ pc = "step" /\ current.predecessor = m.parent /\ current.operator = m.operator
    \/ IsSettled(After(m.parent, m.operator))

\* The step that is being taken ends with its state settled.
LEMMA TakenIsSettled ==
    ASSUME SearchInv, CloseState \/ DiscardState, NEW m, m.operator \in Op \cup {TimePass},
           current.predecessor = m.parent, current.operator = m.operator
    PROVE  NotMissed(m)'
<1>1. PICK t : t = current.state
  OBVIOUS
<1>2. t = After(m.parent, m.operator)
  BY <1>1, SearchAssumption DEF SearchInv, ClosedIsTree, IsReached
<1>3. SUFFICES (m.operator \in Op /\ Duration[m.operator] = 0) \/ IsSettled(t)'
  BY <1>2 DEF NotMissed
<1>4. CASE CloseState
  <2>1. pc = "step" /\ ~Discarded /\ closed' = closed \cup {current}
    BY <1>4 DEF CloseState
  <2>2. t.timestamp \in Nat
    BY <1>1, <2>1, SearchedIsTyped DEF SearchInv, Discarded
  <2>3. current \in closed' /\ t.timestamp <= t.timestamp
    BY <2>1, <2>2
  <2>4. QED
    BY <1>1, <2>3 DEF IsSettled
<1>5. CASE DiscardState
  <2>1. Discarded /\ closed' = closed /\ bestMakespan' = bestMakespan
    BY <1>5 DEF DiscardState
  <2>2. CASE ~Improves(MakespanWith(t, 0)) \/ Contains(t)
    <3>1. IsSettled(t)
      BY <2>2 DEF IsSettled, Contains, Entries
    <3>2. QED
      BY <2>1, <3>1 DEF IsSettled, Improves
  <2>3. QED
    BY <1>1, <2>1, <2>2 DEF Discarded
<1>6. QED
  BY <1>4, <1>5

\* A step that was not missed is not missed later.
LEMMA NotMissedStays ==
    ASSUME Gap = 0, SearchInv, [Next]_vars, NEW m, Searched(m.parent),
           m.operator \in Op \cup {TimePass}, NotMissed(m)
    PROVE  NotMissed(m)'
<1>1. closed \subseteq closed'
  BY DEF Next, CloseState, DiscardState, TimeOut, FetchNextState, Explored, SavePlan, vars
<1>2. CASE m.operator \in Op /\ Duration[m.operator] = 0
  BY <1>2 DEF NotMissed
<1>3. CASE m \in open
  <2>1. CASE FetchNextState
    <3>1. PICK n \in open :
            /\ open' = open \ {n}
            /\ current' = [state |-> After(n.parent, n.operator),
                           predecessor |-> n.parent, operator |-> n.operator]
      BY <2>1 DEF FetchNextState, Selectable
    <3>2. pc' = "step"
      BY <2>1 DEF FetchNextState
    <3>3. CASE n = m
      BY <3>1, <3>2, <3>3 DEF NotMissed
    <3>4. CASE n # m
      BY <1>3, <3>1, <3>4 DEF NotMissed
    <3>5. QED
      BY <3>3, <3>4
  <2>2. CASE ~FetchNextState
    <3>1. m \in open'
      BY <1>3, <2>2 DEF Next, CloseState, DiscardState, TimeOut, Explored, SavePlan, vars
    <3>2. QED
      BY <3>1 DEF NotMissed
  <2>3. QED
    BY <2>1, <2>2
<1>4. CASE pc = "step" /\ current.predecessor = m.parent /\ current.operator = m.operator
  <2>1. CASE CloseState \/ DiscardState
    BY <1>4, <2>1, TakenIsSettled
  <2>2. CASE UNCHANGED vars
    BY <1>4, <2>2 DEF NotMissed, vars
  <2>3. QED
    BY <1>4, <2>1, <2>2 DEF Next, TimeOut, FetchNextState, Explored, SavePlan
<1>5. CASE IsSettled(After(m.parent, m.operator)) /\ ~(m.operator \in Op /\ Duration[m.operator] = 0)
  <2>1. m.operator \in Op => Duration[m.operator] \in Nat
    BY TaskAssumption
  <2>2. Searched(After(m.parent, m.operator))
    BY <1>5, <2>1, AfterTyped, Gap = 0
  <2>3. IsSettled(After(m.parent, m.operator))'
    BY <1>1, <1>5, <2>2, NeverWorse, SettledStays DEF SearchInv
  <2>4. QED
    BY <2>3 DEF NotMissed
<1>6. QED
  BY <1>2, <1>3, <1>4, <1>5 DEF NotMissed

\* Every step keeps NothingIsMissed.
LEMMA NothingIsMissedStep ==
    ASSUME Gap = 0, SearchInv, NothingIsMissed, [Next]_vars
    PROVE  NothingIsMissed'
<1> SUFFICES ASSUME NEW n \in closed', ~IsGoal(n.state), NEW m \in Successors(n.state)'
             PROVE  NotMissed(m)'
  BY DEF NothingIsMissed, NotMissed
<1>1. NoWorse /\ bestMakespan \in Nat \cup {None}
  BY NeverWorse DEF SearchInv
<1>2. CASE n \in closed
  <2>1. Searched(n.state)
    BY <1>2 DEF SearchInv
  <2>2. m \in Successors(n.state) /\ m.parent = n.state /\ m.operator \in Op \cup {TimePass}
    BY <1>1, <2>1, NoNewSuccessors
  <2>3. NotMissed(m)
    BY <1>2, <2>2 DEF NothingIsMissed, NotMissed
  <2>4. QED
    BY <2>1, <2>2, <2>3, NotMissedStays, Gap = 0
<1>3. CASE n \notin closed
  <2>1. CloseState /\ n = current
    BY <1>3 DEF Next, CloseState, DiscardState, TimeOut, FetchNextState, Explored, SavePlan, vars
  <2>2. open' = open \cup Successors(current.state) /\ pc = "step" /\ ~Discarded
    BY <2>1 DEF CloseState, AtGoal
  <2>3. Searched(n.state)
    BY <2>1, <2>2 DEF SearchInv, Discarded
  <2>4. m \in Successors(n.state)
    BY <1>1, <2>3, NoNewSuccessors
  <2>5. QED
    BY <2>1, <2>2, <2>4 DEF NotMissed
<1>4. QED
  BY <1>2, <1>3

\* Nothing is missed: however the heuristics order the open lists, whatever the
\* search throws away and however often it finds a better plan, every step that
\* may lead from a closed state to a better plan is still open, is being taken
\* or has led to a state that is settled.  When the state space is "completely
\* explored", nothing is open and all of them are.
THEOREM SpecNothingIsMissed ==
    ASSUME Gap = 0
    PROVE  Spec => []NothingIsMissed
<1>1. Init => SearchInv /\ NothingIsMissed
  BY SearchInvInit DEF Init, NothingIsMissed
<1>2. (SearchInv /\ NothingIsMissed) /\ [Next]_vars => (SearchInv /\ NothingIsMissed)'
  BY SearchInvStep, NothingIsMissedStep, Gap = 0
<1>3. QED
  BY <1>1, <1>2, PTL DEF Spec
=============================================================================
