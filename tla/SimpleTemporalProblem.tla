----------------------- MODULE SimpleTemporalProblem -----------------------
(***************************************************************************)
(* Simple temporal networks (downward/search/scheduler.cpp): how a network *)
(* of distances between time points is built, made chordal and solved.     *)
(*                                                                         *)
(* The nodes are 1..n and X0, the origin of time, is n + 1.  A network has *)
(* the largest distance of each pair of nodes and the set of the pairs     *)
(* between which there is an arc.                                          *)
(***************************************************************************)
EXTENDS Integers, Sequences, FiniteSets

CONSTANT INF   \* no constraint, in units of time

ASSUME InfAssumption == INF \in Nat \ {0}

Add(a, b) == IF a = INF \/ b = INF \/ a + b >= INF THEN INF ELSE a + b

Shorter(a, b) == IF a < b THEN a ELSE b

\* The members of S up to n, one after the other.
Ascending(S, n) ==
    LET list[i \in 0..n] ==
            IF i = 0 THEN <<>>
            ELSE IF i \in S THEN Append(list[i - 1], i) ELSE list[i - 1]
    IN  list[n]

Nodes(stn) == 1..stn.n
XZero(stn) == stn.n

\* The network of n variables without a constraint.
Unconstrained(n) ==
    [n |-> n + 1,
     matrix |-> [e \in (1..(n + 1)) \X (1..(n + 1)) |-> IF e[1] = e[2] THEN 0 ELSE INF],
     arcs |-> {}]

SetDistance(stn, from, to, distance) ==
    [stn EXCEPT !.matrix[<<from, to>>] = distance, !.arcs = @ \cup {<<from, to>>}]

\* to - from has to fall into the interval.  An earlier interval is replaced.
SetInterval(stn, from, to, lower, upper) ==
    SetDistance(SetDistance(stn, from, to, upper), to, from, -lower)

SetSingletonInterval(stn, from, to, value) == SetInterval(stn, from, to, value, value)

SetUnboundedInterval(stn, from, to, lower) == SetInterval(stn, from, to, lower, INF)

SetUnboundedIntervalFromXZero(stn, to, lower) ==
    SetUnboundedInterval(stn, XZero(stn), to, lower)

----------------------------------------------------------------------------
(* solve: Floyd and Warshall                                               *)

\* The length of a path of two parts: only the first of them is known to be one.
TriangleLength(a, b) == IF a = INF THEN INF ELSE a + b

Update(length, old) == IF length < INF /\ length < old THEN length ELSE old

\* The paths through node k are looked at.  That the code does so in place makes a
\* difference only to networks without a schedule.  (With the comparison, TLC computes
\* the distances once.)
Through(stn, matrix, k) ==
    LET next == [e \in DOMAIN matrix |->
                    Update(TriangleLength(matrix[<<e[1], k>>], matrix[<<k, e[2]>>]), matrix[e])]
    IN  IF next = matrix THEN matrix ELSE next

Solve(stn) ==
    LET matrix[k \in 0..stn.n] ==
            IF k = 0 THEN stn.matrix ELSE Through(stn, matrix[k - 1], k)
    IN  [stn EXCEPT !.matrix = matrix[stn.n]]

SolutionIsValid(stn) ==
    \A i, j \in Nodes(stn) : i < j => stn.matrix[<<i, j>>] >= -stn.matrix[<<j, i>>]

----------------------------------------------------------------------------
(* solveWithP3C                                                            *)

\* The nodes outside of ordered that have an arc from node.
Children(stn, node, ordered) == {j \in Nodes(stn) \ ordered : <<node, j>> \in stn.arcs}

NumberOfNeighbors(stn) == [i \in Nodes(stn) |-> Cardinality(Children(stn, i, {}))]

\* The first of the nodes that are not ordered with the fewest neighbours.
NextNodeInOrdering(stn, neighbors, ordered) ==
    CHOOSE i \in Nodes(stn) \ ordered :
        \A j \in Nodes(stn) \ ordered :
            \/ neighbors[i] < neighbors[j]
            \/ neighbors[i] = neighbors[j] /\ i <= j

\* The pairs of children without an arc between them.
MissingArcs(stn, children) == {e \in children \X children : e[1] < e[2] /\ e \notin stn.arcs}

\* createFillEdges: arcs without a constraint.
CreateFillEdges(stn, missing) ==
    LET fill == missing \cup {<<e[2], e[1]>> : e \in missing}
    IN  [stn EXCEPT !.matrix = [e \in DOMAIN @ |-> IF e \in fill THEN INF ELSE @[e]],
                    !.arcs = @ \cup fill]

\* The nodes before the k-th of an order that have an arc to it.
ArcsSmaller(stn, order, k) ==
    {order[j] : j \in {i \in 1..(k - 1) : <<order[k], order[i]>> \in stn.arcs}}

\* One node of performDPC: the arcs between the nodes before it get no longer
\* than the path through it.
DirectPaths(stn, order, k) ==
    LET before == ArcsSmaller(stn, order, k)
    IN  [stn EXCEPT !.matrix =
            [e \in DOMAIN @ |->
                IF e[1] \in before /\ e[2] \in before /\ e[1] # e[2]
                THEN Shorter(Add(@[<<e[1], order[k]>>], @[<<order[k], e[2]>>]), @[e])
                ELSE @[e]]]

\* The arcs between the nodes before the k-th allow for no value.
IsContradiction(stn, order, k) ==
    \E i, j \in ArcsSmaller(stn, order, k) :
        i # j /\ stn.matrix[<<i, j>>] + stn.matrix[<<j, i>>] < 0

\* The arcs from i to node and from node to j get no longer than the path through
\* the other one.
TightenArcs(matrix, node, i, j) ==
    LET m == [matrix EXCEPT ![<<i, node>>] =
                  Shorter(Add(matrix[<<i, j>>], matrix[<<j, node>>]), @)]
    IN  [m EXCEPT ![<<node, j>>] = Shorter(Add(m[<<node, i>>], m[<<i, j>>]), @)]

\* The l-th node of an order comes after the k-th and has an arc to it.
ArcLarger(stn, order, k, l) == k < l /\ <<order[k], order[l]>> \in stn.arcs

\* The i-th node after the k-th, with each of the others.
TightenRow(stn, matrix, order, k, i) ==
    LET cell[j \in 0..Len(order)] ==
            IF j = 0 THEN matrix
            ELSE IF i # j /\ ArcLarger(stn, order, k, j)
                 THEN TightenArcs(cell[j - 1], order[k], order[i], order[j])
                 ELSE cell[j - 1]
    IN  cell[Len(order)]

\* One node of solveWithP3C: the arcs between it and the nodes after it get no
\* longer than the path through another one of those.
TightenNode(stn, order, k) ==
    LET row[i \in 0..Len(order)] ==
            IF i = 0 THEN stn.matrix
            ELSE IF ArcLarger(stn, order, k, i)
                 THEN TightenRow(stn, row[i - 1], order, k, i)
                 ELSE row[i - 1]
    IN  [stn EXCEPT !.matrix = row[Len(order)]]

\* The distances to X0 before the first step of extractMinimalDistances.
MinimalDistances(stn) == [i \in Nodes(stn) |-> IF i = XZero(stn) THEN 0 ELSE INF]

\* Mutant of Relaxed: the arcs are followed in their own direction.
RelaxedForward(stn, distances, node) ==
    [i \in Nodes(stn) |->
        IF i \in Children(stn, node, {})
        THEN Shorter(Add(distances[node], stn.matrix[<<node, i>>]), distances[i])
        ELSE distances[i]]

\* One node of extractMinimalDistances: the distances of its children that get
\* shorter through it.
Relaxed(stn, distances, node) ==
    [i \in Nodes(stn) |->
        IF i \in Children(stn, node, {})
        THEN Shorter(Add(distances[node], stn.matrix[<<i, node>>]), distances[i])
        ELSE distances[i]]

\* The nodes that got closer, in the order in which they are put into the queue.
GotCloser(stn, old, new) == Ascending({i \in Nodes(stn) : new[i] < old[i]}, stn.n)
============================================================================
