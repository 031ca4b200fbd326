---------------------------- MODULE CausalGraph -----------------------------
(***************************************************************************)
(* The causal graph of a task and the variables that matter for its goal   *)
(* (downward/preprocess/causal_graph.cpp).                                 *)
(***************************************************************************)
EXTENDS PreprocessTask

----------------------------------------------------------------------------
(* Tarjan's search for the strongly connected components of a graph (scc.cpp), *)
(* a function from vertices to sequences of their successors.                  *)

Unvisited == -1

SccStart(graph) ==
    [number |-> [v \in DOMAIN graph |-> Unvisited],   \* dfs_numbers
     minimum |-> [v \in DOMAIN graph |-> Unvisited],  \* dfs_minima
     stack |-> <<>>,
     next |-> 0,                                      \* current_dfs_number
     components |-> <<>>]

Lower(s, v, n) == [s EXCEPT !.minimum[v] = IF n < @ THEN n ELSE @]

\* What is on the stack from v on is a component.
Close(s, v) ==
    LET from == CHOOSE i \in DOMAIN s.stack : s.stack[i] = v
    IN  [s EXCEPT !.stack = SubSeq(@, 1, from - 1),
                  !.components = Append(@, SubSeq(s.stack, from, Len(s.stack)))]

\* dfs from vertex v, when the search is in state s.
Dfs(graph) ==
    LET Vertex == DOMAIN graph
        State == [number : [Vertex -> Int], minimum : [Vertex -> Int], stack : Seq(Vertex),
                  next : Nat, components : Seq(Seq(Vertex))]
        dfs[v \in Vertex, s \in State] ==
            LET number == s.next
                entered == [s EXCEPT !.number[v] = number, !.minimum[v] = number,
                                     !.next = @ + 1, !.stack = Append(@, v)]
                follow(t, succ) ==
                    IF t.number[succ] = Unvisited
                    THEN LET u == dfs[succ, t] IN Lower(u, v, u.minimum[succ])
                    ELSE IF t.number[succ] < number /\ Contains(t.stack, succ)
                         THEN Lower(t, v, t.number[succ]) ELSE t
                left == FoldLeft(follow, entered, graph[v])
            IN  IF left.minimum[v] = number THEN Close(left, v) ELSE left
    IN  dfs

\* The components, the last one that was closed first.
Components(graph) ==
    LET visit(s, v) == IF s.number[v] = Unvisited THEN Dfs(graph)[v, s] ELSE s
        all == FoldLeft(visit, SccStart(graph), [i \in 1..Len(graph) |-> i])
    IN  Reverse(all.components)

----------------------------------------------------------------------------

\* Mutant of ConditionVars: conditions over all are forgotten.
ConditionVarsAtEnds(e) ==
    IF e.when.conditional THEN VarsOf(e.when.start) \o VarsOf(e.when.end) ELSE <<>>

\* Variables an effect with these conditions depends on, besides what its
\* operator asks for.
ConditionVars(e) ==
    IF e.when.conditional
    THEN VarsOf(e.when.start) \o VarsOf(e.when.overall) \o VarsOf(e.when.end)
    ELSE <<>>

\* What every effect of an operator depends on: its conditions and its targets.
OperatorVars(o) ==
    LET targets(prePosts) == [i \in DOMAIN prePosts |-> prePosts[i].var]
    IN  VarsOf(o.prevail.start) \o VarsOf(o.prevail.overall) \o VarsOf(o.prevail.end)
           \o targets(o.start.prePost) \o targets(o.end.prePost)

Edges(sources, target) == [i \in DOMAIN sources |-> <<sources[i], target>>]

\* Every pair that is counted, as often as it is.
OperatorEdges(o) ==
    LET prePosts == o.start.prePost \o o.end.prePost
        numerical == o.start.numerical \o o.end.numerical
    IN  FlattenSeq([i \in DOMAIN prePosts |->
                        Edges(OperatorVars(o) \o ConditionVars(prePosts[i]), prePosts[i].var)])
        \o FlattenSeq([i \in DOMAIN numerical |->
                        Edges(OperatorVars(o) \o ConditionVars(numerical[i])
                                 \o <<numerical[i].operand>>, numerical[i].var)])

RelationalEdges(a) == Edges(VarsOf(a.conditions), a.effect)
FunctionalEdges(a) == Edges(<<a.left, a.right>>, a.effect)

AllEdges(t) ==
    FlattenSeq([i \in DOMAIN t.operators |-> OperatorEdges(t.operators[i])])
        \o FlattenSeq([i \in DOMAIN t.relational |-> RelationalEdges(t.relational[i])])
        \o FlattenSeq([i \in DOMAIN t.functional |-> FunctionalEdges(t.functional[i])])

\* count: how often an edge is among these; between different variables only.
Count(edges, v, w) == IF v = w THEN 0 ELSE Cardinality({i \in DOMAIN edges : edges[i] = <<v, w>>})

WeightedGraph(t) ==
    LET edges == AllEdges(t)
    IN  [v \in DOMAIN t.variables |-> [w \in DOMAIN t.variables |-> Count(edges, v, w)]]

\* The graph without its weights, as the search for components gets it.
UnweightedGraph(weights) ==
    [v \in DOMAIN weights |->
        OnlyAt([i \in 1..Len(weights) |-> i], {w \in DOMAIN weights : weights[v][w] > 0})]

\* dfs: everything that a set of variables depends on.
Dependencies(weights, vars) ==
    LET reached[n \in 0..Len(weights)] ==
            IF n = 0 THEN vars
            ELSE LET before == reached[n - 1]
                 IN  before \cup {v \in DOMAIN weights : \E w \in before : weights[v][w] > 0}
    IN  reached[Len(weights)]

ImportantVars(t, weights) ==
    Dependencies(weights, {v \in DOMAIN t.variables : t.variables[v].duration \/ t.variables[v].module}
                              \cup ToSet(VarsOf(t.goal)))

\* The variables that are kept, in the order they came in; the level of the
\* others is 0.
Ordering(t, necessary, prune) ==
    OnlyAt([v \in 1..Len(t.variables) |-> v], {v \in DOMAIN t.variables : v \in necessary \/ ~prune})

Levels(t, ordering) ==
    [v \in DOMAIN t.variables |->
        IF Contains(ordering, v) THEN CHOOSE i \in DOMAIN ordering : ordering[i] = v ELSE 0]
=============================================================================
