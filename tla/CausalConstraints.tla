------------------------- MODULE CausalConstraints -------------------------
(***************************************************************************)
(* The relaxed plan behind a value of the heuristic: the operators it      *)
(* marks as helpful, and how long it takes when they are scheduled         *)
(* (downward/search/cyclic_cg_heuristic.cpp, generate_causal_constraints,  *)
(* computeScheduledPlanMakespan).  Operators of a relaxed plan g are       *)
(* numbered in the order in which they are needed.                         *)
(***************************************************************************)
EXTENDS LocalProblems

LOCAL INSTANCE SequencesExt
\* Costs are in tenths.
LOCAL INSTANCE SimpleTemporalProblem WITH INF <- 100000000

GoalNode == <<0, 0, 1>>

----------------------------------------------------------------------------
(* mark_helpful_transitions                                                *)

\* all_conds_satiesfied.
AllCondsSatisfied(label) ==
    \A c \in ToSet(label.precond) : types[c.var] = "module" \/ c.value = state.value[c.var]

RECURSIVE MarkHelpful(_, _, _)

\* The nodes transition conditions ask for in this state, from the i-th on.
RECURSIVE MarkConditions(_, _, _, _)
MarkConditions(h, m, precond, i) ==
    IF i > Len(precond) THEN m
    ELSE LET c == precond[i]
             n == <<c.var, state.value[c.var], c.value>>
             checked == IF h.node[n].cost < QuiteALot THEN m ELSE [m EXCEPT !.abort = "helpful cost"]
         IN  MarkConditions(h,
                 IF types[c.var] = "module" \/ c.value = state.value[c.var] THEN m
                 ELSE IF h.node[n].cost < QuiteALot /\ h.node[n].waitFor = -1 THEN MarkHelpful(h, checked, n)
                 ELSE checked,
                 precond, i + 1)

\* The first transition to node n is marked if only its own duration was paid
\* for, otherwise what its conditions need.
MarkHelpful(h, m, n) ==
    LET t == h.node[n].reachedBy
        label == Label(t)
    IN  IF h.base[Problem(n)] = -1 \/ t = None THEN m
        ELSE IF h.trans[t].cost = Duration(h, t)
        THEN IF label.op # 0 /\ AllCondsSatisfied(label) THEN [m EXCEPT !.preferred = @ \cup {label.op}] ELSE m
        ELSE IF Running(label.op) THEN m
        ELSE MarkConditions(h, m, label.precond, 1)

----------------------------------------------------------------------------
(* generate_causal_constraints                                             *)

Operator(i) == SearchOperator(types, file.operators[i])
Disables(a, b) == a # b /\ IsDisabledBy(Operator(b), Operator(a))
Supports(a, b) == a # b /\ Enables(Operator(a), Operator(b))

\* Operators of the first list come before those of the second that disable them.
Threatened(g, first, second) ==
    {<<a, b>> \in ToSet(first) \X ToSet(second) : Disables(g.needed[b].op, g.needed[a].op)}

\* The transitions to node n, from the last to the first, or to one that runs.
RECURSIVE Path(_, _)
Path(h, n) ==
    LET t == h.node[n].pred
    IN  IF n = Problem(n) \o <<n[2]>> \/ t = None THEN <<>>
        ELSE IF Running(Label(t).op) THEN <<>> ELSE <<t>> \o Path(h, Source(t))

RECURSIVE Generate(_, _, _)

\* Subplan sub, with what was there before in g, for an operator main, 0 if it is
\* an axiom; before is what comes after it.  The operators of a subplan are
\* counted from main, whatever subplans came first.
AddSubplan(g, sub, main, before) ==
    [sub EXCEPT !.subplans = Append(g.subplans, sub.ops),
                !.constraints = IF main = 0 THEN @
                                ELSE @ \cup {<<main + k, main>> : k \in DOMAIN sub.ops}
                                       \cup Threatened(sub, sub.ops, before)]

\* The subplans for the conditions of transition t, from the j-th on.
RECURSIVE Subplans(_, _, _, _, _, _)
Subplans(h, g, t, main, before, j) ==
    IF j > Len(Label(t).precond) \/ g.abort # "" THEN g
    ELSE LET c == Label(t).precond[j]
             n == CondNode(h, Source(t), c)
         IN  Subplans(h,
                 IF h.node[Source(t)].context[c.local] = c.value THEN [g EXCEPT !.subplans = Append(@, <<>>)]
                 ELSE IF types[c.var] \notin {"logical", "comparison"} THEN [g EXCEPT !.abort = "no local problem"]
                 ELSE AddSubplan(g, Generate(h, g, n), main, before),
                 t, main, before, j + 1)

\* The subplans of an operator (mains) are added to those of the path (ops).
\* Earlier subplans come before later ones that disable them.
Between(g) ==
    UNION {Threatened(g, g.subplans[e[1]], g.subplans[e[2]]) :
           e \in {d \in (DOMAIN g.subplans) \X (DOMAIN g.subplans) : d[1] < d[2]}}
Joined(g, ops, mains) ==
    [g EXCEPT !.ops = ops \o mains \o FlattenSeq(g.subplans), !.constraints = @ \cup Between(g)]

\* The operator of a transition is one more that is needed.
Needed(h, g, t) ==
    IF Label(t).op = 0 THEN g
    ELSE [g EXCEPT !.needed = Append(@, [op |-> Label(t).op, duration |-> DirectCost(h, t)])]

\* The transitions of a path, and before each what it needs.
RECURSIVE Along(_, _, _)
AlongTransition(h, g, t, main) ==
    LET mains == IF main = 0 THEN <<>> ELSE <<main>>
        started == [g EXCEPT !.constraints = @ \cup Threatened(g, mains, g.ops), !.subplans = <<>>]
    IN  Joined(Subplans(h, started, t, main, g.ops, 1), g.ops, mains)

Along(h, g, path) ==
    IF path = <<>> \/ g.abort # "" THEN g
    ELSE LET t == Head(path)
         IN  Along(h,
                 AlongTransition(h, Needed(h, g, t), t, IF Label(t).op = 0 THEN 0 ELSE Len(g.needed) + 1),
                 Tail(path))

Generate(h, g, n) == Along(h, [g EXCEPT !.ops = <<>>], Path(h, n))

----------------------------------------------------------------------------
(* computeScheduledPlanMakespan                                            *)

RunningOps == [i \in DOMAIN state.operators |->
                  [op |-> state.operators[i].op, duration |-> state.operators[i].increment]]

\* Running operators come before what they disable or support.
AfterRunning(g) ==
    LET running == DOMAIN RunningOps
        op(i) == g.needed[i].op
    IN  [g EXCEPT !.constraints = @ \cup
            {<<i, j>> \in running \X (DOMAIN g.needed \ running) : Disables(op(j), op(i)) \/ Supports(op(i), op(j))}]

RelaxedPlan(h) ==
    AfterRunning(Generate(h, [needed |-> RunningOps, constraints |-> {}, ops |-> <<>>, subplans |-> <<>>, abort |-> ""],
                          GoalNode))

\* The starts and ends of the operators; an operator ends before those it is
\* constrained to precede start.
Network(g) ==
    LET n == Len(g.needed)
        constraints == SetToSeq(g.constraints)
        timed[i \in 0..n] ==
            IF i = 0 THEN Unconstrained(2 * n)
            ELSE LET before == timed[i - 1]
                 IN  SetSingletonInterval(SetUnboundedIntervalFromXZero(before, i, 0), i, n + i, g.needed[i].duration)
        ordered[k \in 0..Len(constraints)] ==
            IF k = 0 THEN timed[n]
            ELSE LET before == ordered[k - 1]
                 IN  SetUnboundedInterval(before, n + constraints[k][1], constraints[k][2], Eps)
    IN  ordered[Len(constraints)]

\* No schedule follows all constraints: an assertion fails.
Contradicts(g) == ~SolutionIsValid(Solve(Network(g)))

\* The end of the tightest schedule.
Makespan(g) ==
    LET solved == Solve(Network(g))
    IN  Max({0} \cup {-solved.matrix[<<i, XZero(solved)>>] : i \in 1..(2 * Len(g.needed))})
=============================================================================
