----------------------- MODULE DomainTransitionGraphs -----------------------
(***************************************************************************)
(* The domain transition graphs of a stripped task                         *)
(* (downward/preprocess/domain_transition_graph*.cpp): for each variable,  *)
(* which operator or axiom takes it from one value to another, and on      *)
(* which conditions on other variables.                                    *)
(***************************************************************************)
EXTENDS PreprocessTask

Kind(x) ==
    CASE x.subterm \/ x.comparison -> "subterm"
      [] ~(x.subterm \/ x.comparison) /\ x.functional -> "functional"
      [] ~(x.subterm \/ x.comparison) /\ ~x.functional /\ x.module -> "module"
      [] OTHER -> "symbolic"

\* An effect at end of a variable that has one at start replaces its target:
\* both are one change.  The value in between is a change of its own, unless
\* it is the last one of the range, <none_of_those>.
Compress(t, changes, e) ==
    LET same == {k \in DOMAIN changes : changes[k].var = e.var}
        first == CHOOSE k \in same : \A l \in same : k <= l
        between == changes[first].post
    IN  IF same = {}
        THEN Append(changes, [var |-> e.var, pre |-> e.pre, post |-> e.post, type |-> "e"])
        ELSE [k \in DOMAIN changes |->
                 IF k = first THEN [changes[k] EXCEPT !.post = e.post, !.type = "e"] ELSE changes[k]]
             \o IF between < t.variables[e.var].range - 1
                THEN <<[var |-> e.var, pre |-> changes[first].pre, post |-> between, type |-> "e"]>>
                ELSE <<>>

\* pre_posts_to_add of an operator.
Changes(t, o) ==
    LET atStart == [i \in DOMAIN o.start.prePost |->
                       [var |-> o.start.prePost[i].var, pre |-> o.start.prePost[i].pre,
                        post |-> o.start.prePost[i].post, type |-> "s"]]
        after[n \in 0..Len(o.end.prePost)] ==
            IF n = 0 THEN atStart ELSE Compress(t, after[n - 1], o.end.prePost[n])
    IN  after[Len(o.end.prePost)]

\* A condition that an effect at start of the same operator brings about.
SelfFulfilled(o, cond) ==
    \E i \in DOMAIN o.start.prePost :
        o.start.prePost[i].var = cond[1] /\ o.start.prePost[i].post = cond[2]

Typed(conds, type) ==
    [i \in DOMAIN conds |-> [var |-> conds[i][1], value |-> conds[i][2], type |-> type]]

\* What other variables have to be for the effects e, and what the conditions
\* of those on variable x ask for.
EffectConditions(effects, x, phase, type) ==
    FlattenSeq([i \in DOMAIN effects |->
        IF effects[i].var # x /\ effects[i].pre # AnyValue
        THEN Typed(<<<<effects[i].var, effects[i].pre>>>>, type)
        ELSE IF effects[i].var = x /\ effects[i].when.conditional
             THEN Typed(effects[i].when[phase], type) ELSE <<>>])

\* A set of conditions in which the type does not tell two of them apart: the
\* first one that comes remains.
WithoutRepetition(conds) ==
    LET same(i, j) == conds[i].var = conds[j].var /\ conds[i].value = conds[j].value
    IN  OnlyAt(conds, {i \in DOMAIN conds : \A j \in 1..(i - 1) : ~same(i, j)})

\* Conditions in the order of their variables, and values.
SortConditions(conds) ==
    LET less(a, b) == a.var < b.var \/ (a.var = b.var /\ a.value < b.value)
    IN  InOrder(conds, {p \in Positions(conds) : less(conds[p[1]], conds[p[2]])})

\* The conditions of every transition of variable x by operator o.
TransitionConditions(o, x) ==
    LET open(conds) == OnlyAt(conds, {i \in DOMAIN conds : ~SelfFulfilled(o, <<conds[i].var, conds[i].value>>)})
        all == Typed(o.prevail.start, "s")
                  \o open(Typed(o.prevail.overall, "o"))
                  \o open(Typed(o.prevail.end, "e"))
                  \o EffectConditions(o.start.prePost, x, "start", "s")
                  \o open(EffectConditions(o.end.prePost, x, "end", "e"))
    IN  SortConditions(WithoutRepetition(all))

----------------------------------------------------------------------------
\* The values a change starts from.
OldValues(t, change) ==
    IF change.pre # AnyValue THEN {change.pre}
    ELSE (0..(t.variables[change.var].range - 1)) \ {change.post}

\* What operator number i adds to the graph of symbolic variable x, at value v.
SymbolicTransitions(t, x, v, i) ==
    LET o == t.operators[i]
        changes == Changes(t, o)
        mine == OnlyAt(changes, {k \in DOMAIN changes :
                    LET c == changes[k] IN c.var = x /\ c.pre # c.post /\ v \in OldValues(t, c)})
    IN  [k \in DOMAIN mine |->
            [target |-> mine[k].post, op |-> i, type |-> mine[k].type,
             duration |-> o.duration, conditions |-> TransitionConditions(o, x)]]

\* What the axioms add; they have no duration.
AxiomTransitions(t, x, v) ==
    LET mine == OnlyAt([i \in DOMAIN t.relational |-> i],
                    {i \in DOMAIN t.relational : t.relational[i].effect = x /\ t.relational[i].old = v})
    IN  [k \in DOMAIN mine |->
            [target |-> t.relational[mine[k]].new, op |-> mine[k], type |-> "a", duration |-> 0,
             conditions |-> Typed(t.relational[mine[k]].conditions, "a")]]

NumericalTransitions(t, x, i) ==
    LET o == t.operators[i]
        add(effects, type) ==
            LET mine == OnlyAt(effects, {k \in DOMAIN effects : effects[k].var = x})
            IN  [k \in DOMAIN mine |->
                    [op |-> i, type |-> type, fop |-> mine[k].fop, right |-> mine[k].operand,
                     duration |-> o.duration, conditions |-> TransitionConditions(o, x)]]
    IN  add(o.start.numerical, "s") \o add(o.end.numerical, "e")

\* The expression of a subterm or a comparison; <<>> if it was never set.
Relation(t, x, necessary) ==
    LET mine == OnlyAt(t.functional, {i \in DOMAIN t.functional : t.functional[i].effect = x})
    IN  IF mine = <<>> \/ (x \notin necessary /\ ~t.variables[x].duration) THEN <<>>
        ELSE LET a == Last(mine) IN <<[left |-> a.left, op |-> a.op, right |-> a.right]>>

----------------------------------------------------------------------------
\* finalize: transitions by target, duration and number of conditions.
Precedes(a, b) ==
    \/ a.target < b.target
    \/ a.target = b.target /\ a.duration < b.duration
    \/ a.target = b.target /\ a.duration = b.duration /\ Len(a.conditions) < Len(b.conditions)

\* std::sort as it is for short vectors, where it leaves equal ones in order.
SortTransitions(transitions) ==
    InOrder(transitions, {p \in Positions(transitions) : Precedes(transitions[p[1]], transitions[p[2]])})

SameTransition(a, b) ==
    a.target = b.target /\ a.op = b.op /\ a.conditions = b.conditions /\ a.type = b.type

Unique(transitions) ==
    OnlyAt(transitions, {i \in DOMAIN transitions :
        i = 1 \/ ~SameTransition(transitions[i - 1], transitions[i])})

CondSet(a) == {<<a.conditions[k].var, a.conditions[k].value>> : k \in DOMAIN a.conditions}

\* Mutant of Dominates: fewer conditions are enough.
DominatesByNumber(a, b) ==
    a.target = b.target /\ a.duration = b.duration /\ Len(a.conditions) <= Len(b.conditions)

\* A transition with the conditions of an earlier one, and more, for the same
\* duration is not needed.
Dominates(a, b) == a.target = b.target /\ a.duration = b.duration /\ CondSet(a) \subseteq CondSet(b)

FinalizeVertex(transitions) ==
    LET sorted == Unique(SortTransitions(transitions))
        kept == OnlyAt(sorted, {i \in DOMAIN sorted : \A j \in 1..(i - 1) : ~Dominates(sorted[j], sorted[i])})
    IN  [k \in DOMAIN kept |-> [kept[k] EXCEPT !.conditions = SortConditions(@)]]

\* The graph of variable x.
BuildDTG(t, x, necessary) ==
    LET kind == Kind(t.variables[x])
        byOperators(add(_)) == FlattenSeq([i \in DOMAIN t.operators |-> add(i)])
    IN  [kind |-> kind,
         vertices |->
            IF kind # "symbolic" THEN <<>>
            ELSE [v \in 1..t.variables[x].range |->
                    FinalizeVertex(byOperators(LAMBDA i : SymbolicTransitions(t, x, v - 1, i))
                                      \o AxiomTransitions(t, x, v - 1))],
         transitions |->
            IF kind # "functional" THEN <<>>
            ELSE byOperators(LAMBDA i : NumericalTransitions(t, x, i)),
         relation |-> IF kind # "subterm" THEN <<>> ELSE Relation(t, x, necessary)]

BuildDTGs(t, ordering, necessary) ==
    [k \in DOMAIN ordering |-> BuildDTG(t, ordering[k], necessary)]
=============================================================================
