-------------------------- MODULE PreprocessOutput --------------------------
(***************************************************************************)
(* The decision tree over the conditions at start of the operators: how    *)
(* preprocess builds it (downward/preprocess/successor_generator.cpp) and  *)
(* how the search looks operators up in it                                 *)
(* (downward/search/successor_generator.cpp); and what preprocess writes   *)
(* for the search (generate_cpp_input and what it calls,                   *)
(* downward/preprocess/).  Variables are written as their levels, those    *)
(* that were pruned as level 0; operators of comparisons and of effects    *)
(* are the numbers of the search's binary_op and assignment_op.            *)
(***************************************************************************)
EXTENDS CausalGraph, DomainTransitionGraphs

----------------------------------------------------------------------------
(* The decision tree                                                       *)

\* Conditions in the order of their variables, and values.
Sorted(conds) ==
    LET less(a, b) == a[1] < b[1] \/ (a[1] = b[1] /\ a[2] < b[2])
    IN  InOrder(conds, {p \in Positions(conds) : less(conds[p[1]], conds[p[2]])})

\* Mutant of StartConditions: the old values of effects at start are forgotten.
StartConditionsPrevail(o) == Sorted(o.prevail.start)

\* The conditions an operator is looked up by.
StartConditions(o) ==
    LET effects == o.start.prePost
        prePosts == OnlyAt(effects, {i \in DOMAIN effects : effects[i].pre # AnyValue})
    IN  Sorted(o.prevail.start \o [i \in DOMAIN prePosts |-> <<prePosts[i].var, prePosts[i].pre>>])

GeneratorLeaf(ops) == [switch |-> 0, ops |-> ops, forValue |-> <<>>, default |-> <<>>]

\* Decision trees: leaves, and switches whose branches are such trees.
Leaves == [switch : {0}, ops : Seq(Nat), forValue : {<<>>}, default : {<<>>}]
Switches(trees) ==
    LET branches == Seq(trees)
    IN  [switch : Nat \ {0}, ops : Seq(Nat), forValue : branches, default : branches]

\* The decision trees that switch at most d times on a way down, for each d.
Generators(depth) ==
    LET trees[d \in 0..depth] == IF d = 0 THEN Leaves ELSE Leaves \cup Switches(trees[d - 1])
    IN  trees

\* construct_recursive at variable x: ops are the operators, and next gives for
\* each one its first condition that was not yet looked at; below continues with
\* the variables after x.  A functional variable cannot be switched on: an
\* operator whose next condition is on one stays in the default branches from
\* there on.
GeneratorSwitch(variables, conditions, x, ops, next, below) ==
    LET done(o) == next[o] > Len(conditions[o])
        on(o) == ~done(o) /\ conditions[o][next[o]][1] = x
        immediate == OnlyAt(ops, {i \in DOMAIN ops : done(ops[i])})
        other == OnlyAt(ops, {i \in DOMAIN ops : ~done(ops[i]) /\ ~on(ops[i])})
        forValue(v) == OnlyAt(ops, {i \in DOMAIN ops : on(ops[i]) /\ conditions[ops[i]][next[ops[i]]][2] = v})
        passed == [o \in DOMAIN next |-> IF on(o) THEN next[o] + 1 ELSE next[o]]
    IN  IF variables[x].functional \/ variables[x].module \/ other = ops THEN below[<<ops, next>>]
        ELSE IF immediate = ops THEN GeneratorLeaf(ops)
        ELSE [switch |-> x, ops |-> immediate,
              forValue |-> [i \in 1..variables[x].range |-> below[<<forValue(i - 1), passed>>]],
              default |-> <<below[<<other, passed>>]>>]

\* construct_recursive: the last n variables are left of order.
ConstructRecursive(variables, conditions, order) ==
    LET construct[n \in 0..Len(order)] ==
            [p \in Seq(DOMAIN conditions) \X [DOMAIN conditions -> Nat \ {0}] |->
                IF p[1] = <<>> \/ n = 0 THEN GeneratorLeaf(p[1])
                ELSE GeneratorSwitch(variables, conditions, order[Len(order) - n + 1],
                                     p[1], p[2], construct[n - 1])]
    IN  construct[Len(order)]

BuildGenerator(t, ordering) ==
    ConstructRecursive(t.variables, [o \in DOMAIN t.operators |-> StartConditions(t.operators[o])], ordering)
        [<<[o \in 1..Len(t.operators) |-> o], [o \in DOMAIN t.operators |-> 1]>>]

\* generate_applicable_ops in a state with these values.
GenerateApplicableOps(g, value) ==
    LET trees == Generators(Len(value))
        found[d \in 0..Len(value)] == [h \in trees[d] |->
            IF h.switch = 0 THEN h.ops
            ELSE h.ops \o found[d - 1][h.forValue[value[h.switch] + 1]] \o found[d - 1][h.default[1]]]
    IN  found[Len(value)][g]

----------------------------------------------------------------------------
(* The output                                                              *)

WriteConds(conds, level) == [i \in DOMAIN conds |-> <<level[conds[i][1]], conds[i][2]>>]
WriteWhen(when, level) ==
    [start |-> WriteConds(when.start, level), overall |-> WriteConds(when.overall, level),
     end |-> WriteConds(when.end, level)]
WritePrePosts(effects, level) ==
    [i \in DOMAIN effects |->
        [when |-> WriteWhen(effects[i].when, level), var |-> level[effects[i].var],
         pre |-> effects[i].pre, post |-> effects[i].post]]
WriteNumEffects(effects, level) ==
    [i \in DOMAIN effects |->
        [when |-> WriteWhen(effects[i].when, level), var |-> level[effects[i].var],
         fop |-> effects[i].fop, operand |-> level[effects[i].operand]]]
WriteEffects(effects, level) ==
    [prePost |-> WritePrePosts(effects.prePost, level),
     numerical |-> WriteNumEffects(effects.numerical, level),
     module |-> [i \in DOMAIN effects.module |-> [when |-> WriteWhen(effects.module[i].when, level)]]]

WriteOperator(o, level) ==
    [groundings |-> o.groundings, durationOp |-> o.durationOp, duration |-> level[o.duration],
     prevailStart |-> WriteConds(o.prevail.start, level),
     prevailOverall |-> WriteConds(o.prevail.overall, level),
     prevailEnd |-> WriteConds(o.prevail.end, level),
     start |-> WriteEffects(o.start, level), end |-> WriteEffects(o.end, level)]

WriteRelational(a, level) ==
    [conditions |-> WriteConds(a.conditions, level), effect |-> level[a.effect], old |-> a.old, new |-> a.new]
WriteFunctional(a, level) ==
    [effect |-> level[a.effect], op |-> a.op, left |-> level[a.left], right |-> level[a.right]]

\* A goal on a variable replaces an earlier one on it; the number that is
\* written is still that of all goals.
WriteGoal(t, ordering, level) ==
    LET on(k) == OnlyAt(t.goal, {i \in DOMAIN t.goal : level[t.goal[i][1]] = k})
        kept == OnlyAt([k \in DOMAIN ordering |-> k], {k \in DOMAIN ordering : on(k) # <<>>})
    IN  [count |-> Len(t.goal), goals |-> [i \in DOMAIN kept |-> <<kept[i], Last(on(kept[i]))[2]>>]]

WriteGenerator(g, level) ==
    LET trees == Generators(Len(level))
        written[d \in 0..Len(level)] == [h \in trees[d] |->
            IF h.switch = 0 THEN h
            ELSE [switch |-> level[h.switch], ops |-> h.ops,
                  forValue |-> [i \in DOMAIN h.forValue |-> written[d - 1][h.forValue[i]]],
                  default |-> <<written[d - 1][h.default[1]]>>]]
    IN  written[Len(level)][g]

\* The important successors of each variable.
WriteCausalGraph(weights, ordering) ==
    [k \in DOMAIN ordering |->
        OnlyAt([l \in DOMAIN ordering |-> l],
               {l \in DOMAIN ordering : weights[ordering[k]][ordering[l]] > 0})]

\* lt = 4, le = 5, eq = 6, ge = 7, gt = 8, ue = 9.
InverseOp == (4 :> 7) @@ (5 :> 8) @@ (6 :> 9) @@ (7 :> 4) @@ (8 :> 5) @@ (9 :> 6)

\* Symbolic transitions come without their conditions on variables that were pruned.
WriteTransition(a, level) ==
    LET kept == OnlyAt(a.conditions, {k \in DOMAIN a.conditions : level[a.conditions[k].var] # 0})
    IN  [target |-> a.target, op |-> a.op, type |-> a.type,
         duration |-> IF a.type = "a" THEN 0 ELSE level[a.duration],
         conditions |-> [k \in DOMAIN kept |-> [kept[k] EXCEPT !.var = level[@]]]]
WriteNumTransition(a, level) ==
    [a EXCEPT !.right = level[@], !.duration = level[@],
              !.conditions = [k \in DOMAIN @ |-> [@[k] EXCEPT !.var = level[@]]]]

\* A comparison is written for both its values, its inverse first.
WriteRelation(t, x, relation, level) ==
    LET written(op) == [left |-> level[relation[1].left], op |-> op, right |-> level[relation[1].right]]
    IN  IF relation = <<>> THEN <<>>
        ELSE IF t.variables[x].comparison
             THEN <<written(InverseOp[relation[1].op]), written(relation[1].op)>>
             ELSE <<written(relation[1].op)>>

WriteDTG(t, x, g, level) ==
    [kind |-> g.kind,
     vertices |-> [v \in DOMAIN g.vertices |->
                      [j \in DOMAIN g.vertices[v] |-> WriteTransition(g.vertices[v][j], level)]],
     transitions |-> [j \in DOMAIN g.transitions |-> WriteNumTransition(g.transitions[j], level)],
     relation |-> WriteRelation(t, x, g.relation, level)]

\* generate_cpp_input.
Output(t, ordering, weights, graphs, generator) ==
    LET level == Levels(t, ordering)
    IN  [variables |-> [k \in DOMAIN ordering |->
                          [range |-> t.variables[ordering[k]].range,
                           layer |-> t.variables[ordering[k]].layer]],
         state |-> [k \in DOMAIN ordering |-> t.initial[ordering[k]]],
         goal |-> WriteGoal(t, ordering, level),
         operators |-> [i \in DOMAIN t.operators |-> WriteOperator(t.operators[i], level)],
         relational |-> [i \in DOMAIN t.relational |-> WriteRelational(t.relational[i], level)],
         functional |-> [i \in DOMAIN t.functional |-> WriteFunctional(t.functional[i], level)],
         generator |-> WriteGenerator(generator, level),
         causalGraph |-> WriteCausalGraph(weights, ordering),
         graphs |-> [k \in DOMAIN graphs |-> WriteDTG(t, ordering[k], graphs[k], level)]]
=============================================================================
