---------------------------- MODULE SasOperators ----------------------------
(***************************************************************************)
(* How the translator turns grounded operators and rules over facts into   *)
(* operators and rules over variables (downward/translate/translate.py,    *)
(* simplify.py): every group of facts of which at most one holds is a      *)
(* variable; its value i is the i-th fact, the last value that none holds. *)
(*                                                                         *)
(* A literal is [atom, neg].  An operator has, for its start, the time it  *)
(* runs and its end (times 1 to 3), sets of literals as conditions, and    *)
(* for its start and its end (1 and 2) sequences of add and delete effects *)
(* [cond, atom] with conditions of the three times.  Numbers and modules   *)
(* are left out: their conditions and effects do not touch the groups.     *)
(***************************************************************************)
EXTENDS LogicProgram

LOCAL INSTANCE SequencesExt

Times == 1..3

\* The conditions that belong to the effects at time 1 (start) and 2 (end).
ConditionTime(time) == IF time = 1 THEN 1 ELSE 3

\* GroupCoverQueue: the largest group is taken and its facts from all others.
RECURSIVE Cover(_, _)
Cover(groups, chosen) ==
    IF \A i \in DOMAIN groups : Cardinality(groups[i]) <= 1 THEN chosen
    ELSE LET top == groups[CHOOSE i \in DOMAIN groups :
                        \A k \in DOMAIN groups : Cardinality(groups[k]) <= Cardinality(groups[i])]
         IN  Cover([i \in DOMAIN groups |-> groups[i] \ top], Append(chosen, top))

\* choose_groups_with_object_fluents_first: what is in no group is one of its own.
Covering(invariants, fluentGroups, facts) ==
    LET first == Cover(fluentGroups, <<>>)
        second == Cover([i \in DOMAIN invariants |-> invariants[i] \ UNION Range(first)], first)
    IN  second \o Listed({{f} : f \in facts \ UNION Range(second)})

\* compute_groups: object fluents are atoms that differ in the last argument only.
ComputeGroups(invariants, valued, facts) ==
    LET alike(a) == {b \in facts : b.pred = a.pred /\ Front(b.args) = Front(a.args)}
    IN  Covering([i \in DOMAIN invariants |-> invariants[i] \cap facts],
                 Listed({alike(a) : a \in {f \in facts : f.pred \in valued}}), facts)

\* The variables are sorted by how many values they have.
SortGroups(groups) ==
    SortSeq([v \in DOMAIN groups |-> Listed(groups[v])], LAMBDA g, h : Len(g) > Len(h))

\* strips_to_sas_dictionary: the variable and the value of an atom.
Atoms(groups) == UNION {Range(groups[v]) : v \in DOMAIN groups}
Places(groups) ==
    [a \in Atoms(groups) |->
        LET v == CHOOSE w \in DOMAIN groups : a \in Range(groups[w])
        IN  <<v, (CHOOSE i \in DOMAIN groups[v] : groups[v][i] = a) - 1>>]
Ranges(groups) == [v \in DOMAIN groups |-> Len(groups[v]) + 1]
NoneOfThose(ranges, v) == ranges[v] - 1

----------------------------------------------------------------------------
(* translate_strips_conditions                                             *)

\* The set of conditions (sets of pairs <<variable, value>>) one of which has to
\* hold: a negated fact leaves all other values of its variable.
TranslateConditions(literals, places, ranges, trueAtoms, falseAtoms) ==
    LET decided(l) == l.atom \in trueAtoms \cup falseAtoms
        impossible == \E l \in literals :
            IF l.neg THEN l.atom \in trueAtoms ELSE l.atom \notin trueAtoms /\ l.atom \in falseAtoms
        open == {l \in literals : ~decided(l) /\ l.atom \in DOMAIN places}
        mentioned == {places[l.atom][1] : l \in open}
        possible(v) == {x \in 0..(ranges[v] - 1) :
            \A l \in open : places[l.atom][1] = v => (places[l.atom][2] = x) = ~l.neg}
    IN  IF impossible THEN {}
        ELSE {{<<v, c[v]>> : v \in mentioned} :
              c \in {f \in [mentioned -> UNION {possible(v) : v \in mentioned}] :
                        \A v \in mentioned : f[v] \in possible(v)}}

\* The same for conditions of the three times, and their cartesian product.
TranslateTemporal(conditions, places, ranges, trueAtoms, falseAtoms) ==
    LET one(t) == TranslateConditions(conditions[t], places, ranges, trueAtoms, falseAtoms)
    IN  {<<a, b, c>> : a \in one(1), b \in one(2), c \in one(3)}

----------------------------------------------------------------------------
(* translate_add_effects, translate_del_effects: entries [var, post, cond] *)

\* mutex_conditions.
AreMutex(c, d) == \E t \in Times : \E p \in c[t], q \in d[t] : p[1] = q[1] /\ p[2] # q[2]

\* implies, for one condition of the list.
Implies(c, d, global) == \A t \in Times : d[t] \subseteq c[t] \cup global[t]

\* The values a set of pairs gives a variable.
ValuesOf(pairs, v) == {p[2] : p \in {q \in pairs : q[1] = v}}

\* All the effects, with each of the conditions that translate theirs.
Expand(effects, places, ranges, trueAtoms, falseAtoms) ==
    FlattenSeq([i \in DOMAIN effects |->
        LET conds == Listed(TranslateTemporal(effects[i].cond, places, ranges, trueAtoms, falseAtoms))
        IN  [k \in DOMAIN conds |->
                [var |-> places[effects[i].atom][1], post |-> places[effects[i].atom][2], cond |-> conds[k]]]])

\* possible_add_conflict.
AddConflict(entries) ==
    \E i, j \in DOMAIN entries :
        /\ entries[i].var = entries[j].var
        /\ entries[i].post # entries[j].post
        /\ ~AreMutex(entries[i].cond, entries[j].cond)

\* What adds another value whenever the fact is deleted.
AddsInstead(del, e, global) == Implies(del.cond, e.cond, global)

\* One delete effect del, with one of its conditions: entries after it.
AddDelete(entries, del, global, time, ranges) ==
    LET t == ConditionTime(time)
        none == NoneOfThose(ranges, del.var)
        others == {i \in DOMAIN entries : entries[i].var = del.var /\ entries[i].post # none}
        before == ValuesOf(global[t], del.var) \cup ValuesOf(del.cond[t], del.var)
        elsewhere == ValuesOf(global[t], del.var)
                       \cup (IF t = 3 THEN ValuesOf(global[2], del.var) \ {del.post} ELSE {})
        entry(c) == [var |-> del.var, post |-> none, cond |-> c]
    IN  IF (\E i \in others : AddsInstead(del, entries[i], global)) \/ none \in before
        THEN [entries |-> entries, aborted |-> FALSE]
        ELSE IF \E i \in others : ~AreMutex(del.cond, entries[i].cond)
        THEN [entries |-> entries, aborted |-> TRUE]
        ELSE IF del.post \in before
        THEN [entries |-> Append(entries, entry(del.cond)), aborted |-> FALSE]
        ELSE IF elsewhere # {} THEN [entries |-> entries, aborted |-> FALSE]
        ELSE [entries |-> Append(entries, entry([del.cond EXCEPT ![t] = @ \cup {<<del.var, del.post>>}])),
              aborted |-> FALSE]

RECURSIVE AddDeletes(_, _, _, _, _)
AddDeletes(done, dels, global, time, ranges) ==
    IF dels = <<>> \/ done.aborted THEN done
    ELSE AddDeletes(AddDelete(done.entries, Head(dels), global, time, ranges), Tail(dels), global, time, ranges)

\* The effects of an operator at a time, under one of its conditions.
EffectEntries(adds, dels, global, time, ranges) ==
    AddDeletes([entries |-> adds, aborted |-> AddConflict(adds)], dels, global, time, ranges)

----------------------------------------------------------------------------
(* translate_temporal_strips_operator                                      *)

Written(entries) == {entries[i].var : i \in DOMAIN entries}

\* The condition on the variable of an effect becomes its precondition; of
\* several effects on the variable the one with the least value has it.
Pre(entries, i, conds) ==
    LET same == {k \in DOMAIN entries : entries[k].var = entries[i].var}
        values == ValuesOf(conds, entries[i].var)
    IN  IF values # {} /\ \A k \in same : entries[i].post <= entries[k].post
        THEN CHOOSE x \in values : TRUE ELSE -1

\* An effect whose only condition is a start condition on its own variable loses
\* it, if the variable has two values.
IsSubstituted(entries, i, ranges) ==
    LET e == entries[i]
    IN  /\ \A k \in DOMAIN entries : entries[k].var = e.var /\ entries[k].post = e.post => k = i
        /\ e.cond[2] = {} /\ e.cond[3] = {}
        /\ \E x \in 0..1 : e.cond[1] = {<<e.var, x>>}
        /\ ranges[e.var] = 2

PrePosts(entries, conds, ranges) ==
    [i \in DOMAIN entries |->
        [var |-> entries[i].var, post |-> entries[i].post, pre |-> Pre(entries, i, conds),
         cond |-> IF IsSubstituted(entries, i, ranges) THEN <<{}, {}, {}>> ELSE entries[i].cond]]

Without(pairs, vars) == {p \in pairs : p[1] \notin vars}

\* The operator with the entries effects[1] at its start and effects[2] at its end.
Operator(effects, global, ranges) ==
    [prevail |-> <<Without(global[1], Written(effects[1].entries)), global[2],
                   Without(global[3], Written(effects[2].entries))>>,
     prePost |-> <<PrePosts(effects[1].entries, global[1], ranges),
                   PrePosts(effects[2].entries, global[3], ranges)>>]

\* translate_temporal_strips_operator_aux.  The conditions global are part of
\* the lists it is given, and the conditions on variables the operator writes
\* are deleted from them.
AddOperator(done, choice, effects, global, ranges) ==
    [done EXCEPT !.operators = Append(@, Operator(effects, global, ranges)),
                 !.aborted = @ \/ effects[1].aborted \/ effects[2].aborted,
                 !.lists[1][choice[1]] = Without(@, Written(effects[1].entries)),
                 !.lists[3][choice[3]] = Without(@, Written(effects[2].entries))]

AddUnder(done, choice, op, global, places, ranges, trueAtoms, falseAtoms) ==
    AddOperator(done, choice,
        [time \in 1..2 |->
            EffectEntries(Expand(op.add[time], places, ranges, trueAtoms, falseAtoms),
                          Expand(op.del[time], places, ranges, trueAtoms, falseAtoms), global, time, ranges)],
        global, ranges)

RECURSIVE TranslateEach(_, _, _, _, _, _, _)
TranslateEach(done, choices, op, places, ranges, trueAtoms, falseAtoms) ==
    IF choices = <<>> \/ done.aborted THEN done
    ELSE TranslateEach(AddUnder(done, Head(choices), op, [t \in Times |-> done.lists[t][Head(choices)[t]]],
                                places, ranges, trueAtoms, falseAtoms),
                       Tail(choices), op, places, ranges, trueAtoms, falseAtoms)

\* Choices of one condition per time, in the order of itertools.product.
Product(lists) ==
    FlattenSeq([i \in DOMAIN lists[1] |-> FlattenSeq([j \in DOMAIN lists[2] |->
        [k \in DOMAIN lists[3] |-> <<i, j, k>>]])])

\* One operator for each choice of conditions, in order.
TranslateLists(op, lists, places, ranges, trueAtoms, falseAtoms) ==
    TranslateEach([operators |-> <<>>, lists |-> lists, aborted |-> FALSE], Product(lists),
                  op, places, ranges, trueAtoms, falseAtoms)

TranslateOperator(op, places, ranges, trueAtoms, falseAtoms) ==
    TranslateLists(op, [t \in Times |->
        Listed(TranslateConditions(op.conditions[t], places, ranges, trueAtoms, falseAtoms))],
        places, ranges, trueAtoms, falseAtoms)

\* translate_strips_axiom: the rules for one rule over facts.
TranslateAxiom(axiom, places, ranges) ==
    LET v == places[axiom.effect.atom][1]
        new == IF axiom.effect.neg THEN NoneOfThose(ranges, v) ELSE places[axiom.effect.atom][2]
        conds == Listed(TranslateConditions(Range(axiom.condition), places, ranges, {}, {}))
    IN  [i \in DOMAIN conds |-> [effect |-> v, old |-> 1 - new, new |-> new, conditions |-> Listed(conds[i])]]

----------------------------------------------------------------------------
(* constrain_end_effect_conditions                                         *)

Unconditional(e) == e.cond = <<{}, {}, {}>>

\* pre_by_operator_and_var: {} stands for None.
StartCondition(o, v) ==
    LET at == {i \in DOMAIN o.prePost[1] : o.prePost[1][i].var = v}
    IN  IF at = {} THEN ValuesOf(o.prevail[1], v) ELSE {o.prePost[1][Max(at)].pre}

\* start_eff_by_operator_and_var.
StartEffect(o, v) ==
    LET at == {i \in DOMAIN o.prePost[1] : o.prePost[1][i].var = v /\ Unconditional(o.prePost[1][i])}
    IN  IF at = {} THEN {} ELSE {o.prePost[1][Max(at)].post}

Influences(o, v) == v \in Written(o.prePost[1]) \cup Written(o.prePost[2])

IsOpen(e) == e.pre = -1

\* Mutant: any variable an operator sets at its start.
AnyVariable(ops, v) == TRUE

\* No operator that writes the variable can be started while another one runs.
IsCandidate(ops, v) ==
    \A i, j \in {k \in DOMAIN ops : Influences(ops[k], v)} :
        /\ StartCondition(ops[j], v) # {}
        /\ StartEffect(ops[i], v) # {}
        /\ StartEffect(ops[i], v) # StartCondition(ops[j], v)

\* Only end effects that need no value yet are changed.
Constrained(e, starts, ops) ==
    IF IsOpen(e) /\ starts # {} /\ IsCandidate(ops, e.var)
    THEN [e EXCEPT !.pre = CHOOSE x \in starts : TRUE] ELSE e

ConstrainEnds(ops) ==
    [i \in DOMAIN ops |->
        [ops[i] EXCEPT !.prePost[2] = [k \in DOMAIN @ |-> Constrained(@[k], StartEffect(ops[i], @[k].var), ops)]]]
=============================================================================
