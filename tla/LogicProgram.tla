---------------------------- MODULE LogicProgram ----------------------------
(***************************************************************************)
(* The logic program the translator explores a task with (downward/        *)
(* translate/pddl_to_prolog.py, split_rules.py, greedy_join.py, graph.py): *)
(* its rules are normalized and then split until every rule projects one   *)
(* condition, joins two, or is a product of conditions without common      *)
(* variables.                                                              *)
(*                                                                         *)
(* A term is a variable <<"?", x>>, a variable <<"?", x, i>> that stands   *)
(* for a duplicate of x, an object <<"o", c>> or, once a rule is compiled, *)
(* a position <<"#", i>> of its effect.  Where the code lists a set of     *)
(* Python the order is Listed's: the translation does not rely on it.      *)
(***************************************************************************)
EXTENDS Integers, FiniteSets, Sequences, TLC

LOCAL INSTANCE SequencesExt

\* The elements of a set of Python in the order it lists them.
RECURSIVE Listed(_)
Listed(S) == IF S = {} THEN <<>> ELSE LET x == CHOOSE y \in S : TRUE IN <<x>> \o Listed(S \ {x})

IsVariable(t) == t[1] = "?"
IsPosition(t) == t[1] = "#"
Args(atom) == Range(atom.args)
Variables(atom) == {t \in Args(atom) : IsVariable(t)}
VariablesOf(atoms) == UNION {Variables(atoms[i]) : i \in DOMAIN atoms}

\* new_name: the predicates the translator introduces.
NewPredicate(k) == "p$" \o ToString(k)

Bare(conditions, effect) == [conditions |-> conditions, effect |-> effect]
Typed(type, conditions, effect) == [type |-> type, conditions |-> conditions, effect |-> effect]

----------------------------------------------------------------------------
(* normalize                                                               *)

\* remove_free_effect_variables, for one rule and for the facts.
FreeVariables(rule) == Variables(rule.effect) \ VariablesOf(rule.conditions)
BindFreeVariables(rule) ==
    [rule EXCEPT !.conditions = @ \o [i \in 1..Cardinality(FreeVariables(rule)) |->
        [pred |-> "@object", args |-> <<Listed(FreeVariables(rule))[i]>>]]]

ObjectsOf(facts) == UNION {Args(facts[i]) : i \in DOMAIN facts}
ObjectFacts(rules, facts) ==
    IF \A r \in DOMAIN rules : FreeVariables(rules[r]) = {} THEN facts
    ELSE facts \o Listed({[pred |-> "@object", args |-> <<o>>] : o \in ObjectsOf(facts)})

\* _rename_duplicate_variables: the j-th argument repeats a variable.
IsDuplicate(atom, j) ==
    /\ IsVariable(atom.args[j])
    /\ \E i \in 1..(j - 1) : atom.args[i] = atom.args[j]

\* The duplicates <<i, j>> of a list of atoms, in the order they are met.
Duplicates(atoms) ==
    LET places(i) == SelectSeq([j \in DOMAIN atoms[i].args |-> <<i, j>>],
                               LAMBDA p : IsDuplicate(atoms[i], p[2]))
    IN  FlattenSeq([i \in DOMAIN atoms |-> places(i)])

\* rename_duplicate_variables: the k-th duplicate becomes a variable of its own
\* and a condition says that it equals the first occurrence.
RenameDuplicates(rule) ==
    LET atoms == <<rule.effect>> \o rule.conditions
        duplicates == Duplicates(atoms)
        original(k) == atoms[duplicates[k][1]].args[duplicates[k][2]]
        fresh(k) == Append(original(k), k)
        number(i, j) == CHOOSE k \in DOMAIN duplicates : duplicates[k] = <<i, j>>
        renamed == [i \in DOMAIN atoms |->
            [atoms[i] EXCEPT !.args = [j \in DOMAIN @ |->
                IF <<i, j>> \in Range(duplicates) THEN fresh(number(i, j)) ELSE @[j]]]]
    IN  Bare(Tail(renamed) \o [k \in DOMAIN duplicates |->
                                  [pred |-> "=", args |-> <<original(k), fresh(k)>>]],
             Head(renamed))

\* normalize: rules without a condition are facts in the end.
Normalized(program) ==
    LET bound == [r \in DOMAIN program.rules |-> RenameDuplicates(BindFreeVariables(program.rules[r]))]
        trivial == SelectSeq(bound, LAMBDA rule : rule.conditions = <<>>)
    IN  [facts |-> ObjectFacts(program.rules, program.facts)
                       \o [i \in DOMAIN trivial |-> trivial[i].effect],
         rules |-> SelectSeq(bound, LAMBDA rule : rule.conditions # <<>>)]

----------------------------------------------------------------------------
(* greedy_join                                                             *)

LexLess(a, b) ==
    \E i \in DOMAIN a : a[i] < b[i] /\ \A j \in 1..(i - 1) : a[j] = b[j]

\* compute_join_cost.
JoinCost(left, right) ==
    LET l == Cardinality(Variables(left))
        r == Cardinality(Variables(right))
        c == Cardinality(Variables(left) \cap Variables(right))
    IN  IF l <= r THEN <<l - c, r - c, -c>> ELSE <<r - c, l - c, -c>>

\* find_min_pair: the first cheapest pair <<left, right>> in the matrix.
MinPair(joinees) ==
    LET pairs == {p \in (DOMAIN joinees) \X (DOMAIN joinees) : p[1] > p[2]}
        Cost(p) == JoinCost(joinees[p[1]], joinees[p[2]])
        cheapest == {p \in pairs : \A q \in pairs : ~LexLess(Cost(q), Cost(p))}
    IN  CHOOSE p \in cheapest : \A q \in cheapest : ~LexLess(q, p)

\* The arguments of a joinee the join depends on.
Retained(joinee, needed, common) == Args(joinee) \cap (needed \cup common)

\* The two rules' conditions are joined into joint; the joinees in projected
\* are projected first, and numbered before it.
AddRules(j, others, both, kept, projected, needed) ==
    LET predicate(i) == NewPredicate(j.next + (IF i = 2 /\ Len(projected) = 2 THEN 1 ELSE 0))
        joinees == [i \in 1..2 |-> IF i \in Range(projected)
                                   THEN [pred |-> predicate(i), args |-> Listed(kept[i])] ELSE both[i]]
        joint == [pred |-> NewPredicate(j.next + Len(projected)), args |-> Listed(needed)]
    IN  [joinees |-> Append(others, joint),
         rules |-> j.rules \o [k \in DOMAIN projected |->
                                 Typed("project", <<both[projected[k]]>>, joinees[projected[k]])]
                           \o <<Typed("join", joinees, joint)>>,
         next |-> j.next + Len(projected) + 1]

AddJoin(j, others, both, kept, needed) ==
    AddRules(j, others, both, kept, SelectSeq(<<1, 2>>, LAMBDA i : kept[i] # Args(both[i])), needed)

KeepArguments(j, others, both, needed) ==
    AddJoin(j, others, both,
            [i \in 1..2 |-> Retained(both[i], needed, Args(both[1]) \cap Args(both[2]))], needed)

JoinPair(j, effect, pair) ==
    LET others == [i \in 1..(Len(j.joinees) - 2) |->
                      j.joinees[i + (IF i >= pair[2] THEN 1 ELSE 0) + (IF i + 1 >= pair[1] THEN 1 ELSE 0)]]
        both == [i \in 1..2 |-> j.joinees[pair[i]]]
    IN  KeepArguments(j, others, both,
                      (Variables(effect) \cup VariablesOf(others)) \cap (Args(both[1]) \cup Args(both[2])))

\* One iteration of greedy_join.  Its state j: the conditions that are left,
\* the rules so far, and the number of the next predicate.
JoinOnce(j, effect) == JoinPair(j, effect, MinPair(j.joinees))

RECURSIVE JoinAll(_, _)
JoinAll(j, effect) == IF Len(j.joinees) < 2 THEN j ELSE JoinAll(JoinOnce(j, effect), effect)

\* get_result.
Finished(j, effect) == [rules |-> [j.rules EXCEPT ![Len(j.rules)].effect = effect], next |-> j.next]

\* split_into_binary_rules.
SplitIntoBinary(rule, next) ==
    IF Len(rule.conditions) <= 1
    THEN [rules |-> <<Typed("project", rule.conditions, rule.effect)>>, next |-> next]
    ELSE Finished(JoinAll([joinees |-> rule.conditions, rules |-> <<>>, next |-> next], rule.effect), rule.effect)

----------------------------------------------------------------------------
(* split_rule                                                              *)

RECURSIVE Connected(_, _)
Connected(component, conditions) ==
    LET reached == {c \in conditions : \E d \in component : Variables(c) \cap Variables(d) # {}}
    IN  IF reached \subseteq component THEN component ELSE Connected(component \cup reached, conditions)

\* get_connected_conditions.
Components(conditions) == Listed({Connected({c}, Range(conditions)) : c \in Range(conditions)})

\* project_rule.
ProjectRule(rule, conditions, next) ==
    Bare(conditions, [pred |-> NewPredicate(next), args |-> Listed(Args(rule.effect) \cap VariablesOf(conditions))])

AndThen(done, split) == [rules |-> done.rules \o split.rules, next |-> split.next]

\* The rules of the projections, each numbered after those before it.
RECURSIVE SplitEach(_, _)
SplitEach(projections, done) ==
    IF projections = <<>> THEN done
    ELSE SplitEach(Tail(projections), AndThen(done, SplitIntoBinary(Head(projections), done.next)))

Combine(split, conditions, effect) ==
    [split EXCEPT !.rules = Append(@, Typed(IF Len(conditions) >= 2 THEN "product" ELSE "project", conditions, effect))]

SplitProjections(rule, trivial, projections, next) ==
    Combine(SplitEach(projections, [rules |-> <<>>, next |-> next]),
            [i \in DOMAIN projections |-> projections[i].effect] \o trivial, rule.effect)

SplitComponents(rule, trivial, components, next) ==
    IF Len(components) = 1 /\ trivial = <<>> THEN SplitIntoBinary(rule, next)
    ELSE SplitProjections(rule, trivial,
            [i \in DOMAIN components |-> ProjectRule(rule, Listed(components[i]), next + i - 1)],
            next + Len(components))

\* split_rule: conditions without variables are trivial.
SplitRule(rule, next) ==
    SplitComponents(rule, SelectSeq(rule.conditions, LAMBDA c : Variables(c) = {}),
                    Components(SelectSeq(rule.conditions, LAMBDA c : Variables(c) # {})), next)
=============================================================================
