-------------------------- MODULE AxiomEvaluation --------------------------
(***************************************************************************)
(* How the search completes the values of a state (downward/search/        *)
(* axioms.cpp, AxiomEvaluator): terms layer by layer, then comparisons,    *)
(* then the rules of derived variables by propagation of literals, with    *)
(* negation by failure at the end of each layer.                           *)
(***************************************************************************)
EXTENDS SearchGraphs

LOCAL INSTANCE SequencesExt

LayerOf(file, v) == file.variables[v].layer
LayersOfType(file, types, kinds) ==
    {LayerOf(file, v) : v \in {w \in DOMAIN types : types[w] \in kinds}} \ {-1}

LastArithmeticLayer(file, types) ==
    Max({-1} \cup LayersOfType(file, types, {"primitive", "subterm", "module", "costmodule"}))
ComparisonLayer(file, types) == Max({-1} \cup LayersOfType(file, types, {"comparison"}))
LogicLayers(file, types) ==
    LET layers == LayersOfType(file, types, {"logical"})
    IN  IF layers = {} THEN <<>> ELSE [i \in 1..(Max(layers) - Min(layers) + 1) |-> Min(layers) + i - 1]

\* axioms_by_layer, for axioms that set variable effect(axiom).
InLayer(file, axioms, layer) == SelectSeq(axioms, LAMBDA a : LayerOf(file, a.effect) = layer)

Result(op, left, right) ==
    CASE op = 0 -> left + right
      [] op = 1 -> left - right
      [] op = 2 -> left * right
      [] op = 3 -> left \div right

Truth(op, left, right) ==
    LET holds == CASE op = 4 -> left < right
                   [] op = 5 -> left <= right
                   [] op = 6 -> left = right
                   [] op = 7 -> left >= right
                   [] op = 8 -> left > right
                   [] op = 9 -> left # right
    IN  IF holds THEN 0 ELSE 1

\* evaluate_arithmetic_axioms.
EvaluateArithmetic(file, types, value) ==
    LET axioms == FlattenSeq([layer \in 1..(LastArithmeticLayer(file, types) + 1) |->
                                 InLayer(file, file.functional, layer - 1)])
        after[i \in 0..Len(axioms)] ==
            IF i = 0 THEN value
            ELSE LET before == after[i - 1]
                     a == axioms[i]
                 IN  [before EXCEPT ![a.effect] = Result(a.op, before[a.left], before[a.right])]
    IN  after[Len(axioms)]

\* evaluate_comparison_axioms.
EvaluateComparisons(file, types, value) ==
    LET axioms == InLayer(file, file.functional, ComparisonLayer(file, types))
        of(v) == {i \in DOMAIN axioms : axioms[i].effect = v}
    IN  IF ComparisonLayer(file, types) = -1 THEN value
        ELSE [v \in DOMAIN value |->
                IF of(v) = {} THEN value[v]
                ELSE LET a == axioms[Max(of(v))] IN Truth(a.op, value[a.left], value[a.right])]

----------------------------------------------------------------------------
(* evaluate_logic_axioms.  Its data s: values, the literals in the queue,  *)
(* and unsatisfied_conditions of the rules.                                *)

Rules(file, types) ==
    LET layers == LogicLayers(file, types)
    IN  FlattenSeq([i \in DOMAIN layers |-> InLayer(file, file.relational, layers[i])])

\* Mutant: what was deduced in the state before is kept.
IsDerivedAnew(file, types, v) == FALSE

\* The values a variable of a rule has before its rules are applied are those
\* the task starts with (g_default_axiom_values).
IsDerived(file, types, v) ==
    /\ LayerOf(file, v) > LastArithmeticLayer(file, types)
    /\ LayerOf(file, v) > ComparisonLayer(file, types)

IsLiteral(file, types, v) ==
    \/ LayerOf(file, v) = -1 /\ types[v] \in {"comparison", "logical"}
    \/ LayerOf(file, v) > LastArithmeticLayer(file, types) /\ LayerOf(file, v) = ComparisonLayer(file, types)

\* The head of a rule becomes true, unless it is.
Deduce(s, rule) ==
    IF s.value[rule.effect] = rule.new THEN s
    ELSE [s EXCEPT !.value[rule.effect] = rule.new, !.queue = Append(@, <<rule.effect, rule.new>>)]

RECURSIVE DeduceAll(_, _)
DeduceAll(s, rules) == IF rules = <<>> THEN s ELSE DeduceAll(Deduce(s, Head(rules)), Tail(rules))

Start(file, types, rules, value) ==
    LET variables == [v \in DOMAIN types |-> v]
        literals == SelectSeq(variables, LAMBDA v : IsLiteral(file, types, v))
        start == [value |-> [v \in DOMAIN value |->
                                IF IsDerived(file, types, v) THEN file.state[v] ELSE value[v]],
                  queue |-> [i \in DOMAIN literals |-> <<literals[i], value[literals[i]]>>],
                  unsatisfied |-> [r \in DOMAIN rules |-> Len(rules[r].conditions)]]
    IN  DeduceAll(start, SelectSeq(rules, LAMBDA r : r.conditions = <<>>))

\* The rules literal l is a condition of, from the r-th on, as often as it is one.
RECURSIVE Propagate(_, _, _, _)
Propagate(s, rules, l, r) ==
    IF r > Len(rules) THEN s
    ELSE LET times == Len(SelectSeq(rules[r].conditions, LAMBDA c : c = l))
             left == s.unsatisfied[r] - times
             counted == [s EXCEPT !.unsatisfied[r] = left]
         IN  Propagate(IF times > 0 /\ left = 0 THEN Deduce(counted, rules[r]) ELSE counted, rules, l, r + 1)

RECURSIVE Horn(_, _)
Horn(s, rules) ==
    IF s.queue = <<>> THEN s
    ELSE Horn(Propagate([s EXCEPT !.queue = Tail(@)], rules, Head(s.queue), 1), rules)

\* What has not been deduced in this layer is false from now on.
NegationByFailure(file, types, s, layer) ==
    LET failed == SelectSeq([v \in DOMAIN types |-> v],
                            LAMBDA v : LayerOf(file, v) = layer /\ s.value[v] = file.state[v])
    IN  [s EXCEPT !.queue = @ \o [i \in DOMAIN failed |-> <<failed[i], file.state[failed[i]]>>]]

EvaluateLogic(file, types, value) ==
    LET rules == Rules(file, types)
        layers == LogicLayers(file, types)
        after[i \in 0..Len(layers)] ==
            IF i = 0 THEN Start(file, types, rules, value)
            ELSE LET before == after[i - 1]
                 IN  NegationByFailure(file, types, Horn(before, rules), layers[i])
    IN  after[Len(layers)].value

\* evaluate.
EvaluateAxioms(file, types, value) ==
    EvaluateLogic(file, types, EvaluateComparisons(file, types, EvaluateArithmetic(file, types, value)))
=============================================================================
