---------------------------- MODULE SearchGraphs ----------------------------
(***************************************************************************)
(* The task and the domain transition graphs as the search reads them from *)
(* the file of preprocess (downward/search/globals.cpp, operator.cpp,      *)
(* axioms.cpp, causal_graph.cpp, domain_transition_graph.cpp).  Every      *)
(* graph has a context: the variables its labels speak of, which get local *)
(* numbers in the order in which they are met.  The numbers of comparisons *)
(* and assignments are those of binary_op and assignment_op; 0 is no       *)
(* variable and no operator.                                               *)
(***************************************************************************)
EXTENDS Integers, Sequences, FiniteSets

LOCAL INSTANCE SequencesExt

IsComparison(op) == op \in 4..9

\* The type the range of a variable stands for.
ReadType(range) ==
    CASE range = -3 -> "costmodule"
      [] range = -2 -> "module"
      [] range = -1 -> "primitive"
      [] OTHER -> "logical"

\* The types of the variables, after the numeric axioms have been read.
VariableTypes(file) ==
    LET axiom(v) == {i \in DOMAIN file.functional : file.functional[i].effect = v}
    IN  [v \in DOMAIN file.variables |->
            IF axiom(v) = {} THEN ReadType(file.variables[v].range)
            ELSE IF IsComparison(file.functional[Max(axiom(v))].op) THEN "comparison" ELSE "subterm"]

\* sort_prevails: conditions on modules are swapped to the end.
RECURSIVE SwapModules(_, _, _, _)
SwapModules(types, conds, i, last) ==
    IF i > last THEN conds
    ELSE IF types[conds[i][1]] = "module"
    THEN SwapModules(types, [conds EXCEPT ![i] = conds[last], ![last] = conds[i]], i, last - 1)
    ELSE SwapModules(types, conds, i + 1, last)

SortPrevails(types, conds) == SwapModules(types, conds, 1, Len(conds))

\* Symbolic effects, and those on numbers, in one list.
ReadPrePosts(effects) ==
    LET symbolic(e) == [var |-> e.var, pre |-> e.pre, post |-> e.post, fop |-> 0, operand |-> 0,
                        start |-> e.when.start, overall |-> e.when.overall, end |-> e.when.end]
        functional(e) == [var |-> e.var, pre |-> -1, post |-> -1, fop |-> e.fop, operand |-> e.operand,
                          start |-> e.when.start, overall |-> e.when.overall, end |-> e.when.end]
    IN  [i \in DOMAIN effects.prePost |-> symbolic(effects.prePost[i])]
        \o [i \in DOMAIN effects.numerical |-> functional(effects.numerical[i])]

SearchOperator(types, o) ==
    [duration |-> o.duration, groundings |-> o.groundings,
     prevailStart |-> SortPrevails(types, o.prevailStart),
     prevailOverall |-> SortPrevails(types, o.prevailOverall),
     prevailEnd |-> SortPrevails(types, o.prevailEnd),
     prePostStart |-> ReadPrePosts(o.start), prePostEnd |-> ReadPrePosts(o.end)]

\* The neighbours in the causal graph.
CausalEdges(arcs) ==
    [v \in DOMAIN arcs |-> {w \in DOMAIN arcs : Contains(arcs[v], w) \/ Contains(arcs[w], v)}]

\* get_comp_vars_for_func_var: the comparisons a number has an influence on.
RECURSIVE ComparisonsOf(_, _, _)
ComparisonsOf(types, arcs, v) ==
    FlattenSeq([i \in DOMAIN arcs[v] |->
        LET w == arcs[v][i]
        IN  IF types[w] = "comparison" THEN <<w>>
            ELSE IF types[w] = "subterm" THEN ComparisonsOf(types, arcs, w) ELSE <<>>])

\* get_functional_vars_in_unrolled_term.
RECURSIVE FunctionalVars(_, _, _)
FunctionalVars(types, arcs, top) ==
    LET before == {v \in CausalEdges(arcs)[top] : Contains(arcs[v], top)}
    IN  {top} \cup {v \in before : types[v] = "primitive"}
              \cup UNION {FunctionalVars(types, arcs, v) : v \in {w \in before : types[w] = "subterm"}}

----------------------------------------------------------------------------
\* Does an effect of the second list undo a condition of the first?
DeletesPrecond(conds, effects) ==
    \E i \in DOMAIN conds, j \in DOMAIN effects :
        conds[i][1] = effects[j].var /\ conds[i][2] # effects[j].post

\* The old values of effects are conditions too; an effect without one counts
\* as undone by any other effect on its variable.
OldValueConds(effects) == [i \in DOMAIN effects |-> <<effects[i].var, effects[i].pre>>]

IsDisabledBy(o, other) ==
    \E effects \in {other.prePostStart, other.prePostEnd} :
        \E conds \in {o.prevailStart, o.prevailOverall, o.prevailEnd,
                      OldValueConds(o.prePostStart), OldValueConds(o.prePostEnd)} :
            DeletesPrecond(conds, effects)

AchievesPrecond(effects, conds) ==
    \E i \in DOMAIN effects, j \in DOMAIN conds :
        effects[i].var = conds[j][1] /\ effects[i].post = conds[j][2]

Enables(o, other) ==
    \E effects \in {o.prePostStart, o.prePostEnd} :
        \E conds \in {other.prevailStart, other.prevailOverall, other.prevailEnd,
                      OldValueConds(other.prePostStart), OldValueConds(other.prePostEnd)} :
            AchievesPrecond(effects, conds)

----------------------------------------------------------------------------
(* Domain transition graphs                                                *)

\* translate_global_to_local, for one variable after the other.
RECURSIVE Translate(_, _)
Translate(parents, vars) ==
    IF vars = <<>> THEN parents
    ELSE Translate(IF Contains(parents, Head(vars)) THEN parents ELSE Append(parents, Head(vars)), Tail(vars))

\* The local number of a variable; 0 if it has none.
Local(parents, v) == IF Contains(parents, v) THEN CHOOSE i \in DOMAIN parents : parents[i] = v ELSE 0

Assignments(parents, conds) ==
    [i \in DOMAIN conds |-> [local |-> Local(parents, conds[i].var), var |-> conds[i].var,
                             value |-> conds[i].value, fop |-> 0, operand |-> 0]]

\* compress_effects: an effect at end gives its outcome to the first one on its variable.
RECURSIVE CompressEffects(_, _)
CompressEffects(effects, atEnd) ==
    IF atEnd = <<>> THEN effects
    ELSE LET e == Head(atEnd)
             same == {i \in DOMAIN effects : effects[i].var = e.var}
             first == CHOOSE i \in same : \A j \in same : i <= j
         IN  CompressEffects(IF same = {} THEN Append(effects, e)
                             ELSE [effects EXCEPT ![first].post = e.post, ![first].operand = e.operand],
                             Tail(atEnd))

\* The conditions of effect e are among these conditions, each as often.
IsImplied(conds, e) ==
    LET trigger == (IF e.pre = -1 THEN <<>> ELSE <<<<e.var, e.pre>>>>) \o e.start \o e.end
        times(seq, c) == Len(SelectSeq(seq, LAMBDA d : d = c))
    IN  \A c \in ToSet(trigger) : times(trigger, c) <= times(conds, c)

\* What the numbers in the context have to be known for, when number x is to
\* join it: the terms of the comparisons in it that x has an influence on.
RelevantVars(types, arcs, parents, x) ==
    LET relevant == SelectSeq(ComparisonsOf(types, arcs, x), LAMBDA c : Contains(parents, c))
    IN  FlattenSeq([i \in DOMAIN relevant |-> SetToSortSeq(FunctionalVars(types, arcs, relevant[i]), <)])

\* The side effects of a transition of variable v on its context, effect by
\* effect: the context may grow.
RECURSIVE CyclicEffects(_, _, _, _, _, _)
CyclicEffects(types, arcs, v, context, conds, effects) ==
    IF effects = <<>> THEN context
    ELSE
    LET e == Head(effects)
        known == Contains(context.parents, e.var)
        relevant == IF known \/ types[e.var] # "primitive" THEN <<>>
                    ELSE RelevantVars(types, arcs, context.parents, e.var)
        parents == Translate(context.parents, relevant)
        withOperand == IF types[e.var] = "primitive" THEN Translate(parents, <<e.operand>>) ELSE parents
        effect == [local |-> Local(withOperand, e.var), var |-> e.var, value |-> e.post, fop |-> e.fop,
                   operand |-> IF types[e.var] = "primitive" THEN Local(withOperand, e.operand) ELSE 0]
        added == IF (known \/ relevant # <<>>) /\ IsImplied(conds, e)
                 THEN IF types[e.var] = "logical" /\ e.pre = e.post
                      THEN [context EXCEPT !.parents = parents]
                      ELSE [parents |-> withOperand, effect |-> Append(context.effect, effect)]
                 ELSE [context EXCEPT !.parents = parents]
    IN  CyclicEffects(types, arcs, v, IF e.var = v THEN context ELSE added, conds, Tail(effects))

\* One transition of logical variable v: its label and the context after it.
ReadLabel(file, types, v, parents, raw) ==
    LET isAxiom == file.variables[v].layer # -1
        conds == [i \in DOMAIN raw.conditions |-> <<raw.conditions[i].var, raw.conditions[i].value>>]
        known == Translate(parents, (IF raw.duration = 0 THEN <<>> ELSE <<raw.duration>>)
                                        \o [i \in DOMAIN conds |-> conds[i][1]])
        o == SearchOperator(types, file.operators[raw.op])
        context == IF isAxiom THEN [parents |-> known, effect |-> <<>>]
                   ELSE CyclicEffects(types, file.causalGraph, v, [parents |-> known, effect |-> <<>>], conds,
                                      CompressEffects(o.prePostStart, o.prePostEnd))
    IN  [parents |-> context.parents,
         label |-> [target |-> raw.target, duration |-> raw.duration,
                    precond |-> Assignments(known, raw.conditions), effect |-> context.effect,
                    op |-> IF isAxiom THEN 0 ELSE raw.op]]

\* All transitions of all values, in the order of the file.
RECURSIVE ReadLabels(_, _, _, _, _)
ReadLabels(file, types, v, read, raws) ==
    IF raws = <<>> THEN read
    ELSE LET one == ReadLabel(file, types, v, read.parents, Head(raws).raw)
         IN  ReadLabels(file, types, v,
                 [parents |-> one.parents,
                  labels |-> [read.labels EXCEPT ![Head(raws).value] = Append(@, one.label)]], Tail(raws))

\* Labels by their targets, as they are met first.
ByTarget(labels) ==
    LET targets == Translate(<<>>, [i \in DOMAIN labels |-> labels[i].target])
    IN  FlattenSeq([k \in DOMAIN targets |-> SelectSeq(labels, LAMBDA l : l.target = targets[k])])

ReadSymbolic(file, types, v) ==
    LET vertices == file.graphs[v].vertices
        raws == FlattenSeq([x \in DOMAIN vertices |->
                    [i \in DOMAIN vertices[x] |-> [value |-> x, raw |-> vertices[x][i]]]])
        read == ReadLabels(file, types, v, [parents |-> <<>>, labels |-> [x \in DOMAIN vertices |-> <<>>]], raws)
    IN  [parents |-> read.parents,
         outgoing |-> [x \in 0..(Len(vertices) - 1) |-> ByTarget(read.labels[x + 1])]]

----------------------------------------------------------------------------
\* The term a subterm stands for.
ReadSubterm(file, v) == file.graphs[v].relation[1]

\* The transitions of number v, which they start from.
ReadFunctional(file, v) ==
    LET changes == file.graphs[v].transitions
    IN  [i \in DOMAIN changes |-> [start |-> v] @@ changes[i]]

\* compute_recursively_parents: the numbers in the term of v, subterms before their operands.
RECURSIVE TermVars(_, _, _)
TermVars(file, types, v) ==
    IF types[v] # "subterm" THEN <<v>>
    ELSE <<v>> \o TermVars(file, types, ReadSubterm(file, v).left)
              \o TermVars(file, types, ReadSubterm(file, v).right)

\* collect_recursively_func_transitions: everything that changes a number in a
\* comparison, in local numbers; a number that occurs twice counts twice.
RECURSIVE CollectTransitions(_, _, _)
CollectTransitions(parents, transitions, raws) ==
    IF raws = <<>> THEN [parents |-> parents, transitions |-> transitions]
    ELSE LET raw == Head(raws)
             known == Translate(parents, <<raw.start, raw.right, raw.duration>>
                          \o [i \in DOMAIN raw.conditions |-> raw.conditions[i].var])
         IN  CollectTransitions(known,
                 Append(transitions,
                     [target |-> 0, start |-> Local(known, raw.start), influencing |-> Local(known, raw.right),
                      fop |-> raw.fop, duration |-> Local(known, raw.duration), effect |-> <<>>,
                      precond |-> Assignments(known, raw.conditions), op |-> raw.op]),
                 Tail(raws))

\* Node 1 is that the comparison is false, and to be made true; node 0 is written as its inverse.
ReadComparison(file, types, v) ==
    LET relation == file.graphs[v].relation
        term == TermVars(file, types, relation[2].left) \o TermVars(file, types, relation[2].right)
        numbers == SelectSeq(term, LAMBDA w : types[w] = "primitive")
        raws == FlattenSeq([k \in DOMAIN numbers |-> ReadFunctional(file, numbers[k])])
        collected == CollectTransitions(Translate(<<>>, term), <<>>, raws)
    IN  [parents |-> collected.parents, transitions |-> collected.transitions,
         left |-> relation[2].left, right |-> relation[2].right,
         op |-> (0 :> relation[1].op) @@ (1 :> relation[2].op)]

\* read_all: numbers and modules have no context.
ReadGraphs(file) ==
    LET types == VariableTypes(file)
    IN  [v \in DOMAIN types |->
            CASE types[v] = "logical" -> ReadSymbolic(file, types, v)
              [] types[v] = "comparison" -> ReadComparison(file, types, v)
              [] types[v] = "subterm" -> ReadSubterm(file, v)
              [] types[v] = "primitive" -> ReadFunctional(file, v)
              [] OTHER -> <<>>]
=============================================================================
