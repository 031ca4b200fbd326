--------------------------- MODULE PreprocessTask ---------------------------
(***************************************************************************)
(* The task as preprocess reads it from the translator and strips it       *)
(* (downward/preprocess/variable.cpp, operator.cpp, axiom.cpp, module.cpp, *)
(* helper_functions.cpp).                                                  *)
(*                                                                         *)
(* Variables are numbered from 1 on, as their pointers are ordered; values *)
(* from 0 on, and an effect without a precondition has the value -1.  A    *)
(* condition is a pair of a variable and a value.  Names are left out.     *)
(***************************************************************************)
EXTENDS Integers, Sequences, FiniteSets, SequencesExt

AnyValue == -1

\* The elements of s at the positions in N, in order.
OnlyAt(s, N) ==
    LET upTo[n \in 0..Len(s)] ==
            IF n = 0 THEN <<>> ELSE IF n \in N THEN Append(upTo[n - 1], s[n]) ELSE upTo[n - 1]
    IN  upTo[Len(s)]

\* s sorted, where less holds the pairs of positions at which the first element is
\* less than the second; equal ones stay in order.
InOrder(s, less) ==
    LET before(i, j) == <<i, j>> \in less \/ (i < j /\ <<j, i>> \notin less)
        rank(i) == Cardinality({j \in DOMAIN s : before(j, i)}) + 1
    IN  [k \in DOMAIN s |-> s[CHOOSE i \in DOMAIN s : rank(i) = k]]

Positions(s) == {<<i, j>> : i, j \in DOMAIN s}

\* Lists of conditions on the variables V.
Conditions(V) == Seq(V \X Int)

\* A file of the translator speaks of its own variables only; an effect on a
\* functional variable has a variable as its operand.
WellFormed(sas) ==
    LET V == DOMAIN sas.variables
        effects == {e \in [start : Conditions(V), overall : Conditions(V), end : Conditions(V),
                           target : V \cup {0}, first : Int, second : Int] :
                       e.target # 0 /\ sas.variables[e.target].range = -1 => e.second \in V}
        axioms == [effect : V, op : Int, left : V, right : V]
    IN  /\ sas.variables \in Seq([range : Int, layer : Int])
        /\ sas.conditionModules \in Seq(V) /\ sas.costModules \in Seq(V)
        /\ sas.effectModules \in Seq(Seq(V))
        /\ sas.initial \in Seq(Int) /\ Len(sas.initial) = Len(sas.variables)
        /\ sas.goal \in Conditions(V)
        /\ sas.operators \in Seq([groundings : Nat, durationOp : Int, duration : V,
                                  prevailStart : Conditions(V), prevailOverall : Conditions(V),
                                  prevailEnd : Conditions(V),
                                  effectStart : Seq(effects), effectEnd : Seq(effects)])
        /\ sas.rules \in Seq([conditions : Conditions(V), effect : V, old : Int, new : Int])
        /\ sas.comparisons \in Seq(axioms) /\ sas.subterms \in Seq(axioms)

VarOf(cond) == cond[1]
VarsOf(conds) == [i \in DOMAIN conds |-> VarOf(conds[i])]

\* The conditions of an effect: those at end were counted last, and whether
\* there are some decides for all of them.
ReadConditions(e) ==
    IF e.end # <<>> THEN [conditional |-> TRUE, start |-> e.start, overall |-> e.overall, end |-> e.end]
                    ELSE [conditional |-> FALSE, start |-> <<>>, overall |-> <<>>, end |-> <<>>]

\* Effects are sorted by their kind.  A target that is no variable stands for
\* a module; of a functional variable the assignment and its operand are read.
ReadEffects(variables, effects) ==
    LET isModule(e) == e.target = 0
        isNumerical(e) == ~isModule(e) /\ variables[e.target].range = -1
        isPrePost(e) == ~isModule(e) /\ ~isNumerical(e)
        pre == OnlyAt(effects, {i \in DOMAIN effects : isPrePost(effects[i])})
        num == OnlyAt(effects, {i \in DOMAIN effects : isNumerical(effects[i])})
        mod == OnlyAt(effects, {i \in DOMAIN effects : isModule(effects[i])})
    IN  [prePost |-> [i \in DOMAIN pre |->
            [var |-> pre[i].target, pre |-> pre[i].first, post |-> pre[i].second,
             when |-> ReadConditions(pre[i])]],
         numerical |-> [i \in DOMAIN num |->
            [var |-> num[i].target, fop |-> num[i].first, operand |-> num[i].second,
             when |-> ReadConditions(num[i])]],
         module |-> [i \in DOMAIN mod |-> [when |-> ReadConditions(mod[i])]]]

ReadOperator(variables, o) ==
    [groundings |-> o.groundings, durationOp |-> o.durationOp, duration |-> o.duration,
     prevail |-> [start |-> o.prevailStart, overall |-> o.prevailOverall, end |-> o.prevailEnd],
     start |-> ReadEffects(variables, o.effectStart),
     end |-> ReadEffects(variables, o.effectEnd)]

\* The variables that modules compute or change.
ModuleVars(sas) ==
    ToSet(sas.conditionModules) \cup ToSet(sas.costModules)
       \cup UNION {ToSet(m) : m \in ToSet(sas.effectModules)}

\* The variables, with the marks that reading modules, operators and axioms leaves.
ReadVariables(sas) ==
    [v \in DOMAIN sas.variables |->
        [range |-> sas.variables[v].range,
         layer |-> sas.variables[v].layer,
         functional |-> sas.variables[v].range = -1,
         module |-> v \in ModuleVars(sas),
         duration |-> \E i \in DOMAIN sas.operators : sas.operators[i].duration = v,
         comparison |-> \E i \in DOMAIN sas.comparisons : sas.comparisons[i].effect = v,
         subterm |-> \E i \in DOMAIN sas.subterms : sas.subterms[i].effect = v]]

\* Comparisons come before subterms in the list of functional axioms.
ReadFunctionalAxioms(sas) ==
    LET read(axioms, isComparison) ==
            [i \in DOMAIN axioms |->
                [effect |-> axioms[i].effect, op |-> axioms[i].op, left |-> axioms[i].left,
                 right |-> axioms[i].right, comparison |-> isComparison]]
    IN  read(sas.comparisons, TRUE) \o read(sas.subterms, FALSE)

ReadProblem(sas) ==
    [variables |-> ReadVariables(sas),
     initial |-> sas.initial,
     goal |-> sas.goal,
     operators |-> [i \in DOMAIN sas.operators |-> ReadOperator(sas.variables, sas.operators[i])],
     relational |-> sas.rules,
     functional |-> ReadFunctionalAxioms(sas)]

----------------------------------------------------------------------------
\* What preprocess keeps of an operator, given the levels of the variables:
\* a variable that was pruned has level 0.
StripEffects(effects, level) ==
    LET important(list) == OnlyAt(list, {i \in DOMAIN list : level[list[i].var] # 0})
    IN  [effects EXCEPT !.prePost = important(@), !.numerical = important(@)]

StripUnimportantEffects(o, level) ==
    [o EXCEPT !.start = StripEffects(@, level), !.end = StripEffects(@, level)]

IsRedundant(o) ==
    /\ o.groundings = 0
    /\ \A effects \in {o.start, o.end} :
          effects.prePost = <<>> /\ effects.numerical = <<>> /\ effects.module = <<>>

StripOperators(operators, level) ==
    LET stripped == [i \in DOMAIN operators |-> StripUnimportantEffects(operators[i], level)]
    IN  OnlyAt(stripped, {i \in DOMAIN stripped : ~IsRedundant(stripped[i])})

\* Relational and functional axioms alike.
StripAxioms(axioms, level) == OnlyAt(axioms, {i \in DOMAIN axioms : level[axioms[i].effect] # 0})

Strip(t, level) ==
    [t EXCEPT !.operators = StripOperators(@, level),
              !.relational = StripAxioms(@, level),
              !.functional = StripAxioms(@, level)]
=============================================================================
