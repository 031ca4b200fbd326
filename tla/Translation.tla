----------------------------- MODULE Translation -----------------------------
(***************************************************************************)
(* The translator (downward/translate/translate.py, pddl_to_sas): the task *)
(* is normalized, explored and instantiated, its rules are handled, and    *)
(* what is left becomes operators and rules over variables.                *)
(*                                                                         *)
(* task.invariants are the groups of facts the synthesis of invariants     *)
(* finds and task.valued the predicates that come from object functions.   *)
(***************************************************************************)
EXTENDS ModelBuilding, Grounding, AxiomRules, SasOperators

LOCAL INSTANCE SequencesExt

Search == INSTANCE AxiomEvaluation

CONSTANT Tasks

VARIABLES
    task,       \* the task as it is written
    stage,      \* what comes next
    normal,     \* the task as far as it has been normalized
    ground,     \* the grounded task
    todoOps,    \* grounded operators that are not translated yet
    sas         \* the task that is written

translationVars == <<task, stage, normal, ground, todoOps, sas>>

vars == <<translationVars, explorationVars, axiomVars>>

Init ==
    /\ task \in Tasks
    /\ stage = "written"
    /\ normal = task
    /\ ground = [ops |-> <<>>, axioms |-> <<>>, goal |-> {}]
    /\ todoOps = <<>>
    /\ sas = [ops |-> <<>>]
    /\ InitExploration
    /\ InitAxioms

----------------------------------------------------------------------------
(* normalize                                                               *)

Normalize(from, to, t) ==
    /\ stage = from
    /\ normal' = t
    /\ stage' = to
    /\ UNCHANGED <<task, ground, todoOps, sas, explorationVars, axiomVars>>

\* The variables of every action and every axiom get names of their own when it
\* is made.  Variables of one name have one type.
RECURSIVE Merged(_)
Merged(maps) == IF maps = <<>> THEN <<>> ELSE Head(maps) @@ Merged(Tail(maps))

WithUnique(t, acts, axs) ==
    [objects |-> t.objects, facts |-> t.facts, goal |-> t.goal,
     actions |-> [i \in DOMAIN acts |-> acts[i].result], axioms |-> [i \in DOMAIN axs |-> axs[i].result],
     types |-> Merged([i \in DOMAIN acts |-> acts[i].types] \o [i \in DOMAIN axs |-> axs[i].types])]
Parsed(t) ==
    WithUnique(t, [i \in DOMAIN t.actions |-> UniquifyAction(t.actions[i])],
                  [i \in DOMAIN t.axioms |-> UniquifyAxiom(t.axioms[i])])

Parse == Normalize("written", "parsed", Parsed(normal))

IsSimpleGoal(f) == Is("literal", f) \/ (Is("and", f) /\ \A i \in DOMAIN f.parts : Is("literal", f.parts[i]))

\* substitute_complicated_goal.
WithSimpleGoal(t) ==
    LET unique == UniquifyAxiom([name |-> "new-axiom@goal", params |-> <<>>, condition |-> t.goal])
    IN  IF IsSimpleGoal(t.goal) THEN t
        ELSE [t EXCEPT !.axioms = Append(@, unique.result), !.types = @ @@ unique.types,
                       !.goal = Literal([pred |-> "new-axiom@goal", args |-> <<>>], FALSE)]

SubstituteGoal == Normalize("parsed", "universal", WithSimpleGoal(normal))

\* All the conditions of a task, and the task with others in their place.
ConditionsOfAction(a) ==
    a.conditions \o FlattenSeq([k \in DOMAIN a.effects[1] |-> a.effects[1][k].conditions])
                 \o FlattenSeq([k \in DOMAIN a.effects[2] |-> a.effects[2][k].conditions])
AllConditions(t) ==
    FlattenSeq([i \in DOMAIN t.actions |-> ConditionsOfAction(t.actions[i])])
        \o [i \in DOMAIN t.axioms |-> t.axioms[i].condition]

\* The task with each condition replaced by Change of it.
MapAction(a, Change(_)) ==
    [a EXCEPT !.conditions = [time \in 1..3 |-> Change(@[time])],
              !.effects = [time \in 1..2 |-> [k \in DOMAIN @[time] |->
                  [@[time][k] EXCEPT !.conditions = [tt \in 1..3 |-> Change(@[tt])]]]]]
MapConditions(t, Change(_)) ==
    [t EXCEPT !.actions = [i \in DOMAIN @ |-> MapAction(@[i], Change)],
              !.axioms = [i \in DOMAIN @ |-> [@[i] EXCEPT !.condition = Change(@)]]]

\* remove_universal_quantifiers.
AddNewAxioms(t, done, conditions) ==
    LET replaced == MapConditions(t, LAMBDA f : done.result[CHOOSE i \in DOMAIN conditions : conditions[i] = f])
    IN  [replaced EXCEPT !.axioms = @ \o SubSeq(done.axioms, Len(@) + 1, Len(done.axioms))]

RemoveUniversals ==
    Normalize("universal", "disjunctions",
        AddNewAxioms(normal, EachWithoutUniversal(AllConditions(normal),
                                 [axioms |-> normal.axioms, made |-> <<>>, result |-> <<>>], normal.types),
                     AllConditions(normal)))

\* build_DNF and split_disjunctions.  The effects of durative actions are kept
\* by their time, which is not where split_disjunctions looks for them.
InDnf(t) == MapConditions(t, LAMBDA f : Simplified(PullDisjunctions(f)))

HasDisjunctiveEffect(t) ==
    \E i \in DOMAIN t.actions : \E time \in 1..2 : \E e \in Range(t.actions[i].effects[time]) :
        \E tt \in 1..3 : Is("or", e.conditions[tt])

SplitAll(t) == [t EXCEPT !.actions = SplitActions(@), !.axioms = SplitAxioms(@)]

SplitTask(t) ==
    Normalize("disjunctions", IF HasDisjunctiveEffect(t) THEN "aborted" ELSE "existentials", SplitAll(t))

SplitDisjunctions == SplitTask(InDnf(normal))

MoveExistentials == Normalize("existentials", "normal", MapConditions(normal, MovedOut))

----------------------------------------------------------------------------
(* explore                                                                 *)

BuildRules ==
    /\ stage = "normal"
    /\ StartExploration(ProgramOf(normal))
    /\ stage' = "explored"
    /\ UNCHANGED <<task, normal, ground, todoOps, sas, axiomVars>>

ExploreMore ==
    /\ stage = "explored"
    /\ Explore
    /\ UNCHANGED <<translationVars, axiomVars>>

\* Without the atom of the goal there is no relaxed solution.
Grounded(fluents) ==
    [ops |-> InstantiateActions(normal, queue, fluents),
     axioms |-> InstantiateAxioms(normal, queue, fluents),
     goal |-> Range(GroundLiterals(normal.goal, <<>>)),
     groups |-> SortGroups(ComputeGroups(task.invariants, task.valued, fluents))]

Instantiate ==
    /\ stage = "explored"
    /\ IsExplored
    /\ \E g \in {Grounded(FluentFacts(normal, queue))} :
          IF GoalAtom \in Range(queue)
          THEN /\ ground' = g
               /\ todoOps' = g.ops
               /\ StartAxioms(g)
               /\ stage' = "axioms"
          ELSE /\ stage' = "unsolvable"
               /\ UNCHANGED <<ground, todoOps, axiomVars>>
    /\ UNCHANGED <<task, normal, sas, explorationVars>>

----------------------------------------------------------------------------
(* translate_task                                                          *)

ProcessAxioms ==
    /\ stage = "axioms"
    /\ HandleAxioms
    /\ UNCHANGED <<translationVars, explorationVars>>

\* The goals that are not trivial, and whether they have one translation.
GoalLiterals == {l \in ground.goal : l.neg \/ l.atom \notin trueAtoms}
GoalConditions(places) == TranslateConditions(GoalLiterals, places, Ranges(ground.groups), {}, {})
IsTranslatable(places) ==
    /\ \A l \in GoalLiterals : l.neg \/ l.atom \in DOMAIN places
    /\ Cardinality(GoalConditions(places)) = 1

StartTranslation(places) ==
    /\ sas' = [ranges |-> Ranges(ground.groups), places |-> places, ops |-> <<>>, names |-> <<>>, rules |-> <<>>,
               goal |-> IF IsTranslatable(places) THEN CHOOSE c \in GoalConditions(places) : TRUE ELSE {}]
    /\ stage' = IF \E l \in GoalLiterals : ~l.neg /\ l.atom \in falseAtoms THEN "unsolvable"
                ELSE IF IsTranslatable(places) THEN "operators" ELSE "aborted"

TranslateGoal ==
    /\ stage = "axioms"
    /\ axiomStage = "done"
    /\ StartTranslation(Places(ground.groups))
    /\ UNCHANGED <<task, normal, ground, todoOps, explorationVars, axiomVars>>

AddOperators(name, translated) ==
    /\ sas' = [sas EXCEPT !.ops = @ \o translated.operators,
                          !.names = @ \o [i \in DOMAIN translated.operators |-> name]]
    /\ stage' = IF translated.aborted THEN "aborted" ELSE "operators"

\* translate_temporal_strips_operators, for the next operator.
TranslateNext ==
    /\ stage = "operators"
    /\ todoOps # <<>>
    /\ AddOperators(Head(todoOps).name,
                    TranslateOperator(Head(todoOps), sas.places, sas.ranges, trueAtoms, falseAtoms))
    /\ todoOps' = Tail(todoOps)
    /\ UNCHANGED <<task, normal, ground, explorationVars, axiomVars>>

\* Derived variables are above all layers of numbers.
VariableLayers ==
    [v \in DOMAIN sas.ranges |->
        LET derived == {a \in DOMAIN layers : sas.places[a][1] = v}
        IN  IF derived = {} THEN -1 ELSE layers[CHOOSE a \in derived : TRUE] + 1]

\* The facts that hold at first and the atoms the rules make false; "none of
\* those" for all other variables.
InitialValues ==
    [v \in DOMAIN sas.ranges |->
        LET holding == {a \in Range(task.facts) \cup axiomInit : a \in DOMAIN sas.places /\ sas.places[a][1] = v}
        IN  IF holding = {} THEN NoneOfThose(sas.ranges, v) ELSE sas.places[CHOOSE a \in holding : TRUE][2]]

\* The rules, their layers and the initial values.
TranslateRules ==
    /\ stage = "operators"
    /\ todoOps = <<>>
    /\ sas' = [ranges |-> sas.ranges, places |-> sas.places, goal |-> sas.goal, ops |-> sas.ops, names |-> sas.names,
               rules |-> FlattenSeq([i \in DOMAIN axioms |-> TranslateAxiom(axioms[i], sas.places, sas.ranges)]),
               layers |-> VariableLayers, init |-> InitialValues]
    /\ stage' = "translated"
    /\ UNCHANGED <<task, normal, ground, todoOps, explorationVars, axiomVars>>

ConstrainEndEffects ==
    /\ stage = "translated"
    /\ sas' = [sas EXCEPT !.ops = ConstrainEnds(@)]
    /\ stage' = "done"
    /\ UNCHANGED <<task, normal, ground, todoOps, explorationVars, axiomVars>>

Next ==
    \/ Parse \/ SubstituteGoal \/ RemoveUniversals \/ SplitDisjunctions \/ MoveExistentials
    \/ BuildRules \/ ExploreMore \/ Instantiate
    \/ ProcessAxioms \/ TranslateGoal \/ TranslateNext \/ TranslateRules \/ ConstrainEndEffects

Spec == Init /\ [][Next]_vars

----------------------------------------------------------------------------
(* What the task means as it is written                                    *)

Bindings(params) == {Binding(params, args) : args \in Range(ObjectTuples(task.objects, params))}

\* The condition f holds, if the atoms in yes hold and those in no may hold.
RECURSIVE Holds(_, _, _, _)
Holds(f, binding, yes, no) ==
    CASE Is("literal", f) -> IF f.neg THEN Substitute(f.atom, binding) \notin no ELSE Substitute(f.atom, binding) \in yes
      [] IsConstant(f) -> Is("true", f)
      [] Is("and", f) -> \A p \in Range(f.parts) : Holds(p, binding, yes, no)
      [] Is("or", f) -> \E p \in Range(f.parts) : Holds(p, binding, yes, no)
      [] Is("exists", f) -> \E b \in Bindings(f.params) : Holds(f.parts[1], b @@ binding, yes, no)
      [] Is("forall", f) -> \A b \in Bindings(f.params) : Holds(f.parts[1], b @@ binding, yes, no)

\* What the axioms derive from the atoms in yes if those in no may hold.
RECURSIVE DerivedFrom(_, _)
DerivedFrom(yes, no) ==
    LET heads(x) == {Substitute([pred |-> x.name, args |-> VariablesIn(x.params)], b) :
                        b \in {c \in Bindings(x.params) : Holds(x.condition, c, yes, no)}}
        more == yes \cup UNION {heads(x) : x \in Range(task.axioms)}
    IN  IF more = yes THEN yes ELSE DerivedFrom(more, no)

\* With negation as failure, layer by layer.
RECURSIVE Stable(_, _)
Stable(facts, low) ==
    LET next == DerivedFrom(facts, DerivedFrom(facts, low))
    IN  IF next = low THEN low ELSE Stable(facts, next)
Meaning(facts) == Stable(facts, facts)

----------------------------------------------------------------------------
(* What the task means that is written                                     *)

IsDerivedVar(v) == \E a \in Range(ground.groups[v]) : a.pred \in {x.name : x \in Range(normal.axioms)}
BasicVars == {v \in DOMAIN sas.ranges : ~IsDerivedVar(v)}
Assignments ==
    {c \in [BasicVars -> 0..Max({0} \cup {sas.ranges[v] - 1 : v \in BasicVars})] :
        \A v \in BasicVars : c[v] < sas.ranges[v]}

FactsAt(value, vs) ==
    {ground.groups[v][value[v] + 1] : v \in {w \in vs : value[w] < sas.ranges[w] - 1}}
        \cup {f \in Range(task.facts) : f \notin DOMAIN sas.places}

\* The file as the search reads it.
File == [variables |-> [v \in DOMAIN sas.ranges |-> [layer |-> sas.layers[v]]],
         state |-> sas.init, relational |-> sas.rules]

Complete(c) ==
    Search!EvaluateLogic(File, [v \in DOMAIN sas.ranges |-> "logical"],
                         [v \in DOMAIN sas.ranges |-> IF v \in BasicVars THEN c[v] ELSE sas.init[v]])

IsTranslated == stage \in {"translated", "done"}

----------------------------------------------------------------------------
(* Derived atoms                                                           *)

\* The atoms the rules of some atoms have as conditions, and theirs.
RECURSIVE Support(_)
Support(atoms) ==
    LET positive(a) == {l.atom : l \in {k \in ConditionsOf(ByAtom(ground.axioms, a)) : ~k.neg}}
        more == atoms \cup UNION {positive(a) : a \in atoms}
    IN  IF more = atoms THEN atoms ELSE Support(more)

\* No atom whose negation is needed depends on itself.
NegatedAreAcyclic ==
    \A l \in {k \in literals : k.neg} : \A k \in ConditionsOf(ByAtom(ground.axioms, l.atom)) :
        l.atom \notin Support({k.atom})

IsDerivedIn(t, a) == a.pred \in {x.name : x \in Range(t.axioms)}

DerivedAgree(value, truth) ==
    /\ \A a \in {b \in AtomsOf(literals) : IsDerivedIn(task, b)} :
          (value[sas.places[a][1]] = sas.places[a][2]) = (a \in truth)
    /\ \A a \in {b \in trueAtoms : IsDerivedIn(task, b)} : a \in truth
    /\ \A a \in truth : IsDerivedIn(task, a) => a \in DOMAIN sas.places /\ a \notin falseAtoms

\* In every state the rules that are written, applied layer by layer as the
\* search does, give the needed derived atoms the values the axioms of the task
\* define, although the axioms have been split, simplified, negated and
\* layered (handle_axioms); and no axioms that can be layered are refused.
DerivedAsDefined ==
    /\ axiomStage # "aborted"
    /\ IsTranslated /\ NegatedAreAcyclic =>
          \A c \in Assignments : DerivedAgree(Complete(c), Meaning(FactsAt(c, BasicVars)))

----------------------------------------------------------------------------
(* Operators                                                               *)

AreHolding(pairs, value) == \A p \in pairs : value[p[1]] = p[2]
OldValuesHold(entries, value) == \A e \in Range(entries) : e.pre \in {-1, value[e.var]}

\* at: the values at the start, while the operator runs and at its end.
CanBeDone(o, at) ==
    /\ \A time \in Times : AreHolding(o.prevail[time], at[time])
    /\ OldValuesHold(o.prePost[1], at[1]) /\ OldValuesHold(o.prePost[2], at[3])

Done(o, time, at) ==
    LET value == at[ConditionTime(time)]
        fired == {e \in Range(o.prePost[time]) : \A tt \in Times : AreHolding(e.cond[tt], at[tt])}
    IN  [v \in BasicVars |-> IF \E e \in fired : e.var = v THEN (CHOOSE e \in fired : e.var = v).post ELSE value[v]]

\* The same as the task defines it; truth: what is true at the three times.
CanBeDoneByTask(a, binding, truth) ==
    \A time \in Times : Holds(a.conditions[time], binding, truth[time], truth[time])

Effects(a, binding, time, truth, neg) ==
    UNION {{Substitute(e.literal.atom, b @@ binding) :
                b \in {c \in Bindings(e.params) : \A tt \in Times :
                          Holds(e.conditions[tt], c @@ binding, truth[tt], truth[tt])}} :
           e \in {k \in Range(a.effects[time]) : k.literal.neg = neg}}

DoneByTask(a, binding, time, truth) ==
    ({f \in truth[ConditionTime(time)] : ~IsDerivedIn(task, f)} \ Effects(a, binding, time, truth, TRUE))
        \cup Effects(a, binding, time, truth, FALSE)

\* The result has at most one fact of every variable.
IsConsistent(facts) == \A v \in BasicVars : Cardinality(facts \cap Range(ground.groups[v])) <= 1

\* No fact but what an effect writes decides whether it does: the code makes
\* such an end effect unconditional.
HasOwnCondition(op) ==
    \E time \in 1..2 : \E e \in Range(op.add[time]) \cup Range(op.del[time]) : e.atom \in AtomsOf(UNION Range(e.cond))

\* The conditions of the operator, negated facts included, have one translation.
HasOneTranslation(op) ==
    \A time \in Times :
        Cardinality(TranslateConditions(op.conditions[time], sas.places, sas.ranges, trueAtoms, falseAtoms)) <= 1

NamedAs(i, args) == <<task.actions[i].name, args>>
IsExactly(name) == \A op \in Range(ground.ops) : op.name = name => HasOneTranslation(op) /\ ~HasOwnCondition(op)

Usable(i, args, at) == {k \in DOMAIN sas.ops : sas.names[k] = NamedAs(i, args) /\ CanBeDone(sas.ops[k], at)}

OperatorAgrees(i, args, at, truth) ==
    LET a == task.actions[i]
        binding == Binding(a.params, args)
    IN  /\ (Usable(i, args, at) # {}) = CanBeDoneByTask(a, binding, truth)
        /\ \A k \in Usable(i, args, at), time \in 1..2 :
              IsConsistent(DoneByTask(a, binding, time, truth)) =>
                  FactsAt(Done(sas.ops[k], time, at), BasicVars) = DoneByTask(a, binding, time, truth)

AllAgree(at, truth) ==
    \A i \in DOMAIN task.actions : \A args \in Range(ObjectTuples(task.objects, task.actions[i].params)) :
        IsExactly(NamedAs(i, args)) => OperatorAgrees(i, args, at, truth)

\* An action of the task, with objects for its parameters, can be done in the
\* states in which one of the operators that are written for it can, and both
\* have the same effects at its start and its end: after normalization,
\* exploration, instantiation and translation none is lost and none is changed.
OperatorsAsDefined ==
    stage = "translated" /\ NegatedAreAcyclic =>
        \E values \in {[c \in Assignments |-> Complete(c)]} :
        \E truths \in {[c \in Assignments |-> Meaning(FactsAt(c, BasicVars))]} :
            \A c, d \in Assignments :
                AllAgree(<<values[c], values[d], values[d]>>, <<truths[c], truths[d], truths[d]>>)

----------------------------------------------------------------------------
(* Operators that run at the same time                                     *)

\* A state: the values of the basic variables, and for every operator that runs
\* the values there were when it was started.
OverAllHolds(state) ==
    \A k \in DOMAIN state.running : AreHolding(sas.ops[k].prevail[2], Complete(state.basic))

CanStart(o, value) == AreHolding(o.prevail[1], value) /\ OldValuesHold(o.prePost[1], value)
CanEnd(o, value) == AreHolding(o.prevail[3], value) /\ OldValuesHold(o.prePost[2], value)

Started(state, k, value) ==
    [basic |-> Done(sas.ops[k], 1, <<value, value, value>>), running |-> (k :> value) @@ state.running]
Ended(state, k, value) ==
    [basic |-> Done(sas.ops[k], 2, <<state.running[k], value, value>>),
     running |-> [j \in DOMAIN state.running \ {k} |-> state.running[j]]]

After(state, value) ==
    {Started(state, k, value) : k \in {j \in DOMAIN sas.ops \ DOMAIN state.running : CanStart(sas.ops[j], value)}}
        \cup {Ended(state, k, value) : k \in {j \in DOMAIN state.running : CanEnd(sas.ops[j], value)}}

RECURSIVE Reachable(_)
Reachable(states) ==
    LET more == states \cup {n \in UNION {After(state, Complete(state.basic)) : state \in states} : OverAllHolds(n)}
    IN  IF more = states THEN states ELSE Reachable(more)

\* Every operator knows the value of what it writes when it is started.
StartsAreKnown == \A k \in DOMAIN sas.ops : \A e \in Range(sas.ops[k].prePost[1]) : e.pre # -1

ConstrainedAgrees(constrained, state, value) ==
    \A k \in DOMAIN state.running : CanEnd(sas.ops[k], value) => CanEnd(constrained[k], value)

\* The old values that constrain_end_effect_conditions adds to end effects hold
\* whenever the operator could end without them, however operators overlap.
EndsAsConstrained ==
    stage = "translated" /\ StartsAreKnown =>
        \A state \in Reachable({[basic |-> [v \in BasicVars |-> sas.init[v]], running |-> <<>>]}) :
            ConstrainedAgrees(ConstrainEnds(sas.ops), state, Complete(state.basic))
=============================================================================
