------------------------------ MODULE Grounding ------------------------------
(***************************************************************************)
(* From the task as it is written to a logic program, and from the model   *)
(* of the program to grounded operators and rules (downward/translate/     *)
(* normalize.py, instantiate.py, pddl/conditions.py, actions.py,           *)
(* effects.py, axioms.py).                                                 *)
(*                                                                         *)
(* A task has objects (object, type), facts that hold at first, actions    *)
(* [params, conditions, effects] with conditions of three times and lists  *)
(* of effects [params, conditions, literal] of two, axioms [name, params,  *)
(* condition] and a goal.  Parameters are pairs <<type, variable>>.        *)
(* Numbers, modules and object functions are left out.                     *)
(***************************************************************************)
EXTENDS LogicProgram

LOCAL INSTANCE SequencesExt

Truth == [type |-> "true"]
Falsity == [type |-> "false"]
Literal(a, neg) == [type |-> "literal", atom |-> a, neg |-> neg]
Junction(type, parts) == [type |-> type, parts |-> parts]
Quantified(type, params, part) == [type |-> type, params |-> params, parts |-> <<part>>]

Is(type, f) == f.type = type
IsConstant(f) == f.type \in {"true", "false"}
IsQuantified(f) == f.type \in {"exists", "forall"}
PartsOf(f) == IF "parts" \in DOMAIN f THEN f.parts ELSE <<>>
Params(f) == IF Is("exists", f) THEN f.params ELSE <<>>
VariablesIn(params) == [i \in DOMAIN params |-> params[i][2]]

----------------------------------------------------------------------------
(* Conditions                                                              *)

Dual == [true |-> "false", false |-> "true", and |-> "or", or |-> "and",
         exists |-> "forall", forall |-> "exists"]

\* negate.
RECURSIVE NegateCondition(_)
NegateCondition(f) ==
    IF Is("literal", f) THEN [f EXCEPT !.neg = ~@]
    ELSE IF IsConstant(f) THEN [f EXCEPT !.type = Dual[@]]
    ELSE [f EXCEPT !.type = Dual[@], !.parts = [i \in DOMAIN @ |-> NegateCondition(@[i])]]

\* _simplified, of conjunctions and disjunctions: neutral parts are dropped.
SimplifiedJunction(type, parts) ==
    LET neutral == IF type = "and" THEN "true" ELSE "false"
        flat == FlattenSeq([i \in DOMAIN parts |->
                    IF Is(type, parts[i]) THEN parts[i].parts
                    ELSE IF Is(neutral, parts[i]) THEN <<>> ELSE <<parts[i]>>])
    IN  IF \E i \in DOMAIN parts : Is(Dual[neutral], parts[i]) THEN [type |-> Dual[neutral]]
        ELSE IF flat = <<>> THEN [type |-> neutral]
        ELSE IF Len(flat) = 1 THEN flat[1] ELSE Junction(type, flat)

\* simplified.
RECURSIVE Simplified(_)
Simplified(f) ==
    LET parts == [i \in DOMAIN PartsOf(f) |-> Simplified(f.parts[i])]
    IN  IF f.type \in {"and", "or"} THEN SimplifiedJunction(f.type, parts)
        ELSE IF ~IsQuantified(f) THEN f
        ELSE IF IsConstant(parts[1]) THEN parts[1] ELSE [f EXCEPT !.parts = parts]

RECURSIVE FreeIn(_)
FreeIn(f) ==
    IF Is("literal", f) THEN Variables(f.atom)
    ELSE UNION {FreeIn(PartsOf(f)[i]) : i \in DOMAIN PartsOf(f)}
            \ (IF IsQuantified(f) THEN Range(VariablesIn(f.params)) ELSE {})

----------------------------------------------------------------------------
(* uniquify_variables                                                      *)

\* The smallest number that makes a name unique.
Numbered(name, types) ==
    LET with(i) == <<name[1], name[2] \o ToString(i)>>
    IN  with(CHOOSE i \in 1..Cardinality(DOMAIN types) :
                 with(i) \notin DOMAIN types /\ \A j \in 1..(i - 1) : with(j) \in DOMAIN types)

\* Mutant: a variable keeps its name whatever others there are.
KeptName(p, s) == [s EXCEPT !.types = (p[2] :> p[1]) @@ @, !.params = Append(@, p)]

\* uniquify_name: s holds the types of the variables so far, the new names and
\* the parameters so far.
UniquifyName(p, s) ==
    LET name == IF p[2] \in DOMAIN s.types THEN Numbered(p[2], s.types) ELSE p[2]
    IN  [types |-> (name :> p[1]) @@ s.types,
         names |-> IF p[2] \in DOMAIN s.types THEN (p[2] :> name) @@ s.names ELSE s.names,
         params |-> Append(s.params, <<p[1], name>>)]

\* The same for all of a list of parameters.
RECURSIVE UniquifyNames(_, _)
UniquifyNames(params, s) == IF params = <<>> THEN s ELSE UniquifyNames(Tail(params), UniquifyName(Head(params), s))

Renamed(a, names) == [a EXCEPT !.args = [j \in DOMAIN @ |-> IF @[j] \in DOMAIN names THEN names[@[j]] ELSE @[j]]]

\* The condition with new names, and the types of the variables so far.
RECURSIVE Uniquify(_, _, _), UniquifyEach(_, _, _)
Uniquify(f, types, names) ==
    LET own == UniquifyNames(IF IsQuantified(f) THEN f.params ELSE <<>>, [types |-> types, names |-> names, params |-> <<>>])
        parts == UniquifyEach(PartsOf(f), own.types, own.names)
    IN  [types |-> parts.types,
         result |-> IF Is("literal", f) THEN [f EXCEPT !.atom = Renamed(@, names)]
                    ELSE IF PartsOf(f) = <<>> THEN f
                    ELSE IF IsQuantified(f) THEN [f EXCEPT !.params = own.params, !.parts = parts.result]
                    ELSE [f EXCEPT !.parts = parts.result]]

UniquifyEach(parts, types, names) ==
    IF parts = <<>> THEN [types |-> types, result |-> <<>>]
    ELSE LET first == Uniquify(Head(parts), types, names)
             rest == UniquifyEach(Tail(parts), first.types, names)
         IN  [rest EXCEPT !.result = <<first.result>> \o @]

WithNames(e, own) ==
    LET conditions == UniquifyEach(e.conditions, own.types, own.names)
    IN  [types |-> conditions.types,
         result |-> [params |-> own.params, conditions |-> conditions.result,
                     literal |-> [e.literal EXCEPT !.atom = Renamed(@, own.names)]]]
UniquifyEffect(e, types) == WithNames(e, UniquifyNames(e.params, [types |-> types, names |-> <<>>, params |-> <<>>]))

RECURSIVE UniquifyEffects(_, _)
UniquifyEffects(effects, types) ==
    IF effects = <<>> THEN [types |-> types, result |-> <<>>]
    ELSE LET first == UniquifyEffect(Head(effects), types)
             rest == UniquifyEffects(Tail(effects), first.types)
         IN  [rest EXCEPT !.result = <<first.result>> \o @]

\* The action or axiom with unique names, and the types of its variables.
TypesOf(params) == [x \in Range(VariablesIn(params)) |-> params[CHOOSE i \in DOMAIN params : params[i][2] = x][1]]

WithEffects(a, effects) ==
    [types |-> effects.types,
     result |-> [a EXCEPT !.effects = <<SubSeq(effects.result, 1, Len(@[1])),
                                        SubSeq(effects.result, Len(@[1]) + 1, Len(effects.result))>>]]
WithConditions(a, conditions) ==
    WithEffects([a EXCEPT !.conditions = conditions.result],
                UniquifyEffects(a.effects[1] \o a.effects[2], conditions.types))

UniquifyAction(a) == WithConditions(a, UniquifyEach(a.conditions, TypesOf(a.params), <<>>))

WithCondition(x, condition) == [types |-> condition.types, result |-> [x EXCEPT !.condition = condition.result]]
UniquifyAxiom(x) == WithCondition(x, Uniquify(x.condition, TypesOf(x.params), <<>>))

----------------------------------------------------------------------------
(* remove_universal_quantifiers                                            *)

\* What stands for a universal condition.
Replacement(name, params) == Literal([pred |-> name, args |-> params], TRUE)

\* recurse: the condition without universal ones, the axioms so far, and the
\* axiom made for each condition.  types: the type of every variable.
RECURSIVE WithoutUniversal(_, _, _), EachWithoutUniversal(_, _, _)
WithoutUniversal(f, s, types) ==
    IF ~Is("forall", f)
    THEN LET done == EachWithoutUniversal(PartsOf(f), s, types)
         IN  [done EXCEPT !.result = IF PartsOf(f) = <<>> THEN f ELSE [f EXCEPT !.parts = done.result]]
    ELSE LET negated == NegateCondition(f)
             params == Listed(FreeIn(negated))
         IN  IF negated \in DOMAIN s.made
             THEN [s EXCEPT !.result = Replacement(s.made[negated], params)]
             ELSE LET inner == EachWithoutUniversal(<<negated>>, s, types)
                      name == "new-axiom@" \o ToString(Len(inner.axioms))
                  IN  [axioms |-> Append(inner.axioms,
                                    [name |-> name, condition |-> inner.result[1],
                                     params |-> [i \in DOMAIN params |-> <<types[params[i]], params[i]>>]]),
                       made |-> (inner.result[1] :> name) @@ inner.made,
                       result |-> Replacement(name, params)]

EachWithoutUniversal(parts, s, types) ==
    IF parts = <<>> THEN [s EXCEPT !.result = <<>>]
    ELSE LET first == WithoutUniversal(Head(parts), s, types)
             rest == EachWithoutUniversal(Tail(parts), first, types)
         IN  [rest EXCEPT !.result = <<first.result>> \o @]

----------------------------------------------------------------------------
(* build_DNF, split_disjunctions and move_existential_quantifiers          *)

\* Every conjunction of one part of each disjunction, with what is no one.
RECURSIVE Distribute(_, _)
Distribute(results, disjunctions) ==
    IF disjunctions = <<>> THEN results
    ELSE LET parts == Last(disjunctions).parts
         IN  Distribute(FlattenSeq([i \in DOMAIN results |-> [k \in DOMAIN parts |->
                                       Junction("and", <<results[i], parts[k]>>)]]),
                        Front(disjunctions))

\* The three rules that pull disjunctions to the root.
RECURSIVE PullDisjunctions(_)
PullDisjunctions(f) ==
    LET parts == [i \in DOMAIN PartsOf(f) |-> PullDisjunctions(f.parts[i])]
        ors == SelectSeq(parts, LAMBDA p : Is("or", p))
        others == SelectSeq(parts, LAMBDA p : ~Is("or", p))
    IN  IF ors = <<>> THEN f
        ELSE IF Is("or", f)
        THEN Junction("or", others \o FlattenSeq([i \in DOMAIN ors |-> ors[i].parts]))
        ELSE IF Is("exists", f)
        THEN Junction("or", [k \in DOMAIN ors[1].parts |-> Quantified("exists", f.params, ors[1].parts[k])])
        ELSE Junction("or", Distribute(<<Junction("and", others)>>, ors))

\* The two rules that pull existential quantifiers to the root.
RECURSIVE PullExistentials(_)
PullExistentials(f) ==
    LET parts == [i \in DOMAIN PartsOf(f) |-> PullExistentials(f.parts[i])]
        inner == SelectSeq(parts, LAMBDA p : Is("exists", p))
        others == SelectSeq(parts, LAMBDA p : ~Is("exists", p))
    IN  IF inner = <<>> THEN f
        ELSE IF Is("exists", f) THEN Quantified("exists", f.params \o inner[1].params, inner[1].parts[1])
        ELSE Quantified("exists", FlattenSeq([i \in DOMAIN inner |-> inner[i].params]),
                        Junction("and", others \o FlattenSeq([i \in DOMAIN inner |-> inner[i].parts])))

RECURSIVE HasExistential(_)
HasExistential(f) == Is("exists", f) \/ \E i \in DOMAIN PartsOf(f) : HasExistential(f.parts[i])

MovedOut(f) == IF HasExistential(f) THEN Simplified(PullExistentials(f)) ELSE f

\* The conditions of three times one gets by choosing a part of each disjunction.
Alternatives(f) == IF Is("or", f) THEN f.parts ELSE <<f>>
Split(conditions) ==
    FlattenSeq([k \in DOMAIN Alternatives(conditions[3]) |->
        FlattenSeq([j \in DOMAIN Alternatives(conditions[2]) |->
            [i \in DOMAIN Alternatives(conditions[1]) |->
                <<Alternatives(conditions[1])[i], Alternatives(conditions[2])[j], Alternatives(conditions[3])[k]>>]])])

\* What has no disjunction stays in its place; what has is replaced at the end.
SplitActions(actions) ==
    LET parts(a) == Split(a.conditions)
        clones(a) == [i \in DOMAIN parts(a) |-> [a EXCEPT !.conditions = parts(a)[i]]]
        split == SelectSeq(actions, LAMBDA a : Len(parts(a)) > 1)
    IN  SelectSeq(actions, LAMBDA a : Len(parts(a)) = 1)
            \o FlattenSeq([i \in DOMAIN split |-> clones(split[i])])

SplitAxioms(axioms) ==
    LET split == SelectSeq(axioms, LAMBDA a : Is("or", a.condition))
    IN  SelectSeq(axioms, LAMBDA a : ~Is("or", a.condition))
            \o FlattenSeq([i \in DOMAIN split |->
                   [k \in DOMAIN split[i].condition.parts |->
                       [split[i] EXCEPT !.condition = split[i].condition.parts[k]]]])

----------------------------------------------------------------------------
(* build_exploration_rules                                                 *)

\* The literals of a condition that has been brought into its normal form.
Literals(f) ==
    LET body == IF Is("exists", f) THEN f.parts[1] ELSE f
    IN  CASE Is("true", body) -> <<>> [] Is("and", body) -> body.parts [] OTHER -> <<body>>

TypeAtoms(params) == [i \in DOMAIN params |-> [pred |-> params[i][1], args |-> <<params[i][2]>>]]

\* condition_to_rule_body: the atoms that are not of the predicates hidden.
RuleBody(params, f, hidden) ==
    LET shown == SelectSeq(Literals(f), LAMBDA l : ~l.neg /\ l.atom.pred \notin hidden)
    IN  TypeAtoms(params) \o TypeAtoms(Params(f)) \o [i \in DOMAIN shown |-> shown[i].atom]

\* The parameters of the predicates that stand for actions and axioms.
ActionParams(a) == a.params \o Params(a.conditions[1]) \o Params(a.conditions[2]) \o Params(a.conditions[3])
AxiomParams(x) == x.params \o Params(x.condition)
ActionAtom(t, i) == [pred |-> "action@" \o ToString(i), args |-> VariablesIn(ActionParams(t.actions[i]))]
AxiomAtom(t, i) == [pred |-> "axiom@" \o ToString(i), args |-> VariablesIn(AxiomParams(t.axioms[i]))]

\* get_fluent_predicates.
FluentPredicates(t) ==
    {t.axioms[i].name : i \in DOMAIN t.axioms}
      \cup UNION {{e.literal.atom.pred : e \in Range(t.actions[i].effects[1]) \cup Range(t.actions[i].effects[2])} :
                   i \in DOMAIN t.actions}

\* The conditions of an effect that count: an end effect has all of them.
EffectBody(e, time) ==
    RuleBody(<<>>, e.conditions[1], {})
      \o (IF time = 2 THEN RuleBody(<<>>, e.conditions[2], {}) \o RuleBody(<<>>, e.conditions[3], {}) ELSE <<>>)

\* build_rules of actions, of effects, of axioms and of the goal.  Of the
\* conditions after the start only what never changes counts.
ActionRules(t, i) ==
    LET a == t.actions[i]
        later(time) == RuleBody(a.params, a.conditions[time], FluentPredicates(t))
        effects(time) == SelectSeq(a.effects[time], LAMBDA e : ~e.literal.neg)
        rulesAt(time) == [k \in DOMAIN effects(time) |->
            Bare(<<ActionAtom(t, i)>> \o EffectBody(effects(time)[k], time), effects(time)[k].literal.atom)]
    IN  <<Bare(RuleBody(a.params, a.conditions[1], {}) \o later(2) \o later(3), ActionAtom(t, i))>>
            \o rulesAt(1) \o rulesAt(2)

AxiomRulesOf(t, i) ==
    <<Bare(RuleBody(t.axioms[i].params, t.axioms[i].condition, {}), AxiomAtom(t, i)),
      Bare(<<AxiomAtom(t, i)>>, [pred |-> t.axioms[i].name, args |-> VariablesIn(t.axioms[i].params)])>>

GoalAtom == [pred |-> "@goal-reachable", args |-> <<>>]

\* pddl_to_prolog.translate, before the rules are normalized.
ProgramOf(t) ==
    [facts |-> [i \in DOMAIN t.objects |-> [pred |-> t.objects[i][2], args |-> <<t.objects[i][1]>>]] \o t.facts,
     rules |-> FlattenSeq([i \in DOMAIN t.actions |-> ActionRules(t, i)])
                 \o FlattenSeq([i \in DOMAIN t.axioms |-> AxiomRulesOf(t, i)])
                 \o <<Bare(RuleBody(<<>>, t.goal, {}), GoalAtom)>>]

----------------------------------------------------------------------------
(* instantiate                                                             *)

Substitute(a, binding) == [a EXCEPT !.args = [j \in DOMAIN @ |-> IF @[j] \in DOMAIN binding THEN binding[@[j]] ELSE @[j]]]

\* The objects the arguments of an atom of the model give the parameters.
Binding(params, args) ==
    LET variables == VariablesIn(params)
    IN  [x \in Range(variables) |-> args[CHOOSE i \in DOMAIN variables : variables[i] = x]]

GroundLiterals(f, binding) ==
    LET lits == Literals(f)
    IN  [i \in DOMAIN lits |-> [atom |-> Substitute(lits[i].atom, binding), neg |-> lits[i].neg]]

\* Impossible is raised for what is not fluent and differs from the facts.
ContradictsFacts(l, fluents, facts) == l.atom \notin fluents /\ (l.atom \in facts) = l.neg

IsImpossible(f, binding, fluents, facts) ==
    Is("false", f) \/ \E l \in Range(GroundLiterals(f, binding)) : ContradictsFacts(l, fluents, facts)

\* The literals of a condition that are fluent.
Instantiated(f, binding, fluents) == SelectSeq(GroundLiterals(f, binding), LAMBDA l : l.atom \in fluents)

\* The objects the parameters of an effect can stand for, in the order of the
\* cartesian product.
RECURSIVE ObjectTuples(_, _)
ObjectTuples(objects, params) ==
    IF params = <<>> THEN <<<<>>>>
    ELSE LET fitting == SelectSeq(objects, LAMBDA o : o[2] = params[1][1])
             rest == ObjectTuples(objects, Tail(params))
         IN  FlattenSeq([i \in DOMAIN fitting |-> [k \in DOMAIN rest |-> <<fitting[i][1]>> \o rest[k]]])

\* _instantiate, of an effect: none if one of its conditions is impossible.  An
\* effect whose conditions are possible is one the exploration has found.
InstantiateEffect(e, binding, fluents, facts) ==
    IF \E time \in 1..3 : IsImpossible(e.conditions[time], binding, fluents, facts) THEN <<>>
    ELSE LET a == Substitute(e.literal.atom, binding)
             effect == [atom |-> a, neg |-> e.literal.neg,
                        cond |-> [time \in 1..3 |-> Range(Instantiated(e.conditions[time], binding, fluents))]]
         IN  IF a \in fluents THEN <<effect>> ELSE <<>>

InstantiateEffects(t, effects, binding, fluents) ==
    FlattenSeq([k \in DOMAIN effects |->
        LET tuples == ObjectTuples(t.objects, effects[k].params)
        IN  FlattenSeq([j \in DOMAIN tuples |->
                InstantiateEffect(effects[k], Binding(effects[k].params, tuples[j]) @@ binding,
                                  fluents, Range(t.facts))])])

\* Action.instantiate, and the sorting of effects by PropositionalDurativeAction.
InstantiateUnder(t, i, binding, fluents) ==
    LET a == t.actions[i]
        effects == [time \in 1..2 |-> InstantiateEffects(t, a.effects[time], binding, fluents)]
        entry(e) == [cond |-> e.cond, atom |-> e.atom]
        chosen(time, neg) == SelectSeq(effects[time], LAMBDA e : e.neg = neg)
        entries(neg) == [time \in 1..2 |-> [k \in DOMAIN chosen(time, neg) |-> entry(chosen(time, neg)[k])]]
    IN  IF \E time \in 1..3 : IsImpossible(a.conditions[time], binding, fluents, Range(t.facts)) THEN <<>>
        ELSE <<[name |-> <<a.name, [k \in DOMAIN a.params |-> binding[a.params[k][2]]]>>,
                conditions |-> [time \in 1..3 |-> Range(Instantiated(a.conditions[time], binding, fluents))],
                add |-> entries(FALSE), del |-> entries(TRUE)]>>

\* Axiom.instantiate.
InstantiateAxiom(t, i, binding, fluents) ==
    LET x == t.axioms[i]
    IN  IF IsImpossible(x.condition, binding, fluents, Range(t.facts)) THEN <<>>
        ELSE <<[effect |-> [atom |-> Substitute([pred |-> x.name, args |-> VariablesIn(x.params)], binding), neg |-> FALSE],
                condition |-> Instantiated(x.condition, binding, fluents)]>>

\* One for every atom of the model.
InstantiateActions(t, model, fluents) ==
    FlattenSeq([i \in DOMAIN t.actions |->
        LET atoms == SelectSeq(model, LAMBDA a : a.pred = ActionAtom(t, i).pred)
        IN  FlattenSeq([k \in DOMAIN atoms |->
                InstantiateUnder(t, i, Binding(ActionParams(t.actions[i]), atoms[k].args), fluents)])])

InstantiateAxioms(t, model, fluents) ==
    FlattenSeq([i \in DOMAIN t.axioms |->
        LET atoms == SelectSeq(model, LAMBDA a : a.pred = AxiomAtom(t, i).pred)
        IN  FlattenSeq([k \in DOMAIN atoms |->
                InstantiateAxiom(t, i, Binding(AxiomParams(t.axioms[i]), atoms[k].args), fluents)])])

\* get_fluent_facts.
FluentFacts(t, model) == {a \in Range(model) : a.pred \in FluentPredicates(t)}
=============================================================================
