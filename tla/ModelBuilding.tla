--------------------------- MODULE ModelBuilding ---------------------------
(***************************************************************************)
(* How the translator finds what is reachable (downward/translate/         *)
(* build_model.py): the rules of the logic program are indexed by their    *)
(* conditions, and every fact, taken from a queue in the order the facts   *)
(* were found, is matched with the conditions and fires the rules whose    *)
(* other conditions are matched by facts found before.                     *)
(***************************************************************************)
EXTENDS LogicProgram

LOCAL INSTANCE SequencesExt

VARIABLES
    program,    \* the program as it was given
    todo,       \* its rules, normalized, that are not split yet
    names,      \* the number of the next predicate
    rules,      \* the rules that are split, compiled by convert_rules
    unifier,    \* predicate_to_rule_generator
    queue,      \* Queue.queue: the model found so far
    position,   \* Queue.queue_pos
    atom,       \* next_atom
    matches,    \* what is left of matches: pairs <<rule, condition>>
    index       \* the facts every condition has been matched with

explorationVars == <<program, todo, names, rules, unifier, queue, position, atom, matches, index>>

----------------------------------------------------------------------------
(* convert_rules                                                           *)

\* variables_to_numbers.
WithNumbers(rule) ==
    LET effect == rule.effect.args
        number(t) == CHOOSE i \in DOMAIN effect : effect[i] = t
        converted(t) == IF IsVariable(t) /\ t \in Range(effect) THEN <<"#", number(t)>> ELSE t
        atoms(a) == [a EXCEPT !.args = [j \in DOMAIN @ |-> converted(@[j])]]
    IN  Typed(rule.type, [c \in DOMAIN rule.conditions |-> atoms(rule.conditions[c])], atoms(rule.effect))

Positions(a) == {t \in Args(a) : IsPosition(t)}
Unknowns(a) == {t \in Args(a) : IsPosition(t) \/ IsVariable(t)}

\* validate, of the three classes of rules.
IsValid(rule) ==
    LET unknowns == [c \in DOMAIN rule.conditions |-> Unknowns(rule.conditions[c])]
        all == UNION Range(unknowns)
        ofEffect == Unknowns(rule.effect)
    IN  CASE rule.type = "project" -> Len(rule.conditions) = 1
          [] rule.type = "join" ->
               /\ Len(rule.conditions) = 2
               /\ unknowns[1] \cap unknowns[2] # {}
               /\ all = (unknowns[1] \cap unknowns[2]) \cup ofEffect
          [] rule.type = "product" ->
               /\ Len(rule.conditions) >= 2
               /\ Cardinality(all) = Cardinality(ofEffect)
               /\ Cardinality(all) = SumFunction([c \in DOMAIN unknowns |-> Cardinality(unknowns[c])])

----------------------------------------------------------------------------
(* Unifier: a tree of generators per predicate.  A leaf has matches only;  *)
(* another one looks at one argument of the fact.                          *)

Leaf(found) == [matches |-> found]
IsLeaf(generator) == "index" \notin DOMAIN generator
Branching(found, i, branch, next) == [matches |-> found, index |-> i, branch |-> branch, next |-> next]

\* LeafGenerator._insert: one generator per argument, the first outermost.
RECURSIVE Chain(_, _)
Chain(args, value) ==
    IF args = <<>> THEN Leaf(<<value>>)
    ELSE Branching(<<>>, Head(args)[1], Head(args)[2] :> Chain(Tail(args), value), Leaf(<<>>))

LeafInsert(leaf, args, value) ==
    IF args = <<>> THEN Leaf(Append(leaf.matches, value))
    ELSE [Chain(args, value) EXCEPT !.matches = leaf.matches]

\* _insert, of both classes: args are the objects of a condition, with their
\* places.  A generator of an earlier argument drops the first of them.
RECURSIVE Insert(_, _, _)
Insert(generator, args, value) ==
    IF IsLeaf(generator) THEN LeafInsert(generator, args, value)
    ELSE IF args = <<>> THEN [generator EXCEPT !.matches = Append(@, value)]
    ELSE LET place == Head(args)[1]
             object == Head(args)[2]
             known == object \in DOMAIN generator.branch
             branch == IF known THEN generator.branch[object] ELSE Leaf(<<>>)
         IN  CASE generator.index < place ->
                    [generator EXCEPT !.next = Insert(@, Tail(args), value)]
               [] generator.index > place ->
                    Branching(<<>>, place, object :> LeafInsert(Leaf(<<>>), Tail(args), value), generator)
               [] generator.index = place ->
                    [generator EXCEPT !.branch = (object :> Insert(branch, Tail(args), value)) @@ @]

\* generate.
RECURSIVE Generate(_, _)
Generate(generator, fact) ==
    IF IsLeaf(generator) THEN generator.matches
    ELSE LET value == fact.args[generator.index]
         IN  generator.matches
               \o (IF value \in DOMAIN generator.branch THEN Generate(generator.branch[value], fact) ELSE <<>>)
               \o Generate(generator.next, fact)

\* _insert_condition.
Objects(condition) ==
    SelectSeq([j \in DOMAIN condition.args |-> <<j, condition.args[j]>>],
              LAMBDA p : ~IsPosition(p[2]) /\ ~IsVariable(p[2]))

InsertCondition(generators, value, condition) ==
    LET root == IF condition.pred \in DOMAIN generators THEN generators[condition.pred] ELSE Leaf(<<>>)
    IN  (condition.pred :> Insert(root, Objects(condition), value)) @@ generators

RECURSIVE InsertAll(_, _, _)
InsertAll(generators, compiled, places) ==
    IF places = <<>> THEN generators
    ELSE LET r == Head(places)[1]
             c == Head(places)[2]
         IN  InsertAll(InsertCondition(generators, <<r, c>>, compiled[r].conditions[c]), compiled, Tail(places))

MakeUnifier(compiled) ==
    InsertAll(<<>>, compiled,
              FlattenSeq([r \in DOMAIN compiled |-> [c \in DOMAIN compiled[r].conditions |-> <<r, c>>]]))

Unify(fact) == IF fact.pred \in DOMAIN unifier THEN Generate(unifier[fact.pred], fact) ELSE <<>>

----------------------------------------------------------------------------
(* Firing a rule                                                           *)

\* prepare_effect and what the loops over other conditions write.
Bind(effect, condition, fact) ==
    LET bound(i) == {j \in DOMAIN condition.args : condition.args[j] = <<"#", i>>}
    IN  [effect EXCEPT !.args = [i \in DOMAIN @ |->
            IF bound(i) = {} THEN @[i] ELSE fact.args[CHOOSE j \in bound(i) : TRUE]]]

\* JoinRule: the positions both conditions have (common_var_positions).
SameKey(rule, c, fact, other) ==
    \A t \in Positions(rule.conditions[1]) \cap Positions(rule.conditions[2]) :
        \A i \in DOMAIN rule.conditions[c].args, j \in DOMAIN rule.conditions[3 - c].args :
            rule.conditions[c].args[i] = t /\ rule.conditions[3 - c].args[j] = t
                => fact.args[i] = other.args[j]

\* ProductRule._fire: every choice of facts for the conditions from place on.
RECURSIVE Products(_, _, _, _, _)
Products(rule, c, place, effect, found) ==
    IF place > Len(rule.conditions) THEN <<effect>>
    ELSE IF place = c THEN Products(rule, c, place + 1, effect, found)
    ELSE FlattenSeq([i \in DOMAIN found[place] |->
            Products(rule, c, place + 1, Bind(effect, rule.conditions[place], found[place][i]), found)])

\* fire: what is enqueued, given the facts found for the conditions.
Fired(rule, c, fact, found) ==
    LET effect == Bind(rule.effect, rule.conditions[c], fact)
        partners == SelectSeq(found[3 - c], LAMBDA other : SameKey(rule, c, fact, other))
    IN  CASE rule.type = "project" -> <<effect>>
          [] rule.type = "join" ->
               [i \in DOMAIN partners |-> Bind(effect, rule.conditions[3 - c], partners[i])]
          [] rule.type = "product" -> Products(rule, c, 1, effect, found)

\* Queue.push.
RECURSIVE Push(_, _)
Push(known, facts) ==
    IF facts = <<>> THEN known
    ELSE Push(IF Head(facts) \in Range(known) THEN known ELSE Append(known, Head(facts)), Tail(facts))

----------------------------------------------------------------------------
(* compute_model                                                           *)

InitExploration ==
    /\ program = [facts |-> <<>>, rules |-> <<>>]
    /\ todo = <<>>
    /\ names = 0
    /\ rules = <<>>
    /\ unifier = <<>>
    /\ queue = <<>>
    /\ position = 0
    /\ atom = [pred |-> "", args |-> <<>>]
    /\ matches = <<>>
    /\ index = <<>>

\* PrologProgram.normalize.
StartExploration(p) ==
    /\ program' = p
    /\ \E normal \in {Normalized(p)} : todo' = normal.rules /\ queue' = normal.facts
    /\ UNCHANGED <<names, rules, unifier, position, atom, matches, index>>

\* split_rules and convert_rules, for the next rule.
AddSplit(split) ==
    /\ names' = split.next
    /\ rules' = rules \o [r \in DOMAIN split.rules |-> WithNumbers(split.rules[r])]

SplitNext ==
    /\ todo # <<>>
    /\ AddSplit(SplitRule(Head(todo), names))
    /\ todo' = Tail(todo)
    /\ UNCHANGED <<program, unifier, queue, position, atom, matches, index>>

Unifier ==
    /\ todo = <<>>
    /\ Len(index) < Len(rules)
    /\ unifier' = MakeUnifier(rules)
    /\ index' = [r \in DOMAIN rules |-> [c \in DOMAIN rules[r].conditions |-> <<>>]]
    /\ UNCHANGED <<program, todo, names, rules, queue, position, atom, matches>>

IsCompiled == todo = <<>> /\ Len(index) = Len(rules)

Pop ==
    /\ IsCompiled
    /\ matches = <<>>
    /\ position < Len(queue)
    /\ position' = position + 1
    /\ atom' = queue[position']
    /\ matches' = Unify(atom')
    /\ UNCHANGED <<program, todo, names, rules, unifier, queue, index>>

\* Mutant: the rule is fired before the fact is indexed.
IndexLater(r, c) == index

\* update_index.
UpdatedIndex(r, c) ==
    IF rules[r].type = "project" THEN index ELSE [index EXCEPT ![r][c] = Append(@, atom)]

Fire ==
    /\ matches # <<>>
    /\ LET r == Head(matches)[1]
           c == Head(matches)[2]
           found == UpdatedIndex(r, c)
       IN  /\ index' = found
           /\ queue' = Push(queue, Fired(rules[r], c, atom, found[r]))
    /\ matches' = Tail(matches)
    /\ UNCHANGED <<program, todo, names, rules, unifier, position, atom>>

Explore == SplitNext \/ Unifier \/ Pop \/ Fire

IsExplored == IsCompiled /\ matches = <<>> /\ position = Len(queue)

----------------------------------------------------------------------------
(* Properties                                                              *)

Ground(a, value) == [a EXCEPT !.args = [j \in DOMAIN @ |-> IF IsVariable(@[j]) THEN value[@[j]] ELSE @[j]]]

\* What follows from a set of facts by the rules as they were given.
Consequences(p, facts) ==
    UNION {LET rule == p.rules[r]
               values == [Variables(rule.effect) \cup VariablesOf(rule.conditions) -> ObjectsOf(p.facts)]
           IN  {Ground(rule.effect, value) : value \in
                  {v \in values : \A c \in DOMAIN rule.conditions : Ground(rule.conditions[c], v) \in facts}} :
           r \in DOMAIN p.rules}

RECURSIVE Closure(_, _)
Closure(p, facts) ==
    LET more == facts \cup Consequences(p, facts)
    IN  IF more = facts THEN facts ELSE Closure(p, more)

LeastModel(p) == Closure(p, Range(p.facts))

\* Everything that follows from the facts by the rules of the task is found,
\* although the rules that are applied are others and every fact is only
\* matched once (compute_model): no operator that can be reached is lost.  Nor
\* does an assertion of the rules fail (validate).
ModelIsComplete ==
    IsExplored => (\A r \in DOMAIN rules : IsValid(rules[r])) /\ LeastModel(program) \subseteq Range(queue)
=============================================================================
