----------------------------- MODULE AxiomRules -----------------------------
(***************************************************************************)
(* What the translator does with the grounded rules of derived atoms       *)
(* (downward/translate/axiom_rules.py, handle_axioms): it finds the        *)
(* literals that are needed, drops what is superfluous or constant, makes  *)
(* rules for what is needed negatively, and puts the atoms into layers.    *)
(*                                                                         *)
(* A rule is [effect, condition] with a literal and a sequence of them.    *)
(* Lists whose order is that of a Python set are taken in any order.       *)
(***************************************************************************)
EXTENDS LogicProgram

LOCAL INSTANCE SequencesExt

VARIABLES
    axioms,       \* the rules
    literals,     \* necessary_literals
    pending,      \* the queue of the step that is under way
    counter,      \* condition_counter
    alive,        \* the rules that can still trigger (new_axioms)
    trueAtoms, falseAtoms,  \* atoms that are constant
    axiomInit,    \* atoms that are true unless a rule says otherwise
    layers,       \* the layer of every atom
    axiomStage    \* the step that comes next

axiomVars == <<axioms, literals, pending, counter, alive, trueAtoms, falseAtoms, axiomInit, layers, axiomStage>>

Pos(a) == [atom |-> a, neg |-> FALSE]
Neg(a) == [atom |-> a, neg |-> TRUE]
Negate(l) == [l EXCEPT !.neg = ~@]
AtomsOf(lits) == {l.atom : l \in lits}
Heads(rules) == {rules[i].effect.atom : i \in DOMAIN rules}
ConditionsOf(rules) == UNION {Range(rules[i].condition) : i \in DOMAIN rules}

\* axioms_by_atom.
ByAtom(rules, a) == SelectSeq(rules, LAMBDA r : r.effect.atom = a)

----------------------------------------------------------------------------
(* compute_necessary_axiom_literals                                        *)

\* register_literals.
Registered(lits, negated, heads) ==
    {IF negated THEN Negate(l) ELSE l : l \in {k \in lits : k.atom \in heads}}

\* What the goal and the operators need: delete effects negate their conditions.
Needed(task) ==
    LET heads == Heads(task.axioms)
        effectConditions(o, kind) == UNION {UNION Range(e.cond) : e \in UNION {Range(o[kind][time]) : time \in 1..2}}
    IN  Registered(task.goal, FALSE, heads)
          \cup UNION {Registered(UNION Range(o.conditions) \cup effectConditions(o, "add"), FALSE, heads)
                        \cup Registered(effectConditions(o, "del"), TRUE, heads) : o \in Range(task.ops)}

InitAxioms ==
    /\ axioms = <<>>
    /\ literals = {}
    /\ pending = {}
    /\ counter = <<>>
    /\ alive = {}
    /\ trueAtoms = {}
    /\ falseAtoms = {}
    /\ axiomInit = {}
    /\ layers = <<>>
    /\ axiomStage = "waiting"

StartAxioms(task) ==
    /\ axioms' = task.axioms
    /\ literals' = Needed(task)
    /\ pending' = literals'
    /\ axiomStage' = "necessary"
    /\ UNCHANGED <<counter, alive, trueAtoms, falseAtoms, axiomInit, layers>>

RegisterConditions ==
    /\ axiomStage = "necessary"
    /\ \E l \in pending :
          LET new == Registered(ConditionsOf(ByAtom(axioms, l.atom)), l.neg, Heads(axioms)) \ literals
          IN  /\ literals' = literals \cup new
              /\ pending' = (pending \ {l}) \cup new
    /\ UNCHANGED <<axioms, counter, alive, trueAtoms, falseAtoms, axiomInit, layers, axiomStage>>

----------------------------------------------------------------------------
(* simplify_axioms                                                         *)

\* remove_duplicates: of equal neighbours.
RemoveDuplicates(lits) ==
    LET kept == SelectSeq([i \in DOMAIN lits |-> i], LAMBDA i : i = 1 \/ lits[i] # lits[i - 1])
    IN  [k \in DOMAIN kept |-> lits[kept[k]]]

\* The rules rule i dominates, as far as byLiteral still tells.
Dominated(rules, i, byLiteral) ==
    {k \in DOMAIN rules : \A l \in Range(rules[i].condition) : k \in byLiteral[l]}

\* The loop that removes dominated rules: &= also narrows what is known of the
\* first literal of the rule.
RECURSIVE Skipped(_, _, _, _)
Skipped(rules, i, byLiteral, skip) ==
    IF i > Len(rules) THEN skip
    ELSE IF i \in skip THEN Skipped(rules, i + 1, byLiteral, skip)
    ELSE LET dominated == Dominated(rules, i, byLiteral)
         IN  Skipped(rules, i + 1, [byLiteral EXCEPT ![rules[i].condition[1]] = dominated],
                     skip \cup (dominated \ {i}))

WithoutDominated(rules) ==
    LET byLiteral == [l \in ConditionsOf(rules) |-> {i \in DOMAIN rules : l \in Range(rules[i].condition)}]
        skip == Skipped(rules, 1, byLiteral, {})
        kept == SelectSeq([i \in DOMAIN rules |-> i], LAMBDA i : i \notin skip)
    IN  [k \in DOMAIN kept |-> rules[kept[k]]]

\* simplify: a rule without conditions dominates all others.
Simplify(rules) ==
    LET trivial == SelectSeq(rules, LAMBDA r : r.condition = <<>>)
    IN  IF trivial # <<>> THEN <<Head(trivial)>>
        ELSE WithoutDominated([i \in DOMAIN rules |-> [rules[i] EXCEPT !.condition = RemoveDuplicates(@)]])

\* Conditions are sorted by where their literals are stored: in either order.
Sorted(lits, reversed) == IF reversed THEN Reverse(lits) ELSE lits

SimplifyAll(sorted, atoms) == FlattenSeq([i \in DOMAIN atoms |-> Simplify(ByAtom(sorted, atoms[i]))])

\* get_axiom_init and simplify_axioms.
SimplifyAxioms ==
    /\ axiomStage = "necessary"
    /\ pending = {}
    /\ axiomInit' = {a \in Heads(axioms) : Pos(a) \notin literals /\ Neg(a) \in literals}
    /\ \E reversed \in BOOLEAN :
          axioms' = SimplifyAll([i \in DOMAIN axioms |-> [axioms[i] EXCEPT !.condition = Sorted(@, reversed)]],
                                Listed(AtomsOf(literals)))
    /\ axiomStage' = "simplified"
    /\ UNCHANGED <<literals, pending, counter, alive, trueAtoms, falseAtoms, layers>>

----------------------------------------------------------------------------
(* compute_constant_axioms                                                 *)

EffectsOf(indices) == {axioms[i].effect.atom : i \in indices}

CountConditions ==
    /\ axiomStage = "simplified"
    /\ alive' = DOMAIN axioms
    /\ counter' = [i \in DOMAIN axioms |-> Cardinality(Range(axioms[i].condition))]
    /\ trueAtoms' = EffectsOf({i \in DOMAIN axioms : axioms[i].condition = <<>>})
    /\ pending' = {Pos(a) : a \in trueAtoms'}
    /\ axiomStage' = "constants"
    /\ UNCHANGED <<axioms, literals, falseAtoms, axiomInit, layers>>

Has(i, l) == l \in Range(axioms[i].condition)

\* Atoms all of whose rules have been removed.
LastRuleFailed(never, rest) == EffectsOf(never) \ EffectsOf(rest)

\* A literal that is true: rules with all conditions true, and rules with one
\* that is false.
PropagateConstant ==
    /\ axiomStage = "constants"
    /\ \E l \in pending :
          LET fired == EffectsOf({i \in DOMAIN axioms : Has(i, l) /\ counter[i] = 1}) \ trueAtoms
              never == {i \in alive : Has(i, Negate(l))}
              dead == LastRuleFailed(never, alive \ never)
          IN  /\ counter' = [i \in DOMAIN axioms |-> counter[i] - (IF Has(i, l) THEN 1 ELSE 0)]
              /\ alive' = alive \ never
              /\ trueAtoms' = trueAtoms \cup fired
              /\ falseAtoms' = falseAtoms \cup dead
              /\ pending' = (pending \ {l}) \cup {Pos(a) : a \in fired} \cup {Neg(a) : a \in dead}
    /\ UNCHANGED <<axioms, literals, axiomInit, layers, axiomStage>>

Open(a) == a \notin trueAtoms \cup falseAtoms

RemoveConstants ==
    /\ axiomStage = "constants"
    /\ pending = {}
    /\ LET kept == SelectSeq([i \in DOMAIN axioms |-> i],
                             LAMBDA i : i \in alive /\ axioms[i].effect.atom \notin trueAtoms)
           conditions(i) == Range(axioms[i].condition) \ {Pos(a) : a \in trueAtoms}
       IN  axioms' = [k \in DOMAIN kept |-> [axioms[kept[k]] EXCEPT !.condition = Listed(conditions(kept[k]))]]
    /\ literals' = {l \in literals : Open(l.atom)}
    /\ axiomInit' = {a \in axiomInit : Open(a)}
    /\ axiomStage' = "constant"
    /\ UNCHANGED <<pending, counter, alive, trueAtoms, falseAtoms, layers>>

----------------------------------------------------------------------------
(* compute_negative_axioms                                                 *)

\* The conditions of which each rule has one that fails.
RECURSIVE Refutations(_, _)
Refutations(rules, result) ==
    IF rules = <<>> THEN result
    ELSE LET condition == Head(rules).condition
         IN  Refutations(Tail(rules), FlattenSeq([k \in DOMAIN condition |->
                            [r \in DOMAIN result |-> Append(result[r], Negate(condition[k]))]]))

\* negate.
NegateRules(rules, a) ==
    LET result == Refutations(rules, <<<<>>>>)
    IN  Simplify([k \in DOMAIN result |-> [effect |-> Neg(a), condition |-> result[k]]])

RulesFor(l) == IF l.neg THEN NegateRules(ByAtom(axioms, l.atom), l.atom) ELSE ByAtom(axioms, l.atom)

NegateAxioms ==
    /\ axiomStage = "constant"
    /\ LET needed == Listed(literals)
       IN  axioms' = FlattenSeq([k \in DOMAIN needed |-> RulesFor(needed[k])])
    /\ axiomStage' = "negated"
    /\ UNCHANGED <<literals, pending, counter, alive, trueAtoms, falseAtoms, axiomInit, layers>>

----------------------------------------------------------------------------
(* compute_axiom_layers                                                    *)

NoAxiom == -1
UnknownLayer == -2
FirstMarker == -3

\* depends_on: for atoms that rules change from what they are at first, the
\* atoms of the conditions, with 1 if the condition is what they are at first.
DependsOn(rules, init) ==
    LET deciding == {i \in DOMAIN rules : rules[i].effect.neg = (rules[i].effect.atom \in init)}
        bonus(c) == IF c.neg = (c.atom \notin init) THEN 1 ELSE 0
    IN  [a \in {rules[i].effect.atom : i \in deciding} |->
            {<<c.atom, bonus(c)>> : c \in ConditionsOf([i \in {k \in deciding : rules[k].effect.atom = a} |-> rules[i]])}]

\* Mutant: what a negated condition needs is in the same layer.
NoBonus(s, layer, bonus) == IF s.layer > layer THEN s.layer ELSE layer

HigherLayer(s, layer, bonus) == IF s.layer + bonus > layer THEN s.layer + bonus ELSE layer

\* find_level.  Its state s: layers, whether a negative cycle was found, and
\* the layer it returns; order is the order atoms are looked at.
RECURSIVE FindLevel(_, _, _, _, _), FindLevels(_, _, _, _, _)
FindLevel(s, depends, order, a, marker) ==
    LET known == IF a \in DOMAIN s.layers THEN s.layers[a] ELSE NoAxiom
        conditions == SortSeq(Listed(depends[a]), LAMBDA c, d :
                          IF c[1] = d[1] THEN c[2] < d[2] ELSE order[c[1]] < order[d[1]])
    IN  CASE known \in {NoAxiom, marker} -> [s EXCEPT !.layer = 0]
          [] known <= FirstMarker /\ known # marker -> [s EXCEPT !.cyclic = TRUE, !.layer = 0]
          [] known = UnknownLayer ->
               FindLevels([s EXCEPT !.layers[a] = marker, !.layer = 0], depends, order, <<a, marker>>, conditions)
          [] known >= 0 -> [s EXCEPT !.layer = known]

\* The loop over the conditions of an atom; s.layer is the highest so far.
FindLevels(s, depends, order, at, conditions) ==
    IF conditions = <<>> THEN [s EXCEPT !.layers[at[1]] = s.layer]
    ELSE LET bonus == Head(conditions)[2]
             found == FindLevel(s, depends, order, Head(conditions)[1], at[2] - bonus)
         IN  FindLevels([found EXCEPT !.layer = HigherLayer(found, s.layer, bonus)],
                        depends, order, at, Tail(conditions))

RECURSIVE FindAll(_, _, _, _)
FindAll(s, depends, order, atoms) ==
    IF atoms = <<>> THEN s
    ELSE FindAll(FindLevel(s, depends, order, Head(atoms), FirstMarker), depends, order, Tail(atoms))

Layering(depends, order) ==
    FindAll([layers |-> [a \in DOMAIN depends |-> UnknownLayer], cyclic |-> FALSE, layer |-> 0],
            depends, order, SortSeq(Listed(DOMAIN depends), LAMBDA a, b : order[a] < order[b]))

AddLayers(found) ==
    /\ layers' = found.layers
    /\ axiomStage' = IF found.cyclic THEN "aborted" ELSE "done"

\* A dictionary lists the atoms in any order: here in one or its reverse.
Orders(atoms) ==
    LET listed == Listed(atoms)
    IN  {[a \in atoms |-> sign * CHOOSE i \in DOMAIN listed : listed[i] = a] : sign \in {1, -1}}

ComputeLayers ==
    /\ axiomStage = "negated"
    /\ \E order \in Orders(Heads(axioms) \cup AtomsOf(ConditionsOf(axioms))) :
          AddLayers(Layering(DependsOn(axioms, axiomInit), order))
    /\ UNCHANGED <<axioms, literals, pending, counter, alive, trueAtoms, falseAtoms, axiomInit>>

HandleAxioms ==
    \/ RegisterConditions
    \/ SimplifyAxioms
    \/ CountConditions
    \/ PropagateConstant
    \/ RemoveConstants
    \/ NegateAxioms
    \/ ComputeLayers
=============================================================================
