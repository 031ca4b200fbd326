---------------------------- MODULE TemporalTask ----------------------------
(***************************************************************************)
(* A grounded temporal planning task, as the search reads it               *)
(* (downward/search/operator.cpp, state.h, axioms.cpp): variables, durative *)
(* operators with conditions and effects at start, over all and at end,    *)
(* and rules of derived variables.                                         *)
(***************************************************************************)
EXTENDS Integers, FiniteSets, Sequences

CONSTANTS
    Var, Val,      \* state variables (numbered) and their values
    Op,            \* the grounded operators
    Name,          \* per operator: those that one was split into share it
    Duration,      \* per operator
    PrevailStart, PrevailOverall, PrevailEnd,  \* per operator, its conditions
    EffectStart, EffectEnd,  \* per operator, its effects
    ModuleEffectEnd,         \* per operator, the effects of modules at its end
    Axiom,         \* rules of the derived variables
    InitialValue,
    Goal

Condition == [var : Var, prev : Val]
Effect == [var : Var, pre : Val \cup {-1}, post : Val,
           start : SUBSET Condition, overall : SUBSET Condition, end : SUBSET Condition]
Derived == {a.head : a \in Axiom}

ASSUME TaskAssumption ==
    /\ Var \subseteq Nat
    /\ Val \subseteq Nat
    /\ {0, 1} \subseteq Val
    /\ IsFiniteSet(Op)
    /\ Duration \in [Op -> Nat]
    /\ PrevailStart \in [Op -> SUBSET Condition]
    /\ PrevailOverall \in [Op -> SUBSET Condition]
    /\ PrevailEnd \in [Op -> SUBSET Condition]
    /\ EffectStart \in [Op -> SUBSET Effect]
    /\ EffectEnd \in [Op -> SUBSET Effect]
    /\ ModuleEffectEnd \in [Op -> SUBSET Effect]
    /\ \A o \in Op : IsFiniteSet(EffectEnd[o]) /\ IsFiniteSet(ModuleEffectEnd[o])
    /\ Axiom \subseteq [head : Var, body : SUBSET Condition]
    /\ InitialValue \in [Var -> Val]
    /\ Goal \subseteq Condition

\* The one layer of rules that Evaluate is about.
ASSUME LayerAssumption == \A a \in Axiom : \A c \in a.body : c.var \notin Derived

Holds(conds, value) == \A c \in conds : value[c.var] = c.prev

\* The axiom evaluator, for one layer of rules over the other variables.
Evaluate(value) ==
    [x \in Var |-> IF x \notin Derived THEN value[x]
                   ELSE IF \E a \in Axiom : a.head = x /\ Holds(a.body, value) THEN 1 ELSE 0]

\* The values after the effects of a set that fire at the start of an operator.
StartOutcome(effects, value) ==
    LET fired == {e \in effects : Holds(e.start, value)}
    IN  [x \in Var |-> IF \E e \in fired : e.var = x
                       THEN (CHOOSE e \in fired : e.var = x).post ELSE value[x]]

\* The conditions and effects at the start of o allow it in these values.
Startable(o, value) ==
    /\ Holds(PrevailStart[o], value)
    /\ \A e \in EffectStart[o] : e.pre \in {-1, value[e.var]}

Least(S) == CHOOSE i \in S : \A j \in S : i <= j
=============================================================================
