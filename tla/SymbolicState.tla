---------------------------- MODULE SymbolicState ----------------------------
(***************************************************************************)
(* SymbolicState (src/symbolicState.cpp): the state the state creators     *)
(* fill and the executive writes into problem files.  It keeps the type    *)
(* hierarchy transitively closed, lists every object under all its types,  *)
(* and has Boolean, numerical and object fluents and announced events.     *)
(*                                                                         *)
(* The state creators are the callers.  They keep to the comments in       *)
(* symbolicState.h where they add something: all super types of a type are *)
(* defined before its objects, and fluents and events are about objects    *)
(* that were added.  What they remove they remove at any time.             *)
(* addSuperType takes one step per round of its loop, everything else is   *)
(* one step.                                                               *)
(*                                                                         *)
(* The goal is a SymbolicState of its own that the goal creators fill once *)
(* and only reading operations touch, so that goals are constants here.    *)
(***************************************************************************)
EXTENDS FiniteSets, Integers

CONSTANTS
    Type, Object, None,
    Predicate,    \* names with parameters, of truth values and numbers
    Numerical,    \* those of them that have numbers
    Fluent,       \* names with parameters, of objects
    Parameters,   \* the parameters of each of them
    Value, False, \* the truth values
    Number,       \* the numbers, in 1/100000
    Goals,        \* the goals that are asked for
    Event,        \* FutureEvents
    EventSets,    \* the predicates and numbers each of them sets, and to what
    EventAssigns, \* the object fluents each of them sets, and to what
    MaxDeclared,  \* bound on the pairs of types given to addSuperType
    MaxAdded,     \* bound on the types and objects given to addObject at a time
    MaxSaid       \* bound on the fluents set and events announced at a time

\* What setBooleanPredicate or setNumericalFluent may give to p.
ValuesOf(p) == IF p \in Numerical THEN Number ELSE Value

Valuation == {f \in [Predicate -> Value \cup Number \cup {None}] :
                 \A p \in Predicate : f[p] \in ValuesOf(p) \cup {None}}

ASSUME SymbolicAssumption ==
    /\ Parameters \in [Predicate \cup Fluent -> SUBSET Object]
    /\ \A e \in Event :
          /\ DOMAIN EventSets[e] \subseteq Predicate
          /\ \A p \in DOMAIN EventSets[e] : EventSets[e][p] \in ValuesOf(p)
          /\ DOMAIN EventAssigns[e] \subseteq Fluent
          /\ \A p \in DOMAIN EventAssigns[e] : EventAssigns[e][p] \in Object
    /\ None \notin Object \cup Value \cup Number
    /\ False \in Value
    /\ False \notin Object \cup Number
    /\ Numerical \subseteq Predicate
    /\ Predicate \cap Fluent = {}
    /\ Number \subseteq Nat
    /\ MaxDeclared \in Nat
    /\ MaxAdded \in Nat
    /\ MaxSaid \in Nat

\* A goal: values of predicates and fluents, statements about all objects of a
\* type, the objects it was told of, and the literals of a goal that was given
\* as a string.
ASSUME GoalAssumption ==
    \A g \in Goals :
        /\ \A p \in Predicate : g.predicates[p] \in ValuesOf(p) \cup {None}
        /\ \A p \in Fluent : g.fluents[p] \in Object \cup {None}
        /\ \A s \in g.forEach : s.about \in [Object -> Predicate \ Numerical] /\ s.value \in Value
        /\ g.objects \subseteq Type \X Object
        /\ g.direct = {} \/ g.forEach = {}

VARIABLES
    queue,         \* of addSuperType: pairs that may be new
    superTypes,    \* _superTypes
    typedObjects,  \* _typedObjects
    predicates,    \* _booleanPredicates and _numericalFluents
    objectFluents, \* _objectFluents
    events         \* _expectedFutureEvents

\* History variables: what the callers have said.
VARIABLES
    declared,      \* the pairs of types given to addSuperType
    added,         \* the types and objects given to addObject, less what was removed
    leftBehind     \* the objects that were removed while something spoke of them

fluentVars == <<predicates, objectFluents, events>>
vars == <<queue, superTypes, typedObjects, fluentVars, declared, added, leftBehind>>

TypeOK ==
    /\ queue \subseteq Type \X Type
    /\ superTypes \subseteq Type \X Type
    /\ typedObjects \subseteq Type \X Object
    /\ predicates \in Valuation
    /\ objectFluents \in [Fluent -> Object \cup {None}]
    /\ events \subseteq Event
    /\ declared \subseteq Type \X Type
    /\ added \subseteq Type \X Object
    /\ leftBehind \subseteq Object

Init ==
    /\ queue = {}
    /\ superTypes = {}
    /\ typedObjects = {}
    /\ predicates = [p \in Predicate |-> None]
    /\ objectFluents = [p \in Fluent |-> None]
    /\ events = {}
    /\ declared = {}
    /\ added = {}
    /\ leftBehind = {}

\* No call is going on.
Idle == queue = {}

----------------------------------------------------------------------------
(* Types and objects                                                       *)

\* addSuperType is called: no object of the type was added before, unless the
\* same was declared before.
AddSuperType(type, supertype) ==
    /\ Idle
    /\ \/ \A o \in Object : <<type, o>> \notin typedObjects
       \/ <<type, supertype>> \in declared
    /\ Cardinality(declared \cup {<<type, supertype>>}) <= MaxDeclared
    /\ queue' = {<<type, supertype>>, <<type, type>>, <<supertype, supertype>>}
    /\ declared' = declared \cup {<<type, supertype>>}
    /\ UNCHANGED <<superTypes, typedObjects, fluentVars, added, leftBehind>>

\* Mutant of Consequences: only what is above the super type.
ConsequencesAbove(pair, S) ==
    {<<pair[1], st>> : st \in {s \in Type : <<pair[2], s>> \in S}}

\* What follows from a new pair and the pairs in S.
Consequences(pair, S) ==
    {<<pair[1], st>> : st \in {s \in Type : <<pair[2], s>> \in S}} \cup
    {<<t, pair[2]>> : t \in {s \in Type : <<s, pair[1]>> \in S}}

\* Mutant of ClosePair: it is not tested whether the pair is known.
ClosePairAgain(pair) ==
    /\ superTypes' = superTypes \cup {pair}
    /\ queue' = (queue \ {pair}) \cup Consequences(pair, superTypes')
    /\ UNCHANGED <<typedObjects, fluentVars, declared, added, leftBehind>>

\* One round of the loop in addSuperType.
ClosePair(pair) ==
    /\ IF pair \in superTypes
       THEN queue' = queue \ {pair} /\ UNCHANGED superTypes
       ELSE /\ superTypes' = superTypes \cup {pair}
            /\ queue' = (queue \ {pair}) \cup Consequences(pair, superTypes')
    /\ UNCHANGED <<typedObjects, fluentVars, declared, added, leftBehind>>

\* Mutant of EntriesFor: the super types are left out.
EntriesForType(obj, type) == {<<type, obj>>}

\* The entries for an object of a type: the type, and all its super types.
EntriesFor(obj, type) ==
    {<<st, obj>> : st \in {s \in Type : <<type, s>> \in superTypes}} \cup {<<type, obj>>}

AddObject(obj, type) ==
    /\ Idle
    /\ Cardinality(added \cup {<<type, obj>>}) <= MaxAdded
    /\ typedObjects' = typedObjects \cup EntriesFor(obj, type)
    /\ added' = added \cup {<<type, obj>>}
    /\ leftBehind' = leftBehind \ {obj}
    /\ UNCHANGED <<queue, superTypes, fluentVars, declared>>

\* Mutant of IsMostSpecificType: a type is a sub type of itself.
IsMostSpecificTypeStrict(obj, type) ==
    \A t \in Type : <<t, type>> \in superTypes => <<t, obj>> \notin typedObjects

IsMostSpecificType(obj, type) ==
    \A t \in Type : <<t, type>> \in superTypes /\ t # type => <<t, obj>> \notin typedObjects

\* The (:objects ...) section toPDDLProblem writes.
PDDLObjects == {x \in typedObjects : IsMostSpecificType(x[2], x[1])}

----------------------------------------------------------------------------
(* Fluents and events                                                      *)

KnownObjects == {o \in Object : \E t \in Type : <<t, o>> \in typedObjects}

\* Mutant of FluentsWithout: object fluents stay.
FluentsWithoutNone(obj) == objectFluents

\* The object fluents that do not have obj among their parameters.
FluentsWithout(obj) ==
    [p \in Fluent |-> IF obj \in Parameters[p] THEN None ELSE objectFluents[p]]

\* The same for predicates and numerical fluents.
PredicatesWithout(obj) ==
    [p \in Predicate |-> IF obj \in Parameters[p] THEN None ELSE predicates[p]]

\* The predicates and fluents that have a value.
Valued == {p \in Predicate : predicates[p] # None} \cup {p \in Fluent : objectFluents[p] # None}

\* The predicates and fluents an event will set, and the objects it is about.
Announced(e) == DOMAIN EventSets[e] \cup DOMAIN EventAssigns[e]
About(e) == {EventAssigns[e][p] : p \in DOMAIN EventAssigns[e]}
               \cup UNION {Parameters[p] : p \in Announced(e)}

\* The objects that object fluents have as values.
Assigned == {objectFluents[p] : p \in Fluent} \ {None}

\* removeObject: with removePredicates, whatever has the object as a parameter
\* loses its value.  Fluents that have it as their value, and events, stay.
RemoveObject(obj, removePredicates) ==
    /\ Idle
    /\ typedObjects' = {x \in typedObjects : x[2] # obj}
    /\ added' = {x \in added : x[2] # obj}
    /\ IF removePredicates
       THEN /\ predicates' = PredicatesWithout(obj)
            /\ objectFluents' = FluentsWithout(obj)
       ELSE UNCHANGED <<predicates, objectFluents>>
    /\ leftBehind' =
          IF removePredicates /\ obj \notin Assigned \cup UNION {About(e) : e \in events}
          THEN leftBehind
          ELSE leftBehind \cup {obj}
    /\ UNCHANGED <<queue, superTypes, events, declared>>

\* clear: the hierarchy and the events stay.
Clear ==
    /\ Idle
    /\ typedObjects' = {}
    /\ added' = {}
    /\ predicates' = [p \in Predicate |-> None]
    /\ objectFluents' = [p \in Fluent |-> None]
    /\ leftBehind' = leftBehind \cup UNION {About(e) : e \in events}
    /\ UNCHANGED <<queue, superTypes, events, declared>>

\* The bound leaves room for the fluents in P and the events in E.
MoreMayBeSaid(P, E) == Cardinality(Valued \cup P) + Cardinality(events \cup E) <= MaxSaid

\* setBooleanPredicate, setNumericalFluent.
SetPredicate(p, value) ==
    /\ Idle
    /\ MoreMayBeSaid({p}, {})
    /\ Parameters[p] \subseteq KnownObjects
    /\ predicates' = [predicates EXCEPT ![p] = value]
    /\ UNCHANGED <<queue, superTypes, typedObjects, objectFluents, events, declared, added,
                   leftBehind>>

SetObjectFluent(p, value) ==
    /\ Idle
    /\ MoreMayBeSaid({p}, {})
    /\ Parameters[p] \cup {value} \subseteq KnownObjects
    /\ objectFluents' = [objectFluents EXCEPT ![p] = value]
    /\ UNCHANGED <<queue, superTypes, typedObjects, predicates, events, declared, added,
                   leftBehind>>

AddFutureEvent(e) ==
    /\ Idle
    /\ MoreMayBeSaid({}, {e})
    /\ About(e) \subseteq KnownObjects
    /\ events' = events \cup {e}
    /\ UNCHANGED <<queue, superTypes, typedObjects, predicates, objectFluents, declared, added,
                   leftBehind>>

RemoveFutureEvent(e) ==
    /\ Idle
    /\ events' = events \ {e}
    /\ UNCHANGED <<queue, superTypes, typedObjects, predicates, objectFluents, declared, added,
                   leftBehind>>

\* applyTriggeredEvent for each event in T, in the order of their addresses:
\* what p may be afterwards, if sets says what the events set.
AfterEvents(T, sets, p, old) ==
    LET new == {sets[e][p] : e \in {x \in T : p \in DOMAIN sets[x]}}
    IN  IF new = {} THEN {old} ELSE new

\* updateFutureEvents, when the events in T have triggered.
UpdateFutureEvents(T) ==
    /\ Idle
    /\ predicates' \in [Predicate -> Value \cup Number \cup {None}]
    /\ objectFluents' \in [Fluent -> Object \cup {None}]
    /\ \A p \in Predicate : predicates'[p] \in AfterEvents(T, EventSets, p, predicates[p])
    /\ \A p \in Fluent : objectFluents'[p] \in AfterEvents(T, EventAssigns, p, objectFluents[p])
    /\ events' = events \ T
    /\ UNCHANGED <<queue, superTypes, typedObjects, declared, added, leftBehind>>

----------------------------------------------------------------------------
(* The problem file                                                        *)

\* A number below 1000 as a stream shows it, with six significant digits.
Place(n) == CHOOSE u \in {1, 10, 100} : n < 1000000 * u /\ (u = 1 \/ n >= 100000 * u)
Printed(n) == ((n + Place(n) \div 2) \div Place(n)) * Place(n)

\* A value of p as it is written.
Written(p, v) == IF p \in Numerical THEN Printed(v) ELSE v

\* The (:init ...) section toPDDLProblem writes, as pairs of a predicate and
\* its value: what is false is left out.
InitFacts ==
    {<<p, Written(p, predicates[p])>> : p \in {q \in Predicate : predicates[q] \notin {None, False}}}
       \cup {<<p, objectFluents[p]>> : p \in {q \in Fluent : objectFluents[q] # None}}

\* "prevent empty conjunction in goal": object fluents do not count.
IsEmptyGoal(g) == g.forEach = {} /\ \A p \in Predicate : g.predicates[p] = None

\* What a planner takes from the (:goal ...) that toPDDLGoal writes: a statement
\* about all objects is about those of the problem file.
GoalConditions(g) ==
    IF g.direct # {} THEN g.direct
    ELSE IF IsEmptyGoal(g) THEN {}
    ELSE {<<p, Written(p, g.predicates[p])>> : p \in {q \in Predicate : g.predicates[q] # None}}
            \cup {<<p, g.fluents[p]>> : p \in {q \in Fluent : g.fluents[q] # None}}
            \cup UNION {{<<s.about[o], s.value>> : o \in {x \in Object : <<s.type, x>> \in typedObjects}}
                          : s \in g.forEach}

\* double_equals, with its tolerance of 0.0001.
DoubleEquals(d1, d2) == d1 - d2 < 10 /\ d2 - d1 < 10

\* Mutant of Agree: numbers are compared with a tolerance of 0.001.
AgreeRoughly(p, v, w) == IF p \in Numerical THEN v - w < 100 /\ w - v < 100 ELSE v = w

\* The value v of p in the state is what the goal w asks for.
Agree(p, v, w) == IF p \in Numerical THEN DoubleEquals(v, w) ELSE v = w

\* A condition in the problem file, where what is not said is false.  A number
\* was written from one that double_equals takes for the goal's.
HoldsInProblem(cond) ==
    IF cond[1] \in Numerical
    THEN \E v, w \in Number :
            DoubleEquals(v, w) /\ <<cond[1], Printed(v)>> \in InitFacts /\ cond[2] = Printed(w)
    ELSE IF cond[2] = False THEN \A v \in Value : <<cond[1], v>> \notin InitFacts
    ELSE cond \in InitFacts

\* isFulfilledBy: a statement about all objects is about those of the goal.
IsFulfilledBy(g) ==
    /\ \A p \in Predicate : g.predicates[p] # None =>
          predicates[p] # None /\ Agree(p, predicates[p], g.predicates[p])
    /\ \A p \in Fluent : g.fluents[p] # None => objectFluents[p] = g.fluents[p]
    /\ \A s \in g.forEach : \A o \in Object :
          <<s.type, o>> \in g.objects => predicates[s.about[o]] = s.value

----------------------------------------------------------------------------
Closing == \E pair \in queue : ClosePair(pair)

Next ==
    \/ \E t, st \in Type : AddSuperType(t, st)
    \/ Closing
    \/ \E o \in Object, t \in Type : AddObject(o, t)
    \/ \E o \in Object, b \in BOOLEAN : RemoveObject(o, b)
    \/ Clear
    \/ \E p \in Predicate : \E v \in ValuesOf(p) : SetPredicate(p, v)
    \/ \E p \in Fluent, o \in Object : SetObjectFluent(p, o)
    \/ \E e \in Event : AddFutureEvent(e) \/ RemoveFutureEvent(e)
    \/ \E T \in SUBSET events : UpdateFutureEvents(T)

\* A call that was begun goes on.
Spec == Init /\ [][Next]_vars /\ WF_vars(Closing)

----------------------------------------------------------------------------
(* Properties                                                              *)

IsTransitive(R) ==
    \A a, b, c \in Type : <<a, b>> \in R /\ <<b, c>> \in R => <<a, c>> \in R

IsOrder(R) == IsTransitive(R) /\ \A t \in Type : <<t, t>> \in R

Orders == {R \in SUBSET (Type \X Type) : IsOrder(R)}

\* Between calls _superTypes is the closure of what was declared, in whatever
\* order: it holds every declared pair, is transitive, and holds nothing that
\* does not follow.
SuperTypesAreClosure ==
    Idle => /\ declared \subseteq superTypes
            /\ IsTransitive(superTypes)
            /\ \A R \in Orders : declared \subseteq R => superTypes \subseteq R

\* An object that is listed under a type is listed under all its super types,
\* although types keep being declared after other objects were added.
ObjectsFollowTypes ==
    Idle => \A t, st \in Type, o \in Object :
                <<t, st>> \in superTypes /\ <<t, o>> \in typedObjects => <<st, o>> \in typedObjects

\* No two types are super types of each other.
IsHierarchy ==
    \A t, st \in Type : <<t, st>> \in superTypes /\ <<st, t>> \in superTypes => t = st

\* The types and objects the callers added, without those that a more special
\* one follows from.
MostSpecificAdded ==
    {x \in added : \A y \in added :
        y[2] = x[2] /\ <<y[1], x[1]>> \in superTypes => y[1] = x[1]}

\* The problem file declares every object with the most special types it was
\* added with, and no others.
ProblemDeclaresObjects == Idle /\ IsHierarchy => PDDLObjects = MostSpecificAdded

\* The goal was told of all objects its statements are about.
KnowsObjects(g) ==
    \A s \in g.forEach : \A o \in Object :
        <<s.type, o>> \in typedObjects => <<s.type, o>> \in g.objects

\* When the executive finds the goal fulfilled, the problem file fulfils it up to
\* the tolerance for numbers: not so for a goal given as a string, and for one
\* that was not told of all objects.
GoalCheckIsSound ==
    \A g \in Goals :
        g.direct = {} /\ KnowsObjects(g) /\ IsFulfilledBy(g) =>
            \A cond \in GoalConditions(g) : HoldsInProblem(cond)

\* The objects that what has a value, and what is announced, is about.
Mentioned ==
    Assigned \cup (UNION {Parameters[p] : p \in Valued}) \cup UNION {About(e) : e \in events}

\* The state is about objects it knows, and else only about those that the
\* callers removed although a fluent had them as its value or an event was
\* about them, or of which they kept the predicates: whatever else was said
\* about an object is gone with it, and no event brings it back.
OnlyLeftBehindAreUnknown == Mentioned \subseteq KnownObjects \cup leftBehind

\* addSuperType returns, even when types are declared in a circle.
CallsReturn == queue # {} ~> Idle
=============================================================================
