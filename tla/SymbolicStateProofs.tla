------------------------- MODULE SymbolicStateProofs -------------------------
(***************************************************************************)
(* For every set of types, objects, predicates and events: the type        *)
(* hierarchy is the closure of what was declared, objects follow it, the   *)
(* problem file declares what was added and fulfils a goal that is found   *)
(* fulfilled, and fluents are about objects that are known, or were left   *)
(* behind.                                                                 *)
(***************************************************************************)
EXTENDS SymbolicState, TLAPS

hierarchyVars == <<queue, superTypes, declared>>
objectVars == <<typedObjects, added>>

\* Only addSuperType changes the hierarchy.
LEMMA HierarchySteps ==
    ASSUME [Next]_vars
    PROVE  \/ \E t, st \in Type : AddSuperType(t, st)
           \/ Closing
           \/ Idle /\ UNCHANGED hierarchyVars
           \/ UNCHANGED hierarchyVars /\ UNCHANGED vars
<1>1. CASE UNCHANGED vars
  BY <1>1 DEF vars, hierarchyVars
<1>2. ASSUME NEW o \in Object, NEW t \in Type, AddObject(o, t)
      PROVE  Idle /\ UNCHANGED hierarchyVars
  BY <1>2 DEF AddObject, hierarchyVars
<1>3. ASSUME NEW o \in Object, NEW b \in BOOLEAN, RemoveObject(o, b)
      PROVE  Idle /\ UNCHANGED hierarchyVars
  BY <1>3 DEF RemoveObject, hierarchyVars
<1>4. ASSUME NEW p \in Predicate, NEW v \in ValuesOf(p), SetPredicate(p, v)
      PROVE  Idle /\ UNCHANGED hierarchyVars
  BY <1>4 DEF SetPredicate, hierarchyVars
<1>5. ASSUME NEW p \in Fluent, NEW o \in Object, SetObjectFluent(p, o)
      PROVE  Idle /\ UNCHANGED hierarchyVars
  BY <1>5 DEF SetObjectFluent, hierarchyVars
<1>6. ASSUME NEW e \in Event, AddFutureEvent(e) \/ RemoveFutureEvent(e)
      PROVE  Idle /\ UNCHANGED hierarchyVars
  BY <1>6 DEF AddFutureEvent, RemoveFutureEvent, hierarchyVars
<1>7. ASSUME NEW T \in SUBSET events, UpdateFutureEvents(T)
      PROVE  Idle /\ UNCHANGED hierarchyVars
  BY <1>7 DEF UpdateFutureEvents, hierarchyVars
<1>8. ASSUME Clear
      PROVE  Idle /\ UNCHANGED hierarchyVars
  BY <1>8 DEF Clear, hierarchyVars
<1>9. QED
  BY <1>1, <1>2, <1>3, <1>4, <1>5, <1>6, <1>7, <1>8 DEF Next

\* Only these change the objects.
LEMMA ObjectSteps ==
    ASSUME [Next]_vars
    PROVE  \/ \E o \in Object, t \in Type : AddObject(o, t)
           \/ \E o \in Object, b \in BOOLEAN : RemoveObject(o, b)
           \/ Clear
           \/ UNCHANGED objectVars
<1>1. CASE UNCHANGED vars
  BY <1>1 DEF vars, objectVars
<1>2. ASSUME NEW t \in Type, NEW st \in Type, AddSuperType(t, st)
      PROVE  UNCHANGED objectVars
  BY <1>2 DEF AddSuperType, objectVars
<1>3. ASSUME NEW pair \in queue, ClosePair(pair)
      PROVE  UNCHANGED objectVars
  BY <1>3 DEF ClosePair, objectVars
<1>4. ASSUME NEW p \in Predicate, NEW v \in ValuesOf(p), SetPredicate(p, v)
      PROVE  UNCHANGED objectVars
  BY <1>4 DEF SetPredicate, objectVars
<1>5. ASSUME NEW p \in Fluent, NEW o \in Object, SetObjectFluent(p, o)
      PROVE  UNCHANGED objectVars
  BY <1>5 DEF SetObjectFluent, objectVars
<1>6. ASSUME NEW e \in Event, AddFutureEvent(e) \/ RemoveFutureEvent(e)
      PROVE  UNCHANGED objectVars
  BY <1>6 DEF AddFutureEvent, RemoveFutureEvent, objectVars
<1>7. ASSUME NEW T \in SUBSET events, UpdateFutureEvents(T)
      PROVE  UNCHANGED objectVars
  BY <1>7 DEF UpdateFutureEvents, objectVars
<1>8. QED
  BY <1>1, <1>2, <1>3, <1>4, <1>5, <1>6, <1>7 DEF Next, Closing

----------------------------------------------------------------------------
(* The hierarchy                                                           *)

PairsTyped == queue \subseteq Type \X Type /\ superTypes \subseteq Type \X Type

\* What follows from a pair of types are pairs of types.
LEMMA ConsequencesTyped ==
    ASSUME NEW pair \in Type \X Type, NEW S
    PROVE  Consequences(pair, S) \subseteq Type \X Type
<1> DEFINE A == {s \in Type : <<pair[2], s>> \in S}
           B == {s \in Type : <<s, pair[1]>> \in S}
<1>1. ASSUME NEW z \in {<<pair[1], st>> : st \in A}
      PROVE  z \in Type \X Type
  <2>1. PICK c \in A : z = <<pair[1], c>>
    BY Zenon
  <2>2. QED
    BY <2>1
<1>2. ASSUME NEW z \in {<<t, pair[2]>> : t \in B}
      PROVE  z \in Type \X Type
  <2>1. PICK c \in B : z = <<c, pair[2]>>
    BY Zenon
  <2>2. QED
    BY <2>1
<1>3. QED
  BY <1>1, <1>2, Zenon DEF Consequences

\* addObject lists the object under types, its own among them.
LEMMA EntriesTyped ==
    ASSUME NEW obj \in Object, NEW type \in Type
    PROVE  EntriesFor(obj, type) \subseteq Type \X Object /\ <<type, obj>> \in EntriesFor(obj, type)
<1> DEFINE A == {s \in Type : <<type, s>> \in superTypes}
<1>1. ASSUME NEW z \in {<<st, obj>> : st \in A}
      PROVE  z \in Type \X Object
  <2>1. PICK c \in A : z = <<c, obj>>
    BY Zenon
  <2>2. QED
    BY <2>1
<1>2. <<type, obj>> \in Type \X Object
  OBVIOUS
<1>3. QED
  BY <1>1, <1>2, Zenon DEF EntriesFor

\* All calls keep the pairs typed.
LEMMA PairsTypedStep == PairsTyped /\ [Next]_vars => PairsTyped'
<1> SUFFICES ASSUME PairsTyped, [Next]_vars PROVE PairsTyped'
  OBVIOUS
<1>1. ASSUME NEW t \in Type, NEW st \in Type, AddSuperType(t, st)
      PROVE  PairsTyped'
  BY <1>1 DEF AddSuperType, PairsTyped
<1>2. ASSUME NEW pair \in queue, ClosePair(pair)
      PROVE  PairsTyped'
  <2>1. Consequences(pair, superTypes') \subseteq Type \X Type
    BY ConsequencesTyped DEF PairsTyped
  <2>2. QED
    BY <1>2, <2>1 DEF ClosePair, PairsTyped
<1>3. ASSUME UNCHANGED hierarchyVars PROVE PairsTyped'
  BY <1>3 DEF hierarchyVars, PairsTyped
<1>4. QED
  BY <1>1, <1>2, <1>3, HierarchySteps DEF Closing

\* What the loop of addSuperType keeps: what is still missing is in the queue,
\* and nothing is known or queued that does not follow.
ClosureInv ==
    /\ PairsTyped
    /\ declared \subseteq superTypes \cup queue
    /\ \A a, b, c \in Type :
          <<a, b>> \in superTypes /\ <<b, c>> \in superTypes => <<a, c>> \in superTypes \cup queue
    /\ \A R \in SUBSET (Type \X Type) :
          IsOrder(R) /\ declared \subseteq R => superTypes \cup queue \subseteq R

\* All calls keep what is still missing in the queue.
LEMMA ClosureInvStep == ClosureInv /\ [Next]_vars => ClosureInv'
<1> SUFFICES ASSUME ClosureInv, [Next]_vars PROVE ClosureInv'
  OBVIOUS
<1>0. PairsTyped'
  BY PairsTypedStep DEF ClosureInv
<1>1. ASSUME NEW t \in Type, NEW st \in Type, AddSuperType(t, st)
      PROVE  ClosureInv'
  <2>1. /\ queue = {} /\ superTypes' = superTypes
        /\ queue' = {<<t, st>>, <<t, t>>, <<st, st>>}
        /\ declared' = declared \cup {<<t, st>>}
    BY <1>1 DEF AddSuperType, Idle
  <2>2. declared' \subseteq superTypes' \cup queue'
    BY <2>1 DEF ClosureInv
  <2>3. \A a, b, c \in Type :
          <<a, b>> \in superTypes' /\ <<b, c>> \in superTypes' => <<a, c>> \in superTypes' \cup queue'
    BY <2>1 DEF ClosureInv
  <2>4. ASSUME NEW R \in SUBSET (Type \X Type), IsOrder(R), declared' \subseteq R
        PROVE  superTypes' \cup queue' \subseteq R
    <3>1. superTypes \subseteq R
      BY <2>1, <2>4 DEF ClosureInv
    <3>2. <<t, t>> \in R /\ <<st, st>> \in R /\ <<t, st>> \in R
      BY <2>1, <2>4 DEF IsOrder
    <3>3. QED
      BY <2>1, <3>1, <3>2
  <2>5. QED
    BY <1>0, <2>2, <2>3, <2>4 DEF ClosureInv
<1>2. ASSUME NEW pair \in queue, ClosePair(pair)
      PROVE  ClosureInv'
  <2>0. declared' = declared
    BY <1>2 DEF ClosePair
  <2>1. CASE pair \in superTypes
    <3>1. superTypes' = superTypes /\ queue' = queue \ {pair}
      BY <1>2, <2>1 DEF ClosePair
    <3>2. superTypes' \cup queue' = superTypes \cup queue
      BY <2>1, <3>1
    <3>3. QED
      BY <1>0, <2>0, <3>1, <3>2 DEF ClosureInv
  <2>2. CASE pair \notin superTypes
    <3>1. /\ superTypes' = superTypes \cup {pair}
          /\ queue' = (queue \ {pair}) \cup Consequences(pair, superTypes')
      BY <1>2, <2>2 DEF ClosePair
    <3>2. superTypes' \cup queue' = superTypes \cup queue \cup Consequences(pair, superTypes')
      BY <3>1
    <3>3. PICK x \in Type, y \in Type : pair = <<x, y>>
      BY DEF ClosureInv, PairsTyped
    <3>4. declared' \subseteq superTypes' \cup queue'
      BY <2>0, <3>2 DEF ClosureInv
    <3>5. ASSUME NEW a \in Type, NEW b \in Type, NEW c \in Type,
                 <<a, b>> \in superTypes', <<b, c>> \in superTypes'
          PROVE  <<a, c>> \in superTypes' \cup queue'
      <4>1. CASE <<a, b>> = pair
        <5>1. <<a, c>> \in Consequences(pair, superTypes')
          BY <3>5, <4>1 DEF Consequences
        <5>2. QED
          BY <3>2, <5>1
      <4>2. CASE <<b, c>> = pair
        <5>1. <<a, c>> \in Consequences(pair, superTypes')
          BY <3>5, <4>2 DEF Consequences
        <5>2. QED
          BY <3>2, <5>1
      <4>3. CASE <<a, b>> \in superTypes /\ <<b, c>> \in superTypes
        BY <3>2, <4>3 DEF ClosureInv
      <4>4. QED
        BY <3>1, <3>5, <4>1, <4>2, <4>3
    <3>6. ASSUME NEW R \in SUBSET (Type \X Type), IsOrder(R), declared' \subseteq R
          PROVE  superTypes' \cup queue' \subseteq R
      <4>1. superTypes \cup queue \subseteq R
        BY <2>0, <3>6 DEF ClosureInv
      <4>2. superTypes' \subseteq R /\ <<x, y>> \in R
        BY <3>1, <3>3, <4>1
      <4>3. ASSUME NEW z \in Type, <<y, z>> \in superTypes' PROVE <<x, z>> \in R
        BY <3>6, <4>2, <4>3 DEF IsOrder, IsTransitive
      <4>4. ASSUME NEW z \in Type, <<z, x>> \in superTypes' PROVE <<z, y>> \in R
        BY <3>6, <4>2, <4>4 DEF IsOrder, IsTransitive
      <4>5. Consequences(pair, superTypes') \subseteq R
        BY <3>3, <4>3, <4>4 DEF Consequences
      <4>6. QED
        BY <3>2, <4>1, <4>5
    <3>7. QED
      BY <1>0, <3>4, <3>5, <3>6 DEF ClosureInv
  <2>3. QED
    BY <2>1, <2>2
<1>3. ASSUME UNCHANGED hierarchyVars PROVE ClosureInv'
  BY <1>0, <1>3 DEF hierarchyVars, ClosureInv
<1>4. QED
  BY <1>1, <1>2, <1>3, HierarchySteps DEF Closing

\* The first state has no types in relation.
LEMMA ClosureInvInit == Init => ClosureInv
  BY DEF Init, ClosureInv, PairsTyped

\* Between calls the hierarchy is transitive and holds what was declared.
LEMMA IdleIsClosed == ClosureInv => SuperTypesAreClosure
  BY DEF ClosureInv, SuperTypesAreClosure, Orders, Idle, IsTransitive

\* addSuperType keeps _superTypes the closure of what was declared, in
\* whatever order that is, circles included.
THEOREM HierarchyIsClosure == Spec => []SuperTypesAreClosure
  BY ClosureInvInit, ClosureInvStep, IdleIsClosed, PTL DEF Spec

----------------------------------------------------------------------------
(* The objects                                                             *)

\* At any time, objects follow the pairs that are in; a queued pair that is not
\* in is reflexive or about a type that has no objects.  What is listed was
\* added, with the type or a sub type of it.
ObjectInv ==
    /\ typedObjects \subseteq Type \X Object
    /\ \A t, st \in Type, o \in Object :
          <<t, st>> \in superTypes /\ <<t, o>> \in typedObjects => <<st, o>> \in typedObjects
    /\ \A t, st \in Type : <<t, st>> \in queue =>
          <<t, st>> \in superTypes \/ t = st \/ \A o \in Object : <<t, o>> \notin typedObjects
    /\ added \subseteq typedObjects
    /\ \A t \in Type, o \in Object : <<t, o>> \in typedObjects =>
          \E u \in Type : <<u, o>> \in added /\ (u = t \/ <<u, t>> \in superTypes)

\* A declaration queues its pair and two reflexive ones.
LEMMA ObjectInvAddSuperType ==
    ASSUME ClosureInv, ObjectInv, NEW t \in Type, NEW st \in Type, AddSuperType(t, st)
    PROVE  ObjectInv'
<1>1. /\ queue' = {<<t, st>>, <<t, t>>, <<st, st>>}
      /\ UNCHANGED <<superTypes, typedObjects, added>>
  BY DEF AddSuperType
<1>2. <<t, st>> \in superTypes \/ \A o \in Object : <<t, o>> \notin typedObjects
  BY DEF AddSuperType, ClosureInv, Idle
<1>3. QED
  BY <1>1, <1>2 DEF ObjectInv

\* A pair that becomes known is reflexive or about a type without objects.
LEMMA ObjectInvClosePair ==
    ASSUME ClosureInv, ObjectInv, NEW pair \in queue, ClosePair(pair)
    PROVE  ObjectInv'
<1>1. PICK x \in Type, y \in Type : pair = <<x, y>>
  BY DEF ClosureInv, PairsTyped
<1>2. UNCHANGED <<typedObjects, added>>
  BY DEF ClosePair
<1>3. CASE pair \in superTypes
  BY <1>2, <1>3 DEF ClosePair, ObjectInv
<1>4. CASE pair \notin superTypes
  <2>1. /\ superTypes' = superTypes \cup {pair}
        /\ queue' = (queue \ {pair}) \cup Consequences(pair, superTypes')
    BY <1>4 DEF ClosePair
  <2>2. x = y \/ \A o \in Object : <<x, o>> \notin typedObjects
    BY <1>1, <1>4 DEF ObjectInv
  <2>3. ASSUME NEW t \in Type, NEW st \in Type, NEW o \in Object,
               <<t, st>> \in superTypes', <<t, o>> \in typedObjects'
        PROVE  <<st, o>> \in typedObjects'
    BY <1>1, <1>2, <2>1, <2>2, <2>3 DEF ObjectInv
  <2>4. ASSUME NEW t \in Type, NEW st \in Type, <<t, st>> \in queue'
        PROVE  <<t, st>> \in superTypes' \/ t = st
                  \/ \A o \in Object : <<t, o>> \notin typedObjects'
    <3>1. CASE <<t, st>> \in queue
      BY <1>2, <2>1, <3>1 DEF ObjectInv
    <3>2. CASE t = x /\ <<y, st>> \in superTypes'
      BY <1>1, <1>2, <2>1, <2>2, <3>2
    <3>3. CASE st = y /\ <<t, x>> \in superTypes'
      <4>1. CASE t = x
        BY <1>1, <1>2, <2>2, <3>3, <4>1
      <4>2. CASE x = y
        BY <2>1, <3>3, <4>2
      <4>3. CASE t # x /\ \A o \in Object : <<x, o>> \notin typedObjects
        <5>1. <<t, x>> \in superTypes
          BY <1>1, <2>1, <3>3, <4>3
        <5>2. QED
          BY <1>2, <4>3, <5>1 DEF ObjectInv
      <4>4. QED
        BY <2>2, <4>1, <4>2, <4>3
    <3>4. <<t, st>> \in queue \/ <<t, st>> \in Consequences(pair, superTypes')
      BY <2>1, <2>4
    <3>5. <<t, st>> \in Consequences(pair, superTypes') =>
             (t = x /\ <<y, st>> \in superTypes') \/ (st = y /\ <<t, x>> \in superTypes')
      BY <1>1 DEF Consequences
    <3>6. QED
      BY <3>1, <3>2, <3>3, <3>4, <3>5
  <2>5. \A t \in Type, o \in Object : <<t, o>> \in typedObjects' =>
          \E u \in Type : <<u, o>> \in added' /\ (u = t \/ <<u, t>> \in superTypes')
    BY <1>2, <2>1 DEF ObjectInv
  <2>6. typedObjects' \subseteq Type \X Object /\ added' \subseteq typedObjects'
    BY <1>2 DEF ObjectInv
  <2>7. QED
    BY <2>3, <2>4, <2>5, <2>6 DEF ObjectInv
<1>5. QED
  BY <1>3, <1>4

\* A new object is listed under all super types at once.
LEMMA ObjectInvAddObject ==
    ASSUME ClosureInv, ObjectInv, NEW obj \in Object, NEW type \in Type, AddObject(obj, type)
    PROVE  ObjectInv'
<1>1. /\ queue = {} /\ queue' = {} /\ superTypes' = superTypes
      /\ typedObjects' = typedObjects \cup EntriesFor(obj, type)
      /\ added' = added \cup {<<type, obj>>}
  BY DEF AddObject, Idle
<1>2. \A t \in Type, o \in Object :
         <<t, o>> \in EntriesFor(obj, type) <=>
             o = obj /\ (t = type \/ <<type, t>> \in superTypes)
  BY DEF EntriesFor
<1>3. EntriesFor(obj, type) \subseteq Type \X Object /\ <<type, obj>> \in EntriesFor(obj, type)
  BY EntriesTyped
<1>4. \A a, b, c \in Type :
         <<a, b>> \in superTypes /\ <<b, c>> \in superTypes => <<a, c>> \in superTypes
  BY <1>1 DEF ClosureInv
<1>5. ASSUME NEW t \in Type, NEW st \in Type, NEW o \in Object,
             <<t, st>> \in superTypes', <<t, o>> \in typedObjects'
      PROVE  <<st, o>> \in typedObjects'
  <2>1. CASE <<t, o>> \in typedObjects
    BY <1>1, <1>5, <2>1 DEF ObjectInv
  <2>2. CASE <<t, o>> \in EntriesFor(obj, type)
    BY <1>1, <1>2, <1>4, <1>5, <2>2
  <2>3. QED
    BY <1>1, <1>5, <2>1, <2>2
<1>6. ASSUME NEW t \in Type, NEW o \in Object, <<t, o>> \in typedObjects'
      PROVE  \E u \in Type : <<u, o>> \in added' /\ (u = t \/ <<u, t>> \in superTypes')
  <2>1. CASE <<t, o>> \in typedObjects
    BY <1>1, <2>1 DEF ObjectInv
  <2>2. CASE <<t, o>> \in EntriesFor(obj, type)
    BY <1>1, <1>2, <2>2
  <2>3. QED
    BY <1>1, <1>6, <2>1, <2>2
<1>7. typedObjects' \subseteq Type \X Object /\ added' \subseteq typedObjects'
  BY <1>1, <1>3 DEF ObjectInv
<1>8. QED
  BY <1>1, <1>5, <1>6, <1>7 DEF ObjectInv

\* A removed object is listed nowhere.
LEMMA ObjectInvRemoveObject ==
    ASSUME ObjectInv, NEW obj \in Object, NEW b \in BOOLEAN, RemoveObject(obj, b)
    PROVE  ObjectInv'
<1>1. /\ queue = {} /\ queue' = {} /\ superTypes' = superTypes
      /\ typedObjects' = {x \in typedObjects : x[2] # obj}
      /\ added' = {x \in added : x[2] # obj}
  BY DEF RemoveObject, Idle
<1>2. \A t \in Type, o \in Object :
         /\ <<t, o>> \in typedObjects' <=> <<t, o>> \in typedObjects /\ o # obj
         /\ <<t, o>> \in added' <=> <<t, o>> \in added /\ o # obj
  BY <1>1
<1>3. typedObjects' \subseteq Type \X Object /\ added' \subseteq typedObjects'
  BY <1>1 DEF ObjectInv
<1>4. \A t, st \in Type, o \in Object :
          <<t, st>> \in superTypes' /\ <<t, o>> \in typedObjects' => <<st, o>> \in typedObjects'
  BY <1>1, <1>2 DEF ObjectInv
<1>5. \A t \in Type, o \in Object : <<t, o>> \in typedObjects' =>
          \E u \in Type : <<u, o>> \in added' /\ (u = t \/ <<u, t>> \in superTypes')
  BY <1>1, <1>2 DEF ObjectInv
<1>6. QED
  BY <1>1, <1>3, <1>4, <1>5 DEF ObjectInv

\* Nothing is left to be listed.
LEMMA ObjectInvClear == ASSUME ObjectInv, Clear PROVE ObjectInv'
<1>1. /\ queue' = {} /\ superTypes' = superTypes
      /\ typedObjects' = {} /\ added' = {}
  BY DEF Clear, Idle
<1>2. QED
  BY <1>1 DEF ObjectInv

\* All calls keep objects under their super types.
LEMMA ObjectInvStep == ClosureInv /\ ObjectInv /\ [Next]_vars => ObjectInv'
<1> SUFFICES ASSUME ClosureInv, ObjectInv, [Next]_vars PROVE ObjectInv'
  OBVIOUS
<1>1. ASSUME UNCHANGED hierarchyVars, UNCHANGED objectVars PROVE ObjectInv'
  BY <1>1 DEF hierarchyVars, objectVars, ObjectInv
<1>2. CASE UNCHANGED objectVars
  BY <1>1, <1>2, HierarchySteps, ObjectInvAddSuperType, ObjectInvClosePair DEF Closing
<1>3. QED
  BY <1>2, ObjectSteps, ObjectInvAddObject, ObjectInvRemoveObject, ObjectInvClear

\* The first state has no objects.
LEMMA ObjectInvInit == Init => ObjectInv
  BY DEF Init, ObjectInv

\* Both invariants hold in all behaviours.
LEMMA InvariantsHold == Spec => [](ClosureInv /\ ObjectInv)
  BY ClosureInvInit, ClosureInvStep, ObjectInvInit, ObjectInvStep, PTL DEF Spec

\* An object is listed under every super type of every type it is listed
\* under, whatever was declared, added and removed before.
THEOREM ObjectsAreUnderSuperTypes == Spec => []ObjectsFollowTypes
<1>1. ObjectInv => ObjectsFollowTypes
  BY DEF ObjectInv, ObjectsFollowTypes
<1>2. QED
  BY <1>1, InvariantsHold, PTL

\* The problem file declares objects under the types they were added with.
LEMMA DeclaredAreAdded ==
    ClosureInv /\ ObjectInv => ProblemDeclaresObjects
<1> SUFFICES ASSUME ClosureInv, ObjectInv, Idle, IsHierarchy
             PROVE  PDDLObjects = MostSpecificAdded
  BY DEF ProblemDeclaresObjects
<1>1. ASSUME NEW t \in Type, NEW o \in Object, <<t, o>> \in PDDLObjects
      PROVE  <<t, o>> \in MostSpecificAdded
  <2>1. /\ <<t, o>> \in typedObjects
        /\ \A v \in Type : <<v, t>> \in superTypes /\ v # t => <<v, o>> \notin typedObjects
    BY <1>1 DEF PDDLObjects, IsMostSpecificType
  <2>2. <<t, o>> \in added
    BY <2>1 DEF ObjectInv
  <2>3. \A v \in Type : <<v, o>> \in added /\ <<v, t>> \in superTypes => v = t
    BY <2>1 DEF ObjectInv
  <2>4. added \subseteq Type \X Object
    BY DEF ObjectInv
  <2>5. QED
    BY <2>2, <2>3, <2>4 DEF MostSpecificAdded
<1>2. ASSUME NEW t \in Type, NEW o \in Object, <<t, o>> \in MostSpecificAdded
      PROVE  <<t, o>> \in PDDLObjects
  <2>1. /\ <<t, o>> \in added
        /\ \A v \in Type : <<v, o>> \in added /\ <<v, t>> \in superTypes => v = t
    BY <1>2 DEF MostSpecificAdded
  <2>2. ASSUME NEW v \in Type, <<v, t>> \in superTypes, v # t, <<v, o>> \in typedObjects
        PROVE  FALSE
    <3>1. PICK u \in Type : <<u, o>> \in added /\ (u = v \/ <<u, v>> \in superTypes)
      BY <2>2 DEF ObjectInv
    <3>2. <<u, t>> \in superTypes
      BY <2>2, <3>1 DEF ClosureInv, Idle
    <3>3. u = t
      BY <2>1, <3>1, <3>2
    <3>4. QED
      BY <2>2, <3>1, <3>3 DEF IsHierarchy
  <2>3. <<t, o>> \in typedObjects
    BY <2>1 DEF ObjectInv
  <2>4. QED
    BY <2>2, <2>3 DEF PDDLObjects, IsMostSpecificType
<1>3. PDDLObjects \subseteq Type \X Object /\ MostSpecificAdded \subseteq Type \X Object
  BY DEF PDDLObjects, MostSpecificAdded, ObjectInv
<1>4. QED
  BY <1>1, <1>2, <1>3

----------------------------------------------------------------------------
(* The fluents                                                             *)

\* What has a value, or will have one when its event triggers, is about known
\* objects and those left behind.
FluentInv == OnlyLeftBehindAreUnknown

TypeInv == TypeOK /\ FluentInv

\* The first state is typed and has no values.
LEMMA TypeInvInit == Init => TypeInv
<1> SUFFICES ASSUME Init PROVE TypeInv
  OBVIOUS
<1>1. TypeOK
  BY DEF Init, TypeOK, Valuation
<1>2. Valued = {} /\ Assigned = {} /\ events = {}
  BY DEF Init, Valued, Assigned
<1>3. Mentioned = {}
  BY <1>2 DEF Mentioned
<1>4. QED
  BY <1>1, <1>3 DEF TypeInv, FluentInv, OnlyLeftBehindAreUnknown

\* The values of object fluents, one by one.
LEMMA AssignedIs ==
    \A o : o \in Assigned <=> \E p \in Fluent : objectFluents[p] = o /\ o # None
  BY Zenon DEF Assigned

\* The same after a step.
LEMMA AssignedBecomes ==
    \A o : o \in Assigned' <=> \E p \in Fluent : objectFluents'[p] = o /\ o # None
  BY Zenon DEF Assigned

\* What an event is about, object by object.
LEMMA AboutIs ==
    ASSUME NEW e, NEW o
    PROVE  o \in About(e) <=> \/ \E p \in Announced(e) : o \in Parameters[p]
                              \/ \E p \in DOMAIN EventAssigns[e] : o = EventAssigns[e][p]
  BY Zenon DEF About

\* What is mentioned, object by object.
LEMMA MentionedIs ==
    \A o : o \in Mentioned <=>
        \/ \E p \in Valued : o \in Parameters[p]
        \/ \E p \in Fluent : objectFluents[p] = o /\ o # None
        \/ \E e \in events : o \in About(e)
<1>1. \A o : o \in UNION {Parameters[p] : p \in Valued} <=> \E p \in Valued : o \in Parameters[p]
  BY Zenon
<1>2. \A o : o \in UNION {About(e) : e \in events} <=> \E e \in events : o \in About(e)
  BY Zenon
<1>3. QED
  BY <1>1, <1>2, AssignedIs, Zenon DEF Mentioned

\* The same after a step.
LEMMA MentionedBecomes ==
    \A o : o \in Mentioned' <=>
        \/ \E p \in Valued' : o \in Parameters[p]
        \/ \E p \in Fluent : objectFluents'[p] = o /\ o # None
        \/ \E e \in events' : o \in About(e)
<1>1. \A o : o \in UNION {Parameters[p] : p \in Valued'} <=> \E p \in Valued' : o \in Parameters[p]
  BY Zenon
<1>2. \A o : o \in UNION {About(e) : e \in events'} <=> \E e \in events' : o \in About(e)
  BY Zenon
<1>3. QED
  BY <1>1, <1>2, AssignedBecomes, Zenon DEF Mentioned

\* Fluents stay known when only more objects become known.
LEMMA FluentInvMonotone ==
    ASSUME FluentInv, UNCHANGED fluentVars,
           KnownObjects \cup leftBehind \subseteq (KnownObjects \cup leftBehind)'
    PROVE  FluentInv'
<1>1. Mentioned' = Mentioned
  BY DEF fluentVars, Mentioned, Valued, Assigned
<1>2. QED
  BY <1>1 DEF FluentInv, OnlyLeftBehindAreUnknown

\* When the objects stay, it is enough to look at what is new.
LEMMA FluentInvNew ==
    ASSUME FluentInv, UNCHANGED <<typedObjects, leftBehind>>,
           \A p \in Valued' \ Valued : Parameters[p] \subseteq KnownObjects \cup leftBehind,
           \A p \in Fluent : objectFluents'[p] \in {objectFluents[p], None} \cup KnownObjects \cup leftBehind,
           \A e \in events' \ events : About(e) \subseteq KnownObjects \cup leftBehind
    PROVE  FluentInv'
<1>1. KnownObjects' = KnownObjects /\ leftBehind' = leftBehind
  BY DEF KnownObjects
<1>2. ASSUME NEW o \in Mentioned' PROVE o \in KnownObjects \cup leftBehind
  <2>1. CASE o \in Mentioned
    BY <2>1 DEF FluentInv, OnlyLeftBehindAreUnknown
  <2>2. CASE o \notin Mentioned
    BY <1>2, <2>2, MentionedIs, MentionedBecomes
  <2>3. QED
    BY <2>1, <2>2
<1>3. QED
  BY <1>1, <1>2 DEF FluentInv, OnlyLeftBehindAreUnknown

\* What is in a valuation.
LEMMA ValuationIs ==
    \A f : f \in Valuation <=>
        /\ f \in [Predicate -> Value \cup Number \cup {None}]
        /\ \A p \in Predicate : f[p] \in ValuesOf(p) \cup {None}
  BY DEF Valuation

\* A removed object is mentioned only where it is left behind.
LEMMA FluentInvRemove ==
    ASSUME TypeOK, FluentInv, NEW obj \in Object, NEW b \in BOOLEAN, RemoveObject(obj, b)
    PROVE  FluentInv'
<1>1. /\ typedObjects' = {x \in typedObjects : x[2] # obj} /\ events' = events
      /\ leftBehind' = IF b /\ obj \notin Assigned \cup UNION {About(e) : e \in events}
                       THEN leftBehind ELSE leftBehind \cup {obj}
  BY DEF RemoveObject
<1>2. KnownObjects' = KnownObjects \ {obj}
  BY <1>1 DEF KnownObjects, TypeOK
<1>3. Valued' \subseteq Valued
      /\ \A p \in Fluent : objectFluents'[p] \in {objectFluents[p], None}
  BY DEF RemoveObject, Valued, PredicatesWithout, FluentsWithout
<1>4. Mentioned' \subseteq Mentioned
  BY <1>1, <1>3, MentionedIs, MentionedBecomes
<1>5. CASE leftBehind' = leftBehind \cup {obj}
  BY <1>2, <1>4, <1>5 DEF FluentInv, OnlyLeftBehindAreUnknown
<1>6. CASE b /\ obj \notin Assigned \cup UNION {About(e) : e \in events}
  <2>1. /\ \A p \in Fluent : objectFluents[p] = obj => obj = None
        /\ \A e \in events : obj \notin About(e)
    BY <1>6 DEF Assigned
  <2>2. predicates' = PredicatesWithout(obj) /\ objectFluents' = FluentsWithout(obj)
    BY <1>6 DEF RemoveObject
  <2>3. \A p \in Valued' : obj \notin Parameters[p]
    BY <2>2 DEF Valued, PredicatesWithout, FluentsWithout
  <2>4. \A p \in Fluent : objectFluents'[p] = obj => obj = None
    BY <1>3, <2>1
  <2>5. obj \notin Mentioned'
    BY <1>1, <2>1, <2>3, <2>4, MentionedBecomes
  <2>6. leftBehind' = leftBehind
    BY <1>1, <1>6
  <2>7. QED
    BY <1>2, <1>4, <2>5, <2>6 DEF FluentInv, OnlyLeftBehindAreUnknown
<1>7. QED
  BY <1>1, <1>5, <1>6

\* All calls keep the types.
LEMMA TypeStep == PairsTyped /\ PairsTyped' /\ TypeOK /\ [Next]_vars => TypeOK'
<1> SUFFICES ASSUME PairsTyped, PairsTyped', TypeOK, [Next]_vars PROVE TypeOK'
  OBVIOUS
<1>1. CASE UNCHANGED vars
  BY <1>1 DEF vars, TypeOK, fluentVars
<1>2. ASSUME NEW t \in Type, NEW st \in Type, AddSuperType(t, st)
      PROVE  TypeOK'
  BY <1>2 DEF AddSuperType, TypeOK, PairsTyped, fluentVars
<1>3. ASSUME NEW pair \in queue, ClosePair(pair)
      PROVE  TypeOK'
  BY <1>3 DEF ClosePair, TypeOK, PairsTyped, fluentVars
<1>4. ASSUME NEW obj \in Object, NEW type \in Type, AddObject(obj, type)
      PROVE  TypeOK'
  <2>1. EntriesFor(obj, type) \subseteq Type \X Object
    BY EntriesTyped
  <2>2. QED
    BY <1>4, <2>1 DEF AddObject, TypeOK, fluentVars
<1>5. ASSUME NEW obj \in Object, NEW b \in BOOLEAN, RemoveObject(obj, b)
      PROVE  TypeOK'
  <2>1. PredicatesWithout(obj) \in Valuation
    <3>1. \A p \in Predicate : PredicatesWithout(obj)[p] \in {predicates[p], None}
      BY DEF PredicatesWithout
    <3>2. PredicatesWithout(obj) \in [Predicate -> Value \cup Number \cup {None}]
      BY ValuationIs DEF PredicatesWithout, TypeOK
    <3>3. QED
      BY <3>1, <3>2, ValuationIs DEF TypeOK
  <2>2. FluentsWithout(obj) \in [Fluent -> Object \cup {None}]
    BY DEF FluentsWithout, TypeOK
  <2>3. predicates' \in Valuation /\ objectFluents' \in [Fluent -> Object \cup {None}]
    BY <1>5, <2>1, <2>2 DEF RemoveObject, TypeOK
  <2>4. leftBehind' \subseteq Object
    BY <1>5 DEF RemoveObject, TypeOK
  <2>5. QED
    BY <1>5, <2>3, <2>4 DEF RemoveObject, TypeOK
<1>6. ASSUME NEW p \in Predicate, NEW v \in ValuesOf(p), SetPredicate(p, v)
      PROVE  TypeOK'
  <2>1. predicates' = [predicates EXCEPT ![p] = v]
    BY <1>6 DEF SetPredicate
  <2>2. v \in Value \cup Number
    BY DEF ValuesOf
  <2>3. predicates' \in [Predicate -> Value \cup Number \cup {None}]
    BY <2>1, <2>2, ValuationIs DEF TypeOK
  <2>4. \A q \in Predicate : predicates'[q] \in ValuesOf(q) \cup {None}
    BY <2>1, ValuationIs DEF TypeOK
  <2>5. QED
    BY <1>6, <2>3, <2>4, ValuationIs DEF SetPredicate, TypeOK
<1>7. ASSUME NEW p \in Fluent, NEW o \in Object, SetObjectFluent(p, o)
      PROVE  TypeOK'
  BY <1>7 DEF SetObjectFluent, TypeOK
<1>8. ASSUME NEW e \in Event, AddFutureEvent(e) \/ RemoveFutureEvent(e)
      PROVE  TypeOK'
  BY <1>8 DEF AddFutureEvent, RemoveFutureEvent, TypeOK
<1>9. ASSUME NEW T \in SUBSET events, UpdateFutureEvents(T)
      PROVE  TypeOK'
  <2>1. ASSUME NEW p \in Predicate PROVE predicates'[p] \in ValuesOf(p) \cup {None}
    <3>1. predicates'[p] \in AfterEvents(T, EventSets, p, predicates[p])
      BY <1>9 DEF UpdateFutureEvents
    <3>2. predicates'[p] = predicates[p]
             \/ \E e \in T : p \in DOMAIN EventSets[e] /\ predicates'[p] = EventSets[e][p]
      BY <3>1 DEF AfterEvents
    <3>3. T \subseteq Event /\ predicates[p] \in ValuesOf(p) \cup {None}
      BY ValuationIs DEF TypeOK
    <3>4. QED
      BY <3>2, <3>3, SymbolicAssumption
  <2>2. predicates' \in Valuation
    BY <1>9, <2>1, ValuationIs DEF UpdateFutureEvents
  <2>3. QED
    BY <1>9, <2>2 DEF UpdateFutureEvents, TypeOK
<1>10. ASSUME Clear
       PROVE  TypeOK'
  <2>1. predicates' \in Valuation
    BY <1>10, ValuationIs DEF Clear
  <2>2. leftBehind' \subseteq Object
    <3>1. ASSUME NEW e \in events PROVE About(e) \subseteq Object
      <4>1. \A p \in Announced(e) : Parameters[p] \subseteq Object
        BY SymbolicAssumption DEF Announced, TypeOK
      <4>2. \A p \in DOMAIN EventAssigns[e] : EventAssigns[e][p] \in Object
        BY SymbolicAssumption DEF TypeOK
      <4>3. QED
        BY <4>1, <4>2, AboutIs
    <3>2. QED
      BY <1>10, <3>1 DEF Clear, TypeOK
  <2>3. QED
    BY <1>10, <2>1, <2>2 DEF Clear, TypeOK
<1>11. QED
  BY <1>1, <1>2, <1>3, <1>4, <1>5, <1>6, <1>7, <1>8, <1>9, <1>10 DEF Next, Closing

\* All calls keep fluents about known objects, and those left behind.
LEMMA FluentInvStep == TypeOK /\ FluentInv /\ [Next]_vars => FluentInv'
<1> SUFFICES ASSUME TypeOK, FluentInv, [Next]_vars PROVE FluentInv'
  OBVIOUS
<1>1. ASSUME UNCHANGED <<fluentVars, typedObjects, leftBehind>>
      PROVE  FluentInv'
  <2>1. KnownObjects' = KnownObjects
    BY <1>1 DEF KnownObjects
  <2>2. QED
    BY <1>1, <2>1, FluentInvMonotone
<1>2. ASSUME NEW obj \in Object, NEW type \in Type, AddObject(obj, type)
      PROVE  FluentInv'
  <2>1. typedObjects \subseteq typedObjects' /\ <<type, obj>> \in typedObjects'
    BY <1>2, EntriesTyped DEF AddObject
  <2>2. KnownObjects \cup {obj} \subseteq KnownObjects'
    BY <2>1 DEF KnownObjects
  <2>3. leftBehind' = leftBehind \ {obj} /\ UNCHANGED fluentVars
    BY <1>2 DEF AddObject
  <2>4. QED
    BY <2>2, <2>3, FluentInvMonotone
<1>3. ASSUME NEW p \in Predicate, NEW v \in ValuesOf(p), SetPredicate(p, v)
      PROVE  FluentInv'
  <2>1. UNCHANGED <<typedObjects, leftBehind, objectFluents, events>>
    BY <1>3 DEF SetPredicate
  <2>2. Valued' \ Valued \subseteq {p}
    BY <1>3, ValuationIs DEF SetPredicate, Valued, TypeOK
  <2>3. Parameters[p] \subseteq KnownObjects
    BY <1>3 DEF SetPredicate
  <2>4. QED
    BY <2>1, <2>2, <2>3, FluentInvNew
<1>4. ASSUME NEW p \in Fluent, NEW o \in Object, SetObjectFluent(p, o)
      PROVE  FluentInv'
  <2>1. UNCHANGED <<typedObjects, leftBehind, predicates, events>>
        /\ objectFluents' = [objectFluents EXCEPT ![p] = o]
    BY <1>4 DEF SetObjectFluent
  <2>2. Valued' \ Valued \subseteq {p}
    BY <2>1 DEF Valued, TypeOK
  <2>3. Parameters[p] \cup {o} \subseteq KnownObjects
    BY <1>4 DEF SetObjectFluent
  <2>4. \A q \in Fluent : objectFluents'[q] \in {objectFluents[q], None} \cup KnownObjects
    BY <2>1, <2>3 DEF TypeOK
  <2>5. QED
    BY <2>1, <2>2, <2>3, <2>4, FluentInvNew
<1>5. ASSUME NEW e \in Event, AddFutureEvent(e)
      PROVE  FluentInv'
  <2>1. UNCHANGED <<typedObjects, leftBehind, predicates, objectFluents>>
        /\ events' = events \cup {e} /\ About(e) \subseteq KnownObjects
    BY <1>5 DEF AddFutureEvent
  <2>2. Valued' = Valued
    BY <2>1 DEF Valued
  <2>3. QED
    BY <2>1, <2>2, FluentInvNew
<1>6. ASSUME NEW e \in Event, RemoveFutureEvent(e)
      PROVE  FluentInv'
  <2>1. UNCHANGED <<typedObjects, leftBehind, predicates, objectFluents>>
        /\ events' = events \ {e}
    BY <1>6 DEF RemoveFutureEvent
  <2>2. Valued' = Valued
    BY <2>1 DEF Valued
  <2>3. QED
    BY <2>1, <2>2, FluentInvNew
<1>7. ASSUME NEW T \in SUBSET events, UpdateFutureEvents(T)
      PROVE  FluentInv'
  <2>1. UNCHANGED <<typedObjects, leftBehind>> /\ events' \subseteq events
    BY <1>7 DEF UpdateFutureEvents
  <2>2. \A e \in T : About(e) \subseteq KnownObjects \cup leftBehind
    BY MentionedIs DEF FluentInv, OnlyLeftBehindAreUnknown
  <2>3. ASSUME NEW p \in Predicate
        PROVE  predicates'[p] = predicates[p] \/ \E e \in T : p \in DOMAIN EventSets[e]
    BY <1>7 DEF UpdateFutureEvents, AfterEvents
  <2>4. ASSUME NEW p \in Fluent
        PROVE  objectFluents'[p] = objectFluents[p]
                 \/ \E e \in T : p \in DOMAIN EventAssigns[e] /\ objectFluents'[p] = EventAssigns[e][p]
    BY <1>7 DEF UpdateFutureEvents, AfterEvents
  <2>5. \A p \in Fluent : objectFluents'[p] \in {objectFluents[p], None} \cup KnownObjects \cup leftBehind
    BY <2>2, <2>4, AboutIs
  <2>6. ASSUME NEW p \in Valued' \ Valued PROVE \E e \in T : p \in Announced(e)
    BY <2>3, <2>4, <2>6 DEF Valued, Announced
  <2>7. \A p \in Valued' \ Valued : Parameters[p] \subseteq KnownObjects \cup leftBehind
    BY <2>2, <2>6, AboutIs
  <2>8. QED
    BY <2>1, <2>5, <2>7, FluentInvNew
<1>8. ASSUME Clear
      PROVE  FluentInv'
  <2>1. events' = events /\ leftBehind' = leftBehind \cup UNION {About(e) : e \in events}
    BY <1>8 DEF Clear
  <2>2. Valued' = {} /\ \A p \in Fluent : objectFluents'[p] = None
    BY <1>8 DEF Clear, Valued
  <2>3. \A o \in Mentioned' : o \in leftBehind'
    BY <2>1, <2>2, MentionedBecomes
  <2>4. QED
    BY <2>3 DEF FluentInv, OnlyLeftBehindAreUnknown
<1>9. ASSUME NEW t \in Type, NEW st \in Type, AddSuperType(t, st)
      PROVE  FluentInv'
  BY <1>1, <1>9 DEF AddSuperType
<1>10. ASSUME NEW pair \in queue, ClosePair(pair)
       PROVE  FluentInv'
  BY <1>1, <1>10 DEF ClosePair
<1>11. CASE UNCHANGED vars
  BY <1>1, <1>11 DEF vars
<1>12. QED
  BY <1>2, <1>3, <1>4, <1>5, <1>6, <1>7, <1>8, <1>9, <1>10, <1>11, FluentInvRemove
     DEF Next, Closing

\* So they do in all behaviours.
LEMMA TypeInvHolds == Spec => []TypeInv
<1>1. ClosureInv /\ ClosureInv' /\ TypeInv /\ [Next]_vars => TypeInv'
  BY TypeStep, FluentInvStep DEF ClosureInv, TypeInv
<1>2. QED
  BY <1>1, TypeInvInit, ClosureInvInit, ClosureInvStep, PTL DEF Spec

\* The types of the variables.
THEOREM SymbolicTypesAreKept == Spec => []TypeOK
<1>1. TypeInv => TypeOK
  BY DEF TypeInv
<1>2. QED
  BY <1>1, TypeInvHolds, PTL

\* Whatever has a value, by a setter or by an event that triggered, and whatever
\* is announced, is about objects that were added, or that the callers left
\* behind when they removed or cleared them.
THEOREM UnknownAreLeftBehind == Spec => []OnlyLeftBehindAreUnknown
<1>1. TypeInv => OnlyLeftBehindAreUnknown
  BY DEF TypeInv, FluentInv
<1>2. QED
  BY <1>1, TypeInvHolds, PTL

----------------------------------------------------------------------------
(* The problem file                                                        *)

\* A truth value the state has is what the problem file says.
LEMMA TruthHolds ==
    ASSUME TypeOK, NEW p \in Predicate \ Numerical, NEW v \in Value, predicates[p] = v
    PROVE  HoldsInProblem(<<p, v>>)
<1>1. CASE v = False
  <2>1. p \notin {q \in Predicate : predicates[q] \notin {None, False}} /\ p \notin Fluent
    BY <1>1, SymbolicAssumption
  <2>2. \A w \in Value : <<p, w>> \notin InitFacts
    BY <2>1 DEF InitFacts
  <2>3. QED
    BY <1>1, <2>2 DEF HoldsInProblem
<1>2. CASE v # False
  <2>1. v # None /\ Written(p, v) = v
    BY SymbolicAssumption DEF Written
  <2>2. <<p, v>> \in InitFacts
    BY <1>2, <2>1 DEF InitFacts
  <2>3. QED
    BY <1>2, <2>2 DEF HoldsInProblem
<1>3. QED
  BY <1>1, <1>2

\* So is an object.
LEMMA ObjectHolds ==
    ASSUME TypeOK, NEW p \in Fluent, NEW o \in Object, objectFluents[p] = o
    PROVE  HoldsInProblem(<<p, o>>)
<1>1. o # None /\ o # False /\ p \notin Numerical
  BY SymbolicAssumption
<1>2. <<p, o>> \in InitFacts
  BY <1>1 DEF InitFacts
<1>3. QED
  BY <1>1, <1>2 DEF HoldsInProblem

\* A number is written from one that the goal's is compared with.
LEMMA NumberHolds ==
    ASSUME TypeOK, NEW p \in Numerical, NEW w \in Number,
           predicates[p] # None, Agree(p, predicates[p], w)
    PROVE  HoldsInProblem(<<p, Written(p, w)>>)
<1> DEFINE v == predicates[p]
<1>1. p \in Predicate /\ v \in Number
  BY ValuationIs, SymbolicAssumption DEF TypeOK, ValuesOf
<1>2. v \notin {None, False}
  BY <1>1, SymbolicAssumption
<1>3. Written(p, v) = Printed(v) /\ Written(p, w) = Printed(w) /\ DoubleEquals(v, w)
  BY DEF Written, Agree
<1>4. <<p, Printed(v)>> \in InitFacts
  BY <1>1, <1>2, <1>3 DEF InitFacts
<1>5. QED
  BY <1>1, <1>3, <1>4 DEF HoldsInProblem

\* Every condition of a goal that isFulfilledBy finds fulfilled is a value the
\* state has.
LEMMA GoalChecked == TypeOK => GoalCheckIsSound
<1> SUFFICES ASSUME TypeOK, NEW g \in Goals, g.direct = {}, KnowsObjects(g), IsFulfilledBy(g),
                    NEW cond \in GoalConditions(g)
             PROVE  HoldsInProblem(cond)
  BY DEF GoalCheckIsSound
<1>0. /\ \A p \in Predicate : g.predicates[p] \in ValuesOf(p) \cup {None}
      /\ \A p \in Fluent : g.fluents[p] \in Object \cup {None}
      /\ \A s \in g.forEach : s.about \in [Object -> Predicate \ Numerical] /\ s.value \in Value
  BY GoalAssumption
<1>1. ASSUME NEW p \in Predicate, g.predicates[p] # None,
             cond = <<p, Written(p, g.predicates[p])>>
      PROVE  HoldsInProblem(cond)
  <2>1. predicates[p] # None /\ Agree(p, predicates[p], g.predicates[p])
    BY <1>1 DEF IsFulfilledBy
  <2>2. CASE p \in Numerical
    <3>1. g.predicates[p] \in Number
      BY <1>0, <1>1, <2>2 DEF ValuesOf
    <3>2. QED
      BY <1>1, <2>1, <2>2, <3>1, NumberHolds
  <2>3. CASE p \notin Numerical
    <3>1. g.predicates[p] \in Value /\ predicates[p] = g.predicates[p]
          /\ Written(p, g.predicates[p]) = g.predicates[p]
      BY <1>0, <1>1, <2>1, <2>3 DEF ValuesOf, Agree, Written
    <3>2. QED
      BY <1>1, <2>3, <3>1, TruthHolds
  <2>4. QED
    BY <2>2, <2>3
<1>2. ASSUME NEW p \in Fluent, g.fluents[p] # None, cond = <<p, g.fluents[p]>>
      PROVE  HoldsInProblem(cond)
  <2>1. objectFluents[p] = g.fluents[p] /\ g.fluents[p] \in Object
    BY <1>0, <1>2 DEF IsFulfilledBy
  <2>2. QED
    BY <1>2, <2>1, ObjectHolds
<1>3. ASSUME NEW s \in g.forEach, NEW o \in Object, <<s.type, o>> \in typedObjects,
             cond = <<s.about[o], s.value>>
      PROVE  HoldsInProblem(cond)
  <2>1. predicates[s.about[o]] = s.value
    BY <1>3 DEF KnowsObjects, IsFulfilledBy
  <2>2. s.about[o] \in Predicate \ Numerical /\ s.value \in Value
    BY <1>0, <1>3
  <2>3. QED
    BY <1>3, <2>1, <2>2, TruthHolds
<1>4. \/ \E p \in Predicate : g.predicates[p] # None /\ cond = <<p, Written(p, g.predicates[p])>>
      \/ \E p \in Fluent : g.fluents[p] # None /\ cond = <<p, g.fluents[p]>>
      \/ \E s \in g.forEach : \E o \in Object :
            <<s.type, o>> \in typedObjects /\ cond = <<s.about[o], s.value>>
  BY DEF GoalConditions
<1>5. QED
  BY <1>1, <1>2, <1>3, <1>4

\* If no types are declared in a circle, the problem file declares each object
\* with exactly the most special types it was added with.
THEOREM ProblemIsDeclared == Spec => []ProblemDeclaresObjects
  BY DeclaredAreAdded, InvariantsHold, PTL

\* A goal that the executive finds fulfilled holds in the problem file it would
\* write, where a number may differ by the tolerance of double_equals and by
\* what is lost in writing it.
THEOREM GoalCheckAgrees == Spec => []GoalCheckIsSound
<1>1. TypeInv => GoalCheckIsSound
  BY GoalChecked DEF TypeInv
<1>2. QED
  BY <1>1, TypeInvHolds, PTL
=============================================================================
