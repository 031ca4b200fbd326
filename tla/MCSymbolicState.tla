--------------------------- MODULE MCSymbolicState ---------------------------
(***************************************************************************)
(* Two objects, a predicate about both of them, a number and an object     *)
(* fluent about one, an event that sets them, and goals of every kind.     *)
(* Two of the numbers (12.34564 and 12.34567) are the same to              *)
(* double_equals, but are written differently.                             *)
(***************************************************************************)
EXTENDS SymbolicState

CONSTANTS true, o1, o2  \* the other truth value, and the objects

MCParameters == [p \in Predicate \cup Fluent |-> IF p = "on" THEN Object ELSE {o1}]
MCEventSets == [e \in Event |-> [p \in {"on"} |-> true]]
MCEventAssigns == [e \in Event |-> [p \in Fluent |-> o2]]

Nothing == [predicates |-> [p \in Predicate |-> None], fluents |-> [p \in Fluent |-> None],
            forEach |-> {}, objects |-> Type \X Object, direct |-> {}]

\* A predicate to be true or false, a number, an object fluent, both, a predicate
\* to be false for all objects of a type, and a goal given as a string.
MCGoals ==
    {[Nothing EXCEPT !.predicates["on"] = v] : v \in Value}
       \cup {[Nothing EXCEPT !.predicates["cost"] = n] : n \in Number}
       \cup {[Nothing EXCEPT !.fluents["at"] = o1],
             [Nothing EXCEPT !.predicates["on"] = true, !.fluents["at"] = o2],
             [Nothing EXCEPT !.direct = {<<"on", true>>}]}
       \cup {[Nothing EXCEPT !.forEach =
                 {[type |-> t, about |-> [o \in Object |-> "on"], value |-> False]}] : t \in Type}
=============================================================================
