----------------------------- MODULE RobotTasks -----------------------------
(***************************************************************************)
(* A robot with a battery: the outputs of the translator for the choices   *)
(* of some of its operators and of a goal.                                 *)
(***************************************************************************)
EXTENDS Integers, Sequences, FiniteSets

\* 1 at, 2 door, 3 lamp, 4 ready (derived), 5 reachable (of a condition module),
\* 6 battery, 7 one, 8 two, 9 half (subterm), 10 charged (comparison),
\* 11 estimate (of a cost module)
RobotVariables ==
    <<[range |-> 3, layer |-> -1], [range |-> 3, layer |-> -1], [range |-> 2, layer |-> -1],
      [range |-> 2, layer |-> 2], [range |-> -2, layer |-> -1],
      [range |-> -1, layer |-> -1], [range |-> -1, layer |-> -1], [range |-> -1, layer |-> -1],
      [range |-> -1, layer |-> 0], [range |-> 3, layer |-> 1], [range |-> -3, layer |-> -1]>>

Effect(start, overall, end, target, first, second) ==
    [start |-> start, overall |-> overall, end |-> end, target |-> target, first |-> first, second |-> second]
Set(x, old, new) == Effect(<<>>, <<>>, <<>>, x, old, new)
Module(end) == Effect(<<>>, <<>>, end, 0, 0, 0)

Operator(duration, start, overall, end, effectStart, effectEnd) ==
    [groundings |-> 0, durationOp |-> 6, duration |-> duration, prevailStart |-> start,
     prevailOverall |-> overall, prevailEnd |-> end, effectStart |-> effectStart, effectEnd |-> effectEnd]

Drive == Operator(11, <<<<5, 0>>>>, <<>>, <<<<10, 0>>>>,
                  <<Set(1, 0, 2)>>, <<Set(1, -1, 1), Set(6, 4, 7)>>)
Return == Operator(8, <<>>, <<<<1, 1>>>>, <<>>, <<>>, <<Set(1, 1, 0)>>)
ReturnIfOpen == Operator(8, <<<<2, 0>>>>, <<>>, <<>>, <<>>, <<Set(1, 1, 0)>>)
ReturnLit == Operator(8, <<<<3, 0>>, <<10, 0>>>>, <<>>, <<>>, <<>>, <<Set(1, 1, 0), Set(2, 0, 1)>>)
PushDoor == Operator(7, <<<<1, 0>>>>, <<<<2, 0>>>>, <<>>, <<Set(2, -1, 0)>>, <<Set(2, -1, 1)>>)
Dim == Operator(7, <<>>, <<>>, <<>>, <<Set(2, 1, 0)>>,
                <<Effect(<<>>, <<<<3, 0>>>>, <<<<4, 1>>>>, 1, -1, 0)>>)
SwitchOn == Operator(7, <<>>, <<>>, <<>>, <<>>,
                     <<Effect(<<<<4, 1>>>>, <<>>, <<>>, 3, 0, 1), Effect(<<>>, <<>>, <<<<2, 1>>>>, 6, 3, 7)>>)
Look == Operator(7, <<<<3, 1>>>>, <<>>, <<>>, <<>>, <<Module(<<>>)>>)

RobotOperators == <<Drive, Return, ReturnIfOpen, ReturnLit, PushDoor, Dim, SwitchOn>>

File(operators, goal) ==
    [variables |-> RobotVariables, conditionModules |-> <<5>>, costModules |-> <<11>>,
     effectModules |-> <<<<11>>>>, initial |-> <<0, 1, 0, 0, -3, 5, 1, 2, 0, 2, -4>>, goal |-> goal,
     operators |-> operators,
     rules |-> <<[conditions |-> <<<<2, 0>>, <<10, 0>>>>, effect |-> 4, old |-> 0, new |-> 1]>>,
     comparisons |-> <<[effect |-> 10, op |-> 7, left |-> 6, right |-> 9]>>,
     subterms |-> <<[effect |-> 9, op |-> 3, left |-> 8, right |-> 7]>>]

Chosen(numbers) ==
    LET list == SelectSeq([i \in DOMAIN RobotOperators |-> i], LAMBDA i : i \in numbers)
    IN  [k \in DOMAIN list |-> RobotOperators[list[k]]]
=============================================================================
