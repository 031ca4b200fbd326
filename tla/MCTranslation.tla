---------------------------- MODULE MCTranslation ----------------------------
(* Tasks over two places: the robot is at one of them or between them, and  *)
(* an action whose conditions and effects vary, with axioms that vary.      *)
EXTENDS Translation

O(c) == <<"o", c>>
V(x) == <<"?", x>>
Yes(p, args) == Literal([pred |-> p, args |-> args], FALSE)
No(p, args) == Literal([pred |-> p, args |-> args], TRUE)
Both(parts) == Junction("and", parts)
Either(parts) == Junction("or", parts)
X == <<V("x")>>
Y == <<V("y")>>
XY == <<V("x"), V("y")>>
SomePlace(f) == Quantified("exists", <<<<"place", V("y")>>>>, f)
EveryPlace(f) == Quantified("forall", <<<<"place", V("y")>>>>, f)

Always == <<Truth, Truth, Truth>>
AtTime(time, f) == [Always EXCEPT ![time] = f]
Effect(params, conditions, literal) == [params |-> params, conditions |-> conditions, literal |-> literal]
Plain(literal) == Effect(<<>>, Always, literal)

Move == [name |-> "move", params |-> <<<<"place", V("x")>>, <<"place", V("y")>>>>,
         conditions |-> <<Yes("at", X), Yes("road", XY), Truth>>,
         effects |-> <<<<Plain(No("at", X))>>, <<Plain(Yes("at", Y))>>>>]

Work(conditions, effects) ==
    [name |-> "work", params |-> <<<<"place", V("x")>>>>, conditions |-> conditions, effects |-> effects]

Conditions == {
    Yes("at", X), No("done", X), No("at", X), Yes("good", X), No("good", X),
    SomePlace(Both(<<Yes("at", Y), Yes("road", <<V("y"), V("y")>>)>>)),
    SomePlace(Both(<<Yes("at", X), No("good", X), Yes("road", XY)>>)),
    Both(<<Yes("at", X), Either(<<Yes("done", X), No("good", X)>>)>>),
    SomePlace(Both(<<Yes("road", XY), Yes("at", Y)>>)),
    SomePlace(Either(<<Yes("done", Y), Both(<<Yes("at", Y), Yes("road", XY)>>)>>)),
    EveryPlace(Either(<<No("road", XY), Yes("at", Y), Yes("done", Y)>>)),
    Both(<<SomePlace(Yes("at", Y)), EveryPlace(No("good", Y))>>)}

DoneAtEnd == <<<<>>, <<Plain(Yes("done", X))>>>>
DoneOnTheWay ==
    <<<<Effect(<<<<"place", V("y")>>>>, AtTime(1, No("good", Y)), Yes("done", Y))>>,
      <<Effect(<<>>, AtTime(1, Yes("good", X)), No("done", X))>>>>
WorkEffects == {
    <<<<Plain(No("at", X))>>, <<Plain(Yes("at", X)), Plain(Yes("done", X))>>>>,
    <<<<Plain(Yes("done", X))>>, <<Plain(No("done", X))>>>>,
    <<<<>>, <<Effect(<<>>, <<Yes("at", X), Truth, Yes("road", <<O("a"), V("x")>>)>>, Yes("done", X))>>>>,
    <<<<>>, <<Effect(<<<<"place", V("y")>>>>, AtTime(3, Yes("road", XY)), Yes("done", Y))>>>>,
    <<<<>>, <<Plain(Yes("at", X)), Plain(Yes("done", X))>>>>,
    DoneOnTheWay}

Axiom(name, condition) == [name |-> name, params |-> <<<<"place", V("x")>>>>, condition |-> condition]

Ways == <<Axiom("good", Either(<<Yes("at", X), SomePlace(Both(<<Yes("road", XY), Yes("good", Y)>>))>>))>>
Visits == <<Axiom("good", EveryPlace(Either(<<No("road", XY), Yes("done", Y)>>)))>>
Negations == <<Axiom("good", No("bad", X)), Axiom("bad", Both(<<Yes("done", X), No("at", X)>>))>>
AxiomLists == {
    Ways, Visits, Negations,
    <<Axiom("good", Both(<<Yes("at", X), Yes("done", X)>>))>>,
    <<Axiom("good", Yes("road", <<O("a"), V("x")>>)), Axiom("good", Both(<<Yes("road", <<O("a"), V("x")>>), Yes("at", X)>>))>>}

Facts == <<[pred |-> "at", args |-> <<O("a")>>], [pred |-> "road", args |-> <<O("a"), O("b")>>],
           [pred |-> "=", args |-> <<O("a"), O("a")>>], [pred |-> "=", args |-> <<O("b"), O("b")>>]>>

Task(work, axs, goal) ==
    [objects |-> <<<<O("a"), "place">>, <<O("b"), "place">>>>, facts |-> Facts,
     actions |-> <<Move, work>>, axioms |-> axs, goal |-> goal,
     invariants |-> <<{[pred |-> "at", args |-> <<O(c)>>] : c \in {"a", "b"}}>>, valued |-> {}]

GoodOrDone == Either(<<Yes("good", <<O("b")>>), Yes("done", <<O("a")>>)>>)

\* Every condition, for each of the axioms; every list of effects; conditions
\* of effects and of axioms with conditions while the action runs.
MCTasks ==
    {Task(Work(AtTime(1, f), DoneAtEnd), axs, Yes("done", <<O("b")>>)) : f \in Conditions, axs \in AxiomLists}
      \cup {Task(Work(AtTime(1, f), effects), axs, GoodOrDone) :
              f \in {Yes("at", X), No("good", X)}, effects \in WorkEffects, axs \in {Ways, Negations}}
      \cup {Task(Work(AtTime(2, f), DoneOnTheWay), axs, GoodOrDone) : f \in Conditions, axs \in {Ways, Visits}}
=============================================================================
