------------------------- MODULE MCBestFirstSearch -------------------------
(***************************************************************************)
(* A small delivery: a robot gets to a place slowly or fast, announces     *)
(* itself on the way and delivers there.                                   *)
(***************************************************************************)
EXTENDS BestFirstSearch

\* 1 place (0 home, 1 there, 2 on the way), 2 delivered, 3 announced
is(x, v) == [var |-> x, prev |-> v]
sets(x, v) == [var |-> x, pre |-> -1, post |-> v, start |-> {}, overall |-> {}, end |-> {}]
leaves == [sets(1, 2) EXCEPT !.pre = 0]

MCDuration == [o \in Op |-> CASE o = "walk" -> 6 [] o = "ride" -> 4 [] OTHER -> 2]
MCPrevailStart ==
    [o \in Op |-> CASE o = "deliver" -> {is(1, 1), is(2, 0), is(3, 1)}
                    [] o = "announce" -> {is(3, 0)} [] OTHER -> {}]
MCPrevailOverall == [o \in Op |-> CASE o = "announce" -> {is(1, 2)} [] OTHER -> {}]
MCPrevailEnd == [o \in Op |-> {}]
MCEffectStart ==
    [o \in Op |-> CASE o \in {"walk", "ride"} -> {leaves}
                    [] o = "deliver" -> {sets(2, 1)}
                    [] OTHER -> {}]
MCEffectEnd ==
    [o \in Op |-> CASE o \in {"walk", "ride"} -> {sets(1, 1)}
                    [] o = "announce" -> {sets(3, 1)} [] OTHER -> {}]
MCModuleEffectEnd == [o \in Op |-> {}]
MCAxiom == {}
MCInitialValue == [x \in Var |-> 0]
MCGoal == {is(2, 1)}

\* The robot is there, will not leave again and has not announced itself.
MCIsDeadEnd(s) == s.operators = {} /\ s.value[1] = 1 /\ s.value[3] = 0

\* How the robot goes there is not part of the name.
MCName == [o \in Op |-> IF o \in {"walk", "ride"} THEN "go" ELSE o]
=============================================================================
