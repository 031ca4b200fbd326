-------------------------- MODULE MCRescheduling ---------------------------
(***************************************************************************)
(* A small temporal domain for the rescheduling of plans: a fuse is mended *)
(* by the light of a match, where one has to walk to and, when the paint   *)
(* has dried (a timed initial literal), has not to be any more.  To leave   *)
(* takes less time in the light.                                           *)
(***************************************************************************)
EXTENDS PlanFiles

\* 1 light, 2 fuse, 3 place (0 away, 1 there, 2 on the way), 4 dry,
\* 5 initial_state: the timed initial literal is not yet scheduled
is(x, v) == [var |-> x, prev |-> v]
sets(x, v) == [var |-> x, pre |-> -1, post |-> v, start |-> {}, overall |-> {}, end |-> {}]

\* Seconds have two decimals for the planner, and four for the script.
MCDuration == [o \in Op |-> CASE o = "light" -> 80000 [] o = "timed_initial" -> 60033
                              [] o = "leave" -> 66667 [] OTHER -> 40000]

MCPrevailStart ==
    [o \in Op |-> CASE o = "light" -> {is(1, 0), is(5, 0)}
                    [] o = "mend" -> {is(1, 1), is(3, 1), is(4, 1), is(5, 0)}
                    [] o \in {"walk", "leave", "hurry"} -> {is(5, 0)}
                    [] OTHER -> {is(5, 1)}]
MCPrevailOverall == [o \in Op |-> CASE o \in {"mend", "hurry"} -> {is(1, 1)} [] OTHER -> {}]
MCPrevailEnd == [o \in Op |-> {}]
MCEffectStart ==
    [o \in Op |-> CASE o = "light" -> {sets(1, 1)}
                    [] o = "walk" -> {[sets(3, 2) EXCEPT !.pre = 0]}
                    [] o \in {"leave", "hurry"} -> {[sets(3, 2) EXCEPT !.pre = 1]}
                    [] o = "mend" -> {}
                    [] OTHER -> {sets(5, 0)}]
MCEffectEnd ==
    [o \in Op |-> CASE o = "light" -> {sets(1, 0)}
                    [] o = "mend" -> {sets(2, 1)}
                    [] o = "walk" -> {sets(3, 1)}
                    [] o \in {"leave", "hurry"} -> {sets(3, 0)}
                    [] OTHER -> {sets(4, 1)}]
MCModuleEffectEnd == [o \in Op |-> {}]
MCAxiom == {}
MCInitialValue == [x \in Var |-> IF x = 5 THEN 1 ELSE 0]
\* Leaving in a hurry, and in the light, has the same name.
MCName == [o \in Op |-> IF o = "hurry" THEN "leave" ELSE o]
MCGoal == {is(2, 1), is(3, 0), is(4, 1)}
=============================================================================
