------------------------- MODULE MCSearchBranch -----------------------------
(***************************************************************************)
(* A small temporal domain for SearchBranch, after the match cellar:       *)
(* a fuse is mended by the light of a match.                 *)
(***************************************************************************)
EXTENDS SearchBranch

\* 1 light, 2 fuse, 3 place, 4 derived: the fuse can be seen, 5 seen by a module
is(x, v) == [var |-> x, prev |-> v]
sets(x, v) == [var |-> x, pre |-> -1, post |-> v, start |-> {}, overall |-> {}, end |-> {}]

MCDuration == [o \in Op |-> CASE o = "light" -> 6 [] o = "mend" -> 4 [] o = "walk" -> 4]

MCPrevailStart == [o \in Op |-> CASE o = "light" -> {is(1, 0)} [] o = "mend" -> {is(4, 1)}
                                  [] o = "walk" -> {}]
MCPrevailOverall == [o \in Op |-> CASE o = "mend" -> {is(1, 1)} [] OTHER -> {}]
MCPrevailEnd == [o \in Op |-> CASE o = "mend" -> {is(3, 1)} [] OTHER -> {}]

\* The match is used up at the end of "light"; walking leaves place v for 1 - v;
\* the fuse is only mended by who is still there, and the light stays on then.
MCEffectStart == [o \in Op |-> CASE o = "light" -> {sets(1, 1)} [] OTHER -> {}]
MCEffectEnd ==
    [o \in Op |-> CASE o = "light" -> {sets(1, 0)}
                    [] o = "mend" -> {[sets(2, 1) EXCEPT !.overall = {is(1, 1)}, !.end = {is(3, 1)}]}
                    [] o = "walk" -> {[sets(3, 1 - v) EXCEPT !.start = {is(3, v)}] : v \in {0, 1}}]
MCModuleEffectEnd == [o \in Op |-> CASE o = "light" -> {sets(5, 1)} [] OTHER -> {}]

\* The fuse can be seen where it is and in the light.
MCAxiom == {[head |-> 4, body |-> {is(1, 1), is(3, 1)}]}
MCInitialValue == [x \in Var |-> IF x = 3 THEN 1 ELSE 0]
MCGoal == {is(2, 1)}
MCName == [o \in Op |-> o]
=============================================================================
