------------------------- MODULE CyclicCGHeuristic -------------------------
(***************************************************************************)
(* The cyclic causal graph heuristic of the search                         *)
(* (downward/search/cyclic_cg_heuristic.cpp, heuristic.cpp): states are    *)
(* evaluated one after the other; the local problems and what was computed *)
(* in them stay.                                                           *)
(***************************************************************************)
EXTENDS CausalConstraints, AxiomEvaluation

LOCAL INSTANCE SequencesExt

CONSTANTS
    Configurations,     \* <<t, m>>: what the search may read, and the heuristic's mode:
                        \* "CEA", "SUFFIX_MAKESPAN"
    States(_),   \* the states of a task from which a branch of the search may start
    Successors(_, _),   \* the states that may follow a state
    Rounds              \* bound: states that are evaluated

VARIABLES
    mode,        \* of the heuristic
    local,       \* the evaluation in the local problems
    heuristic,   \* the value; DeadEnd
    preferred,   \* preferred_operators
    pc,          \* what compute_heuristic() does
    round        \* states evaluated so far

vars == <<file, types, graphs, state, mode, local, heuristic, preferred, pc, round>>

DeadEnd == -1

Satisfied == \A g \in ToSet(GoalConds) : state.value[g[1]] = g[2]

\* The task, and a state of it.
ReadEverything(task) ==
    /\ file = task
    /\ types = VariableTypes(task)
    /\ graphs = ReadGraphs(task)
    /\ state \in States(task)

Init ==
    /\ \E c \in Configurations : ReadEverything(c[1]) /\ mode = c[2]
    /\ local = NoProblemInitialized
    /\ heuristic = 0
    /\ preferred = {}
    /\ pc = "evaluate"
    /\ round = 1

\* A goal state costs nothing, if nothing runs.
GoalReached ==
    /\ pc = "evaluate"
    /\ Satisfied
    /\ state.operators = <<>>
    /\ heuristic' = 0
    /\ preferred' = {}
    /\ pc' = "done"
    /\ UNCHANGED <<file, types, graphs, state, mode, local, round>>

Initialize ==
    /\ pc = "evaluate"
    /\ ~Satisfied \/ state.operators # <<>>
    /\ local' = InitializeProblem([local EXCEPT !.base = [p \in Problems |-> -1], !.queue = <<>>, !.waiting = -1],
                                  <<0, 0>>, 0)
    /\ preferred' = {}
    /\ pc' = IF local'.abort = "" THEN "compute_costs" ELSE "aborted"
    /\ UNCHANGED <<file, types, graphs, state, mode, heuristic, round>>

\* compute_costs: one node from the queue.
Expand ==
    /\ pc = "compute_costs"
    /\ local.queue # <<>>
    /\ LET n == Head(local.queue)
           rest == RemoveFromQueue(local)
       IN  local' = IF n = GoalNode \/ local.node[n].expanded THEN rest ELSE OnExpand(rest, n)
    /\ pc' = IF local'.abort # "" THEN "aborted" ELSE IF Head(local.queue) = GoalNode THEN "reached" ELSE pc
    /\ UNCHANGED <<file, types, graphs, state, mode, heuristic, preferred, round>>

\* The goal has not been reached: preferred_operators is empty still.
QueueIsEmpty ==
    /\ pc = "compute_costs"
    /\ local.queue = <<>>
    /\ heuristic' = DeadEnd
    /\ pc' = "done"
    /\ UNCHANGED <<file, types, graphs, state, mode, local, preferred, round>>

LongestRunning == Max({0} \cup {r.increment : r \in ToSet(state.operators)})

\* What is returned for a relaxed plan that takes this long from now.
SuffixMakespan(makespan) ==
    IF state.operators # <<>> /\ makespan = LongestRunning THEN 9 ELSE makespan - LongestRunning

\* What is returned for the cost of the goal.
CostWithWaiting(cost) ==
    (IF state.operators # <<>> /\ cost = 0 THEN 9 ELSE cost) + (IF local.waiting > Eps THEN local.waiting ELSE 0)

\* The assertion that fails while the value is returned.
Failure(marked, plan) ==
    IF marked.abort # "" THEN marked.abort
    ELSE IF mode = "CEA" THEN ""
    ELSE IF plan.abort # "" THEN plan.abort
    ELSE IF Contradicts(plan) THEN "isValid"
    ELSE IF Makespan(plan) < LongestRunning THEN "longestRunningAction" ELSE ""

\* What is returned for the cost of the goal; plan is only there to be scheduled.
Answer(cost, marked, plan) ==
    /\ preferred' = marked.preferred
    /\ local' = [local EXCEPT !.abort = Failure(marked, plan)]
    /\ heuristic' = IF local'.abort # "" THEN heuristic
                    ELSE IF mode = "CEA" THEN CostWithWaiting(cost)
                    ELSE SuffixMakespan(Makespan(plan))

Return ==
    /\ pc = "reached"
    /\ LET cost == local.node[GoalNode].cost
           unmarked == [preferred |-> {}, abort |-> ""]
       IN  Answer(cost, IF cost = 0 THEN unmarked ELSE MarkHelpful(local, unmarked, GoalNode), RelaxedPlan(local))
    /\ pc' = IF local'.abort # "" THEN "aborted" ELSE "done"
    /\ UNCHANGED <<file, types, graphs, state, mode, round>>

\* The search goes on to a successor.
NextState ==
    /\ pc = "done"
    /\ round < Rounds
    /\ state' \in Successors(file, state)
    /\ pc' = "evaluate"
    /\ round' = round + 1
    /\ UNCHANGED <<file, types, graphs, mode, local, heuristic, preferred>>

Next == GoalReached \/ Initialize \/ Expand \/ QueueIsEmpty \/ Return \/ NextState

Spec == Init /\ [][Next]_vars

----------------------------------------------------------------------------
(* Properties                                                              *)

Deduced(rules) == {r.effect : r \in {q \in ToSet(rules) : state.value[q.effect] = q.new}}
Fires(r) == \A c \in ToSet(r.conditions) : state.value[c[1]] = c[2]

\* The propagation of literals (axioms.cpp:217) ends with the right values of the
\* derived variables, whatever the order of the queue: every rule whose conditions
\* hold has been applied, negation by failure of lower layers included, and what
\* has been deduced does not rest on itself.
DerivedValuesAreFounded ==
    LET rules == file.relational
    IN  /\ \A r \in ToSet(rules) : Fires(r) => r.effect \in Deduced(rules)
        /\ \A U \in SUBSET Deduced(rules) :
              U # {} => \E r \in ToSet(rules) :
                            /\ r.effect \in U
                            /\ Fires(r)
                            /\ \A c \in ToSet(r.conditions) : c[1] \notin U

\* No assertion of the heuristic fails, whatever was computed for other states
\* before.
NothingAborts == pc # "aborted"

\* What has been expanded is not reached again at a lower cost: what was told of
\* it is right (Dijkstra's invariant, across all local problems).
CostsAreFinal ==
    [][pc = "compute_costs" =>
          \A n \in DOMAIN local.node :
             local.node[n].expanded /\ local.base[Problem(n)] # -1 => local'.node[n].cost >= local.node[n].cost]_vars
=============================================================================
