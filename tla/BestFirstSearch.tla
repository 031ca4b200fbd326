-------------------------- MODULE BestFirstSearch --------------------------
(***************************************************************************)
(* The planner's search (downward/search/best_first_search.cpp,            *)
(* closed_list.cpp, search_engine.cpp) and the anytime loop around it      *)
(* (planner.cpp): states are taken from the open list, closed, expanded,   *)
(* and every better plan is written to the plan file, until the time is up *)
(* or nothing is left.  What the executive is told is made of the exit     *)
(* code and the plan file (interface/tfdm_interface.cpp).                  *)
(*                                                                         *)
(* The heuristics only order the open list, so that any entry may be next. *)
(* An entry that several open lists hold is held once.                     *)
(***************************************************************************)
EXTENDS Monitoring

CONSTANTS
    None,      \* NULL
    TimePass,  \* g_let_time_pass
    Anytime,   \* g_parameters.anytime_search
    PassOnlyWhenRunning,  \* insert_let_time_pass_only_when_running_operators_not_empty
    HasTimeout, \* some of the timeouts is set
    IsDeadEnd(_) \* is_dead_end(): no heuristic finds a way from the state to the goal

ASSUME SearchAssumption ==
    /\ {Anytime, PassOnlyWhenRunning} \subseteq BOOLEAN
    /\ HasTimeout \in BOOLEAN
    /\ None \notin Op \cup {TimePass} \cup Nat
    /\ TimePass \notin Op

VARIABLES
    pc,            \* where main() and step() are
    current,       \* current_state, current_predecessor, current_operator
    closed,        \* the closed list: states, each with where it came from
    open,          \* the open lists: states to expand, each with an operator
    plan,          \* the plan the search found last
    bestMakespan,  \* of the plans written
    planFile,      \* plan.best
    result         \* search_result

vars == <<pc, current, closed, open, plan, bestMakespan, planFile, result>>

Results == {"SOLVED", "SOLVED_COMPLETE", "SOLVED_TIMEOUT", "FAILED", "FAILED_TIMEOUT"}
Node == [state : State, predecessor : State \cup {None}, operator : Op \cup {TimePass, None}]
PlanStep == [start : Nat, op : Op]

Init ==
    /\ pc = "step"
    /\ current = [state |-> InitialState, predecessor |-> None, operator |-> None]
    /\ closed = {}
    /\ open = {}
    /\ plan = None
    /\ bestMakespan = None
    /\ planFile = None
    /\ result = None

----------------------------------------------------------------------------
(* The closed list                                                         *)

\* How often each element of S occurs when it is not asked which operator it
\* belongs to.
Anonymous(S) ==
    LET name(x) == [x EXCEPT !.op = None]
    IN  [y \in {name(x) : x \in S} |-> Cardinality({x \in S : name(x) = y})]

\* What TssEquals compares: neither the time stamp, nor the running operators,
\* nor the scheduled module effects.
Key(s) == <<s.value, Anonymous(s.effects), Anonymous(s.overall), Anonymous(s.atEnd)>>

\* The entries of a closed list under the key of s.
Entries(list, s) == LET key == Key(s) IN {n \in list : Key(n.state) = key}

\* Mutant of Contains: a state of the same time does not count.
ContainsEarlier(s) == \E n \in Entries(closed, s) : n.state.timestamp < s.timestamp

\* Mutant of Contains: the time does not count.
ContainsAnytime(s) == Entries(closed, s) # {}

\* The state is known, and was reached no later.
Contains(s) == \E n \in Entries(closed, s) : n.state.timestamp <= s.timestamp

\* The steps of a path, each diff earlier.
MovedUp(path, diff) == [i \in DOMAIN path |-> [path[i] EXCEPT !.start = @ - diff]]

\* The step that led to entry n, if it was not to let time pass.
StepTo(n) == IF n.operator = TimePass THEN <<>>
             ELSE <<[start |-> n.predecessor.timestamp, op |-> n.operator]>>

\* Mutant of Prolonged: the new step moves up as well.
ProlongedThenMoved(path, n, diff) == MovedUp(StepTo(n) \o path, diff)

\* The path with the step to n before it, where n is diff earlier than the
\* state the path was traced to.
Prolonged(path, n, diff) == StepTo(n) \o MovedUp(path, diff)

\* trace_path, one step: a state is traced through the earliest entry under its
\* key; what comes after it moves up accordingly.
TraceStep(list, last) ==
    LET entries == Entries(list, last.at)
        n == CHOOSE m \in entries : \A e \in entries : m.state.timestamp <= e.state.timestamp
        diff == last.at.timestamp - n.state.timestamp
    IN  IF entries = {} \/ n.predecessor = None THEN last
        ELSE [at |-> n.predecessor, path |-> Prolonged(last.path, n, diff)]

\* trace_path: the steps that led to s.
TracePath(list, s) ==
    LET trace[k \in 0..(Cardinality(list) + 1)] ==
            IF k = 0 THEN [at |-> s, path |-> <<>>] ELSE TraceStep(list, trace[k - 1])
    IN  trace[Cardinality(list) + 1].path

----------------------------------------------------------------------------
(* BestFirstSearchEngine::step                                             *)

Latest(S) == CHOOSE i \in S : \A j \in S : j <= i

\* The time by which everything that runs in s, and what takes time d, is over.
MakespanWith(s, d) == s.timestamp + Latest({0, d} \cup {x.increment : x \in s.operators})

Improves(makespan) == bestMakespan = None \/ makespan < bestMakespan

\* States that lead to no better plan, are known or come from an operator that
\* takes no time are not closed.
Discarded ==
    \/ ~Improves(MakespanWith(current.state, 0))
    \/ Contains(current.state)
    \/ current.operator \in Op /\ Duration[current.operator] = 0

\* Nothing runs and the goal holds; check_goal is not called in a dead end.
IsGoal(s) == s.operators = {} /\ Holds(Goal, s.value) /\ ~IsDeadEnd(s)
AtGoal == IsGoal(current.state)

\* insert_successor: o is applicable in s and may lead to a better plan.
IsInserted(s, o) == Improves(MakespanWith(s, Duration[o])) /\ IsApplicable(s, o)

\* Letting time pass is a successor, by default whether anything runs or not.
MayPassTime(s) == PassOnlyWhenRunning => s.operators # {}

\* generate_successors, unless s itself is no better than the best plan: each
\* open list gets operators, preferred ones or the rest, and letting time pass.
\* It is not called in a dead end.
Successors(s) ==
    LET operators == {o \in Op : IsInserted(s, o)} \cup {o \in {TimePass} : MayPassTime(s)}
    IN  IF Improves(MakespanWith(s, 0)) /\ ~IsDeadEnd(s)
        THEN [parent : {s}, operator : operators]
        ELSE {}

\* A new state: it is closed, and either the search has found a plan or the
\* state is expanded.
CloseState ==
    /\ pc = "step"
    /\ ~Discarded
    /\ closed' = closed \cup {current}
    /\ IF AtGoal
       THEN /\ plan' = TracePath(closed', current.state)
            /\ pc' = "solved"
            /\ UNCHANGED open
       ELSE /\ open' = open \cup Successors(current.state)
            /\ pc' = "stepped"
            /\ UNCHANGED plan
    /\ UNCHANGED <<current, bestMakespan, planFile, result>>

\* Any other state is thrown away.  When time has passed the goal is tested
\* all the same: the operators that ended may have had no effect at their end.
DiscardState ==
    /\ pc = "step"
    /\ Discarded
    /\ IF /\ current.operator = TimePass
          /\ Improves(MakespanWith(current.state, 0))
          /\ AtGoal
       THEN plan' = TracePath(closed, current.state) /\ pc' = "solved"
       ELSE pc' = "stepped" /\ UNCHANGED plan
    /\ UNCHANGED <<current, closed, open, bestMakespan, planFile, result>>

Finish(r) == pc' = "done" /\ result' = r

\* The clock is read after every step that found no plan.
TimeOut ==
    /\ pc = "stepped"
    /\ HasTimeout
    /\ Finish(IF plan # None THEN "SOLVED_TIMEOUT" ELSE "FAILED_TIMEOUT")
    /\ UNCHANGED <<current, closed, open, plan, bestMakespan, planFile>>

\* select_open_queue takes the queues in turn, or by their priorities; what is on
\* top of one is up to the heuristics and the path costs.  Any entry may be next.
Selectable == open

\* The state that operator o, or letting time pass, leads to from s.
After(s, o) == IF o = TimePass THEN LetTimePass(s, TRUE) ELSE ApplyOperator(s, o)

\* fetch_next_state, with an entry to go on with.
FetchNextState ==
    /\ pc \in {"stepped", "saved"}
    /\ \E n \in Selectable :
          /\ open' = open \ {n}
          /\ current' = [state |-> After(n.parent, n.operator),
                         predecessor |-> n.parent, operator |-> n.operator]
    /\ pc' = "step"
    /\ UNCHANGED <<closed, plan, bestMakespan, planFile, result>>

\* fetch_next_state, with nothing left: "Completely explored state space".
Explored ==
    /\ pc \in {"stepped", "saved"}
    /\ Selectable = {}
    /\ Finish(IF plan # None THEN "SOLVED_COMPLETE" ELSE "FAILED")
    /\ UNCHANGED <<current, closed, open, plan, bestMakespan, planFile>>

----------------------------------------------------------------------------
(* planner.cpp                                                             *)

PlanMakespan(p) == Latest({0} \cup {p[i].start + Duration[p[i].op] : i \in DOMAIN p})

\* save_plan, which keeps a plan only if it is better, and on with the search
\* if it is an anytime search.
SavePlan ==
    /\ pc = "solved"
    /\ IF Improves(PlanMakespan(plan))
       THEN planFile' = plan /\ bestMakespan' = PlanMakespan(plan)
       ELSE UNCHANGED <<planFile, bestMakespan>>
    /\ IF Anytime THEN pc' = "saved" /\ UNCHANGED result ELSE Finish("SOLVED")
    /\ UNCHANGED <<current, closed, open, plan>>

Next ==
    \/ CloseState
    \/ DiscardState
    \/ TimeOut
    \/ FetchNextState
    \/ Explored
    \/ SavePlan

\* One sequential program that keeps running until it is done.  (WF_vars(Next),
\* with pc # "done" for ENABLED <<Next>>_vars, which TLC is slow to evaluate.)
Spec == Init /\ [][Next]_vars /\ ([]<>(pc = "done") \/ []<><<Next>>_vars)

----------------------------------------------------------------------------
(* tfdm_interface.cpp                                                      *)

\* The exit code of the planner.
ExitCode ==
    [r \in Results |-> CASE r \in {"SOLVED_TIMEOUT", "FAILED_TIMEOUT"} -> 137
                         [] r \in {"SOLVED", "SOLVED_COMPLETE"} -> 0
                         [] r = "FAILED" -> 1]

\* Mutant of ScriptExit: the time being up is no failure.
ScriptExitTimeless(code) == IF code \in {0, 137} THEN 0 ELSE 41

\* That of the script which runs it.
ScriptExit(code) == IF code \in {0, 137} THEN code ELSE 41

\* callPlanner: plan.best was removed before, so that a plan that is there now is
\* a new one, whatever the exit code says.
CallPlanner(status, written) ==
    CASE written -> IF Returned(status) = 137 THEN "PR_SUCCESS_TIMEOUT" ELSE "PR_SUCCESS"
      [] ~written /\ Returned(status) = 137 -> "PR_FAILURE_TIMEOUT"
      [] ~written /\ Returned(status) \notin {0, 137} -> "PR_FAILURE_OTHER"
      [] OTHER -> "PR_FAILURE_UNREACHABLE"

\* What plan() answers when the search is over.
PlannerAnswer == CallPlanner(WaitStatus(ScriptExit(ExitCode[result])), planFile # None)

----------------------------------------------------------------------------
(* Properties                                                              *)

\* s when time has passed to t: what ends until then has ended.
Until(s, t) ==
    LET state[k \in 0..Cardinality(s.operators)] ==
            IF k = 0 THEN s
            ELSE LET last == state[k - 1]
                 IN  IF last.operators = {} \/ last.timestamp + NextHappening(last) > t
                     THEN last ELSE LetTimePass(last, FALSE)
        end == state[Cardinality(s.operators)]
    IN  PassBy(end, t - end.timestamp)

\* The state after step is started at its time, if it may be: at most one.
Started(S, step) ==
    {ApplyOperator(s, step.op) :
        s \in {t \in {Until(r, step.start) : r \in {x \in S : x.timestamp <= step.start}} :
                  IsApplicable(t, step.op)}}

\* The state a plan leads to when each step is started at its time, if that can
\* be done.
Execute(p) ==
    LET after[k \in 0..Len(p)] ==
            IF k = 0 THEN {InitialState} ELSE Started(after[k - 1], p[k])
    IN  {Final(s) : s \in after[Len(p)]}

\* The plan as monitor() writes it to a file.
MonitoredFile(p) == [i \in DOMAIN p |-> [start |-> p[i].start, name |-> Name[p[i].op]]]

\* The plan file holds a plan that can be executed as its start times say and
\* reaches the goal, at the time the search takes for its makespan; monitoring
\* it in the state it was made for succeeds.
PlanIsExecutable ==
    planFile # None =>
        /\ \E s \in Execute(planFile) : Holds(Goal, s.value) /\ s.timestamp = bestMakespan
        /\ Monitor(InitialState, MonitoredFile(planFile)) = "PR_SUCCESS"

\* Nothing is gained by expanding t: it is known from as early a time, or takes
\* as long as the best plan.
IsSettled(t) ==
    \/ ~Improves(MakespanWith(t, 0))
    \/ \E n \in closed : Key(n.state) = Key(t) /\ n.state.timestamp <= t.timestamp

\* Nothing is missed: every step that may lead from a closed state, which is not a
\* goal or a dead end, to a better plan is still open, is being taken, or has led to a state
\* that is settled, whatever was thrown away in between.
NothingIsMissed ==
    \A n \in {c \in closed : ~IsGoal(c.state)} : \A m \in Successors(n.state) :
        \/ m.operator \in Op /\ Duration[m.operator] = 0
        \/ m \in open
        \/ pc = "step" /\ current.predecessor = m.parent /\ current.operator = m.operator
        \/ IsSettled(After(m.parent, m.operator))

\* plan() answers with a plan, and not because the time was up, or that there is
\* none, only where an anytime search has nothing left to try: it has closed the
\* initial state, and every step from a closed state that is not a goal leads to a
\* state that is settled.
AnswerIsFounded ==
    pc = "done" /\ Anytime /\ PlannerAnswer \notin {"PR_SUCCESS_TIMEOUT", "PR_FAILURE_TIMEOUT"} =>
        /\ IsSettled(InitialState)
        /\ \A n \in {c \in closed : ~IsGoal(c.state)} : \A m \in Successors(n.state) :
              \/ m.operator \in Op /\ Duration[m.operator] = 0
              \/ IsSettled(After(m.parent, m.operator))

\* The search comes to an end, although time, and with it the states, have no bound.
Termination == <>(pc = "done")
=============================================================================
