--------------------------- MODULE Rescheduling ---------------------------
(***************************************************************************)
(* The rescheduling of plans (downward/search/partial_order_lifter.cpp):   *)
(* the starts and ends of the actions of a plan are taken from the trace   *)
(* of its search, what has to come before what is worked out, and every    *)
(* action starts as early as a simple temporal network of that allows.     *)
(*                                                                         *)
(* A trace is a branch of the search that reaches the goal.  The instants  *)
(* of the actions are numbered from 1, in the order of the trace.  The     *)
(* variables of effect conditions are left out: nothing reads them.        *)
(***************************************************************************)
EXTENDS TimeStampedState, SimpleTemporalProblem
LOCAL INSTANCE TLC

CONSTANTS
    Eps,       \* g_parameters.epsTimeComparison, in units of time
    MaxStarts  \* bound: actions of a plan

\* Before and after the start of an operator it is the same time (an assertion
\* of buildInstantPlan, which does not allow for epsilonize_internally).
ASSUME ReschedulingAssumption == Eps \in Nat \ {0} /\ MaxStarts \in Nat /\ Gap < Eps

\* A duration is a distance of the network, and not the one that stands for none.
ASSUME DurationsFit == \A o \in Op : Duration[o] < INF

VARIABLES
    stage,     \* the function that is to run
    trace,     \* PlanTrace: the states of the branch
    plan,      \* the steps of the plan, and then its new schedule
    instants,  \* instant_plan
    order,     \* partial_order
    stn,       \* the network
    ordering,  \* m_orderingIndexIsOrder as far as it is known, from its end
    neighbors, \* m_numberOfNeighbors
    distances, \* m_minimalDistances
    queue      \* nodesToUpdate

vars == <<stage, trace, plan, instants, order, stn, ordering, neighbors, distances, queue>>
networkVars == <<stn, ordering, neighbors, distances, queue>>

Init ==
    /\ stage = "search"
    /\ trace = <<InitialState>>
    /\ plan = <<>>
    /\ instants = <<>>
    /\ order = {}
    /\ stn = Unconstrained(0)
    /\ ordering = <<>>
    /\ neighbors = <<>>
    /\ distances = <<>>
    /\ queue = <<>>

----------------------------------------------------------------------------
(* The branch of the search                                                *)

\* The state the branch has reached.
Now == trace[Len(trace)]

StartOperator(o) ==
    /\ stage = "search"
    /\ Len(plan) < MaxStarts
    /\ Duration[o] > 0
    /\ IsApplicable(Now, o)
    /\ trace' = Append(trace, ApplyOperator(Now, o))
    /\ plan' = Append(plan, [start |-> Now.timestamp, op |-> o])
    /\ UNCHANGED <<stage, instants, order, networkVars>>

PassTime ==
    /\ stage = "search"
    /\ Now.operators # {}
    /\ trace' = Append(trace, LetTimePass(Now, TRUE))
    /\ UNCHANGED <<stage, plan, instants, order, networkVars>>

\* sortPlan is not made for a plan without a step.
SolutionFound ==
    /\ stage = "search"
    /\ Now.operators = {}
    /\ Holds(Goal, Now.value)
    /\ plan # <<>>
    /\ stage' = "buildInstantPlan"
    /\ UNCHANGED <<trace, plan, instants, order, networkVars>>

----------------------------------------------------------------------------
(* buildInstantPlan                                                        *)

\* The differences between two states.
TriggeringEffects(before, after) ==
    {[var |-> x, prev |-> after.value[x]] : x \in {y \in Var : before.value[y] # after.value[y]}}

\* findPreconditions: the conditions and old values of an operator's start or end.
Preconditions(o, type) ==
    LET conds == IF type = "start" THEN PrevailStart[o] ELSE PrevailEnd[o]
        effects == IF type = "start" THEN EffectStart[o] ELSE EffectEnd[o]
    IN  conds \cup {[var |-> e.var, prev |-> e.pre] : e \in {f \in effects : f.pre # -1}}

\* doubleEquComp: times that are the same key of a map.
SameTime(a, b) == a <= b + Eps /\ b <= a + Eps

Latest(S) == CHOOSE i \in S : \A j \in S : j <= i

\* getIndexOfPlanStep
IndexOfPlanStep(o, time) ==
    Least({i \in DOMAIN plan :
        Name[plan[i].op] = Name[o] /\ plan[i].start - time \in (1 - Eps)..(Eps - 1)})

Instant(type, step, o, before, after) ==
    [type |-> type, step |-> step, op |-> o, timepoint |-> after.timestamp, endAction |-> 0,
     preconditions |-> Preconditions(o, type),
     effects |-> TriggeringEffects(before, after),
     overall |-> PrevailOverall[o]]

\* The action that started at this happening.
StartInstants(before, after) ==
    LET started == CHOOSE x \in after.operators : x \notin before.operators
    IN  <<Instant("start", IndexOfPlanStep(started.op, after.timestamp), started.op, before, after)>>

\* actionsEndingAtGivenTime: the starts of actions that end then and did not yet.
Ending(earlier, time) ==
    {i \in DOMAIN earlier :
        /\ earlier[i].type = "start" /\ earlier[i].endAction = 0
        /\ SameTime(earlier[i].timepoint + Duration[earlier[i].op], time)}

\* The k-th new instant after the earlier ones.
EndIndex(earlier, k) == Len(earlier) + k

\* The instants with those of one more happening.  All actions that end at a
\* happening get all its effects, and are the end of what started them.
AfterHappening(earlier, before, after) ==
    IF Cardinality(before.operators) < Cardinality(after.operators)
    THEN earlier \o StartInstants(before, after)
    ELSE LET starts == Ascending(Ending(earlier, after.timestamp), Len(earlier))
             end(k) == LET start == earlier[starts[k]]
                       IN  Instant("end", start.step, start.op, before, after)
             matched == [i \in DOMAIN earlier |->
                            IF i \in Ending(earlier, after.timestamp)
                            THEN [earlier[i] EXCEPT !.endAction =
                                     EndIndex(earlier, CHOOSE k \in DOMAIN starts : starts[k] = i)]
                            ELSE earlier[i]]
         IN  matched \o [k \in DOMAIN starts |-> end(k)]

BuildInstantPlan ==
    /\ stage = "buildInstantPlan"
    /\ instants' = LET after[k \in 0..(Len(trace) - 1)] ==
                           IF k = 0 THEN <<>>
                           ELSE AfterHappening(after[k - 1], trace[k], trace[k + 1])
                   IN  after[Len(trace) - 1]
    /\ stage' = "buildPartialOrder"
    /\ UNCHANGED <<trace, plan, order, networkVars>>

----------------------------------------------------------------------------
(* buildPartialOrder                                                       *)

\* The instants before the i-th, other than of the same action.
Before(i) == {k \in 1..(i - 1) : instants[k].step # instants[i].step}

\* Step (a): the latest instant that achieves a condition of instant i.
Achievers(i, c) ==
    LET found == {k \in Before(i) : c \in instants[k].effects}
    IN  {k \in found : \A j \in found : j <= k}

PrimaryAdds(k) ==
    {c \in UNION {instants[i].preconditions : i \in DOMAIN instants} :
        \E i \in DOMAIN instants : c \in instants[i].preconditions /\ k \in Achievers(i, c)}

\* Another value of the same variable.
Clashes(c, d) == c.var = d.var /\ c.prev # d.prev

\* Mutant of Threatened: conditions are not protected.
ThreatenedEffects(i) ==
    {k \in Before(i) :
        \E e \in instants[i].effects : \E c \in instants[k].effects : Clashes(c, e)}

\* Step (b) and the mutex: earlier instants with a condition or an effect that
\* an effect of i destroys.
Threatened(i) ==
    {k \in Before(i) :
        \E e \in instants[i].effects :
            \E c \in instants[k].preconditions \cup instants[k].effects : Clashes(c, e)}

\* Step (c): earlier instants with an effect that destroys what i achieves.
Destroyers(i) ==
    {k \in Before(i) : \E c \in PrimaryAdds(i) : \E e \in instants[k].effects : Clashes(c, e)}

\* Mutant of OverallOrder: what comes after the action is not kept out.
OverallBefore(i) ==
    {<<k, i>> : k \in {j \in DOMAIN instants :
        /\ instants[j].step # instants[i].step
        /\ \E c \in instants[i].overall : \E e \in instants[j].effects : e.var = c.var
        /\ instants[i].type = "start" /\ instants[i].timepoint >= instants[j].timepoint}}

\* What changes a variable of an over-all condition stays out of the action.
OverallOrder(i) ==
    LET touches == {k \in DOMAIN instants :
            /\ instants[k].step # instants[i].step
            /\ \E c \in instants[i].overall : \E e \in instants[k].effects : e.var = c.var}
    IN  IF instants[i].type = "start"
        THEN {<<k, i>> : k \in {j \in touches : instants[i].timepoint >= instants[j].timepoint}}
        ELSE {<<i, k>> : k \in {j \in touches : instants[i].timepoint <= instants[j].timepoint}}

OrderOf(i) ==
    {<<k, i>> : k \in (UNION {Achievers(i, c) : c \in instants[i].preconditions})
                      \cup Threatened(i) \cup Destroyers(i)}
    \cup OverallOrder(i)

BuildPartialOrder ==
    /\ stage = "buildPartialOrder"
    /\ order' = UNION {OrderOf(i) : i \in DOMAIN instants}
    /\ stage' = "createSTN"
    /\ UNCHANGED <<trace, plan, instants, networkVars>>

----------------------------------------------------------------------------
(* createAndSolveSTN                                                       *)

\* An action starts after X0 and takes its duration.
Constrained(network, i) ==
    IF instants[i].type = "start"
    THEN SetSingletonInterval(SetUnboundedIntervalFromXZero(network, i, 0),
                              i, instants[i].endAction, Duration[instants[i].op])
    ELSE network

\* Mutant of Separated: at the same time is as good.
AtLeastTogether(network, pair) == SetUnboundedInterval(network, pair[1], pair[2], 0)

Separated(network, pair) == SetUnboundedInterval(network, pair[1], pair[2], Eps)

\* The pairs of the order that begin with instant i: the set is iterated over in
\* the order of its pairs.
SeparatedFrom(network, i) ==
    LET cell[j \in 0..Len(instants)] ==
            IF j = 0 THEN network
            ELSE IF <<i, j>> \in order THEN Separated(cell[j - 1], <<i, j>>) ELSE cell[j - 1]
    IN  cell[Len(instants)]

Durations ==
    LET network[i \in 0..Len(instants)] ==
            IF i = 0 THEN Unconstrained(Len(instants)) ELSE Constrained(network[i - 1], i)
    IN  network[Len(instants)]

Network ==
    LET network[i \in 0..Len(instants)] ==
            IF i = 0 THEN Durations ELSE SeparatedFrom(network[i - 1], i)
    IN  network[Len(instants)]

CreateSTN ==
    /\ stage = "createSTN"
    /\ stn' = Network
    /\ ordering' = <<>>
    /\ neighbors' = NumberOfNeighbors(stn')
    /\ distances' = MinimalDistances(stn')
    /\ queue' = <<XZero(stn')>>
    /\ stage' = "makeGraphChordal"
    /\ UNCHANGED <<trace, plan, instants, order>>

Ordered == {ordering[k] : k \in DOMAIN ordering}

\* makeGraphChordal, one node: its neighbours get arcs to each other.  The
\* neighbours lose one, and with every new arc gain one.
EliminateNode ==
    /\ stage = "makeGraphChordal"
    /\ LET node == NextNodeInOrdering(stn, neighbors, Ordered)
           children == Children(stn, node, Ordered)
           missing == MissingArcs(stn, children)
       IN  /\ ordering' = <<node>> \o ordering
           /\ stn' = CreateFillEdges(stn, missing)
           /\ neighbors' = [j \in Nodes(stn) |->
                 neighbors[j] - Cardinality({<<node, j>>} \cap stn.arcs)
                              + Cardinality({e \in missing : j \in {e[1], e[2]}})]
    /\ stage' = IF Len(ordering') = stn.n THEN "performDPC" ELSE stage
    /\ UNCHANGED <<trace, plan, instants, order, distances, queue>>

\* performDPC, from the last node to the first.  The assertion isValid fails
\* if there is no schedule.
PerformDPC ==
    /\ stage = "performDPC"
    /\ LET result[k \in 0..stn.n] ==
               IF k = 0 THEN [stn |-> stn, valid |-> TRUE]
               ELSE LET last == result[k - 1]
                        next == DirectPaths(last.stn, ordering, stn.n + 1 - k)
                    IN  IF ~last.valid THEN last
                        ELSE [stn |-> next, valid |-> ~IsContradiction(next, ordering, stn.n + 1 - k)]
       IN  /\ stn' = result[stn.n].stn
           /\ stage' = IF result[stn.n].valid THEN "tighten" ELSE "aborted"
    /\ UNCHANGED <<trace, plan, instants, order, ordering, neighbors, distances, queue>>

Tighten ==
    /\ stage = "tighten"
    /\ stn' = LET matrix[k \in 0..stn.n] ==
                      IF k = 0 THEN stn ELSE TightenNode(matrix[k - 1], ordering, k)
              IN  matrix[stn.n]
    /\ stage' = "extractMinimalDistances"
    /\ UNCHANGED <<trace, plan, instants, order, ordering, neighbors, distances, queue>>

\* extractMinimalDistances, one node of the queue.
ExtractMinimalDistances ==
    /\ stage = "extractMinimalDistances"
    /\ queue # <<>>
    /\ distances' = Relaxed(stn, distances, Head(queue))
    /\ queue' = Tail(queue) \o GotCloser(stn, distances, distances')
    /\ UNCHANGED <<stage, trace, plan, instants, order, stn, ordering, neighbors>>

\* sortPlan: neighbours are swapped until none is late by more than Eps.
SortPlan(p) ==
    LET late(q) == {i \in 1..(Len(q) - 1) : q[i].start - Eps > q[i + 1].start}
        pass[k \in 0..(Len(p) * Len(p))] ==
            IF k = 0 THEN p
            ELSE LET q == pass[k - 1]
                 IN  IF late(q) = {} THEN q
                     ELSE [q EXCEPT ![Least(late(q))] = q[Least(late(q)) + 1],
                                    ![Least(late(q)) + 1] = q[Least(late(q))]]
    IN  pass[Len(p) * Len(p)]

\* The times of the starts of a step, of which the last one counts; a step that is
\* not found stays where it is.
StartOf(s) ==
    LET times == {-distances[i] : i \in
                     {k \in DOMAIN instants : instants[k].type = "start" /\ instants[k].step = s}}
    IN  IF times = {} THEN plan[s].start ELSE Latest(times)

\* The starts of the actions are those of the network, the ends follow.
Reschedule ==
    /\ stage = "extractMinimalDistances"
    /\ queue = <<>>
    /\ plan' = SortPlan([s \in DOMAIN plan |-> [plan[s] EXCEPT !.start = StartOf(s)]])
    /\ stage' = "done"
    /\ UNCHANGED <<trace, instants, order, networkVars>>

Next ==
    \/ \E o \in Op : StartOperator(o)
    \/ PassTime
    \/ SolutionFound
    \/ BuildInstantPlan
    \/ BuildPartialOrder
    \/ CreateSTN
    \/ EliminateNode
    \/ PerformDPC
    \/ Tighten
    \/ ExtractMinimalDistances
    \/ Reschedule

Spec == Init /\ [][Next]_vars

----------------------------------------------------------------------------
(* Properties                                                              *)

\* s when time has passed to t: what ends until then has ended.
Until(s, t) ==
    LET state[k \in 0..Cardinality(s.operators)] ==
            IF k = 0 THEN s
            ELSE LET last == state[k - 1]
                 IN  IF last.operators = {} \/ last.timestamp + NextHappening(last) > t
                     THEN last ELSE LetTimePass(last, FALSE)
        end == state[Cardinality(s.operators)]
    IN  PassBy(end, t - end.timestamp)

\* The states after step is started at its time, if it may be: at most one.
Started(S, step) ==
    {ApplyOperator(s, step.op) :
        s \in {t \in {Until(r, step.start) : r \in {x \in S : x.timestamp <= step.start}} :
                  IsApplicable(t, step.op)}}

\* The states a schedule leads to: none if it cannot be executed.
Execute(p) ==
    LET steps == SortSeq(p, LAMBDA a, b : a.start < b.start)
        after[k \in 0..Len(p)] ==
            IF k = 0 THEN {InitialState} ELSE Started(after[k - 1], steps[k])
    IN  {Until(s, s.timestamp + Latest({0} \cup {x.increment : x \in s.operators})) : s \in after[Len(p)]}

\* Every plan the search finds has a schedule, as the assertion isValid says.
AlwaysSchedulable == stage # "aborted"

\* P3C and Floyd and Warshall agree: there is no schedule for one if there is none for
\* the other, and the distances the schedule is made of are those of shortest paths in
\* the network as it was made.
DistancesAreShortest ==
    \A solved \in {Solve(Network) : s \in {"done", "aborted"} \cap {stage}} :
        IF stage = "aborted" THEN ~SolutionIsValid(solved)
        ELSE /\ SolutionIsValid(solved)
             /\ \A i \in Nodes(stn) : distances[i] = solved.matrix[<<i, XZero(stn)>>]

\* What comes before something in the order, and is not also to come after it, does
\* so in the schedule, whatever the fill edges, the elimination and the queue make
\* of the network; and every action takes its duration.
OrderIsKept ==
    stage = "done" =>
        /\ \A pair \in order :
              \/ <<pair[2], pair[1]>> \in order
              \/ -distances[pair[1]] + Eps <= -distances[pair[2]]
        /\ \A i \in DOMAIN instants :
              instants[i].type = "start" /\ instants[i].endAction # 0 =>
                  -distances[instants[i].endAction] = -distances[i] + Duration[instants[i].op]

\* The new schedule can be executed and reaches the goal.
RescheduledIsExecutable ==
    stage = "done" => \E s \in Execute(plan) : Holds(Goal, s.value)
============================================================================
