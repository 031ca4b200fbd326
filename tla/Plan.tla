-------------------------------- MODULE Plan --------------------------------
(***************************************************************************)
(* Plans and durative actions of the continual planning executive          *)
(* (continual_planning_executive/src/plan.cpp) and what it means for a     *)
(* plan to lead to the goal (downward/search/monitoring.cpp).              *)
(*                                                                         *)
(* A plan maps step numbers to actions, or to None where there is no (or   *)
(* no longer an) action: the vector's order is the order of the steps, and *)
(* a step keeps its number when others are erased, so that properties can  *)
(* speak of one and the same step.  Times are in milliseconds.             *)
(***************************************************************************)
EXTENDS Integers, FiniteSets

CONSTANTS
    Name,       \* names (with duration and parameters), numbered in operator< order
    MaxSteps,   \* the longest plan
    None,       \* no action
    Fact,       \* the Boolean state variables
    Pre, Add, Del,  \* the domain: per name, the facts needed, made true, made false
    Goal        \* the facts the goal asks for

Step == 1..MaxSteps
DurativeAction == [name : Name, startTime : Nat]
PlanSet == [Step -> DurativeAction \cup {None}]

ASSUME PlanAssumption ==
    /\ Name \subseteq Nat
    /\ MaxSteps \in Nat
    /\ None \notin DurativeAction
    /\ Pre \in [Name -> SUBSET Fact]
    /\ Add \in [Name -> SUBSET Fact]
    /\ Del \in [Name -> SUBSET Fact]
    /\ Goal \subseteq Fact

EmptyPlan == [k \in Step |-> None]
Steps(p) == {k \in Step : p[k] # None}
IsEmpty(p) == Steps(p) = {}

Minimum(S) == CHOOSE t \in S : \A u \in S : t <= u

\* DurativeAction::operator<, the order in which std::set iterates.
Before(a, b) ==
    \/ a.name < b.name
    \/ a.name = b.name /\ a.startTime < b.startTime

\* Mutant of RemoveAction: the start time does not count.
RemoveActionByName(p, a) ==
    LET kept == {k \in Steps(p) : p[k].name # a.name}
        earliestTime == Minimum({p[k].startTime : k \in kept})
    IN  [k \in Step |->
            IF k \in kept
            THEN [name |-> p[k].name, startTime |-> p[k].startTime - earliestTime]
            ELSE None]

\* Plan::removeAction: erase every action equal to a (the start time counts),
\* then move the rest so that the earliest of them starts at 0.
RemoveAction(p, a) ==
    LET kept == {k \in Steps(p) : p[k] # a}
        earliestTime == Minimum({p[k].startTime : k \in kept})
    IN  [k \in Step |->
            IF k \in kept
            THEN [name |-> p[k].name, startTime |-> p[k].startTime - earliestTime]
            ELSE None]

----------------------------------------------------------------------------
\* The effect of an action on a set of facts.
Apply(n, s) == (s \ Del[n]) \cup Add[n]

\* An action is started by the executive only up to this start time (0.01 s).
ZeroTime == 10

\* The steps that have to wait, and whether k is the first of them.
Late(p) == {k \in Steps(p) : p[k].startTime > ZeroTime}
EndsWait(p, k) == k \in Late(p) /\ \A j \in Late(p) : k <= j

\* The announced facts timed come true before the first step that has to wait.
Arrived(p, timed, k) == IF EndsWait(p, k) THEN timed ELSE {}

\* The facts after step k of p where s held before it.
After(p, timed, k, s) ==
    IF k \in Steps(p) THEN Apply(p[k].name, s \cup Arrived(p, timed, k)) ELSE s

\* The facts after the first k steps of p from s.
Progress(s, p, timed) ==
    LET after[k \in 0..MaxSteps] == IF k = 0 THEN s ELSE After(p, timed, k, after[k - 1])
    IN  after

\* The plan is applicable step by step from s.
IsExecutable(s, p, timed) ==
    \A k \in Steps(p) :
        Pre[p[k].name] \subseteq Progress(s, p, timed)[k - 1] \cup Arrived(p, timed, k)

\* It also ends in the goal, once the announced facts have come true.
LeadsToGoal(s, p, timed) ==
    /\ IsExecutable(s, p, timed)
    /\ Goal \subseteq Progress(s, p, timed)[MaxSteps] \cup IF Late(p) = {} THEN timed ELSE {}

\* Monitoring applies the steps in order, whatever their start times are
\* (monitoring_verify_timestamps is off).  An announced fact is compiled into
\* an action that every other action has to follow and the goal asks for; it
\* is not in the plan, so that nothing is accepted while a fact is announced.
MonitorAccepts(s, p, timed) == timed = {} /\ LeadsToGoal(s, p, {})
=============================================================================
