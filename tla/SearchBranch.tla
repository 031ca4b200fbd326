---------------------------- MODULE SearchBranch ----------------------------
(***************************************************************************)
(* The branches of the search tree (downward/search/best_first_search.cpp): *)
(* the states reached from the initial state by the successors             *)
(* generate_successors inserts and step() does not throw away.             *)
(***************************************************************************)
EXTENDS Monitoring

CONSTANT MaxTime   \* bound: no operator is started after this time

ASSUME MaxTimeAssumption == MaxTime \in Nat

VARIABLES
    current,   \* current_state: the states on one branch of the search
    steps      \* the operators started on this branch, in order (trace_path)

stateVars == <<current, steps>>

Init ==
    /\ current = InitialState
    /\ steps = <<>>

\* A successor by an operator: applicable, and not of zero duration.
StartOperator(o) ==
    /\ current.timestamp <= MaxTime
    /\ IsApplicable(current, o)
    /\ Duration[o] > 0
    /\ current' = ApplyOperator(current, o)
    /\ steps' = Append(steps, o)

\* The successor g_let_time_pass.
PassTime ==
    /\ current.operators # {}
    /\ current' = LetTimePass(current, TRUE)
    /\ UNCHANGED steps

Next ==
    \/ \E o \in Op : StartOperator(o)
    \/ PassTime

Spec == Init /\ [][Next]_stateVars

----------------------------------------------------------------------------
(* Properties                                                              *)

\* As long as an operator runs, its over-all conditions hold, whatever was
\* started or ended meanwhile.
OverAllIsKept ==
    \A x \in current.operators : Holds(PrevailOverall[x.op], current.value)

\* Every state on a branch can be completed: what runs can run to its end
\* without violating a condition.
CanBeCompleted == IsConsistentWhenProgressed(current)

\* What is pending belongs to an operator that runs, and is due at its end.
PendingFollowsOperators ==
    \A x \in current.effects \cup current.moduleEffects \cup current.overall \cup current.atEnd :
        \E o \in current.operators : o.op = x.op /\ o.increment = x.increment

\* The effects and conditions of an operator that runs are pending: the
\* conditions all of them, the effects unless they have conditions.
OperatorsKeepPending ==
    \A o \in current.operators :
        /\ \A e \in EffectEnd[o.op] : e.start \cup e.overall = {} =>
              [increment |-> o.increment, effect |-> e, op |-> o.op] \in current.effects
        /\ \A c \in PrevailOverall[o.op] :
              [increment |-> o.increment, cond |-> c, op |-> o.op] \in current.overall

\* The operators that run in s, with their ends and the effects to come.
RunningAction(s, o) ==
    [op |-> o.op, end |-> s.timestamp + o.increment,
     fires |-> {x.effect : x \in {y \in s.effects : y.op = o.op}}]
RunningActions(s) == {RunningAction(s, o) : o \in s.operators}

Actions == INSTANCE DurativeActions
              WITH now <- current.timestamp, value <- current.value,
                   running <- RunningActions(current)

\* A branch of the search is an execution of durative actions: effects happen
\* when their operator ends, once, if their conditions held, and nothing else
\* changes a value.
ImplementsActions == Actions!ActionsSpec

\* An operator that ends does so with its at-end conditions fulfilled, by the
\* values just before or by those just after the happening.
AtEndIsKept ==
    [][\A x \in current.operators :
          (\A y \in current'.operators : y.op # x.op) =>
              \/ Holds(PrevailEnd[x.op], current.value)
              \/ Holds(PrevailEnd[x.op], current'.value)]_stateVars

NamesOf(plan) == [k \in 1..Len(plan) |-> Name[plan[k]]]

\* The search reports a plan when nothing runs and the goal holds; the monitor
\* accepts it in the same initial state, although it ignores the time stamps.
MonitorConfirmsSearch ==
    current.operators = {} /\ Holds(Goal, current.value) => ValidatePlan(InitialState, NamesOf(steps))
=============================================================================
