---------------------------- MODULE PlanExecutor ----------------------------
(***************************************************************************)
(* PlanExecutor::executeBlocking (src/planExecutor.cpp): one call per       *)
(* thread, dispatching to the registered action executors, and the world   *)
(* the actions change.  The call blocks its thread until every action that *)
(* starts at once was tried by every executor that can execute it.         *)
(***************************************************************************)
EXTENDS Plan

CONSTANTS
    Thread,       \* the threads that may be inside executeBlocking
    Executor,     \* positions of the action executors in the deque
    CanExecute,   \* per executor, the names it can execute
    ServiceExecutor,  \* the executors that call a service; the others use actionlib
    MaxFaults     \* bound on failures and exogenous changes

ASSUME ExecutorAssumption ==
    /\ Executor \subseteq Nat
    /\ CanExecute \in [Executor -> SUBSET Name]
    /\ ServiceExecutor \subseteq Executor
    /\ MaxFaults \in Nat

VARIABLES
    call,          \* per thread, its call of executeBlocking
    world,         \* the facts that are true
    currentState,  \* _currentState: the facts the executive believes
    faults         \* failures so far (bounded by MaxFaults)

executorVars == <<call, world, currentState, faults>>

NoNextEvent == 99999000   \* the initial nextEventTime of 99999 s

Stage == {"idle", "prepared", "dispatch", "running", "cancelled", "sleeping", "returned"}

Call == [stage : Stage, plan : PlanSet, todo : SUBSET (Step \X Executor),
         executed : SUBSET DurativeAction, count : Nat]

ExecutorTypeOK ==
    /\ call \in [Thread -> Call]
    /\ world \subseteq Fact
    /\ currentState \subseteq Fact
    /\ faults \in 0..MaxFaults

IdleCall == [stage |-> "idle", plan |-> EmptyPlan, todo |-> {},
             executed |-> {}, count |-> 0]

\* The tries of executeBlocking: a step that starts at once, with an executor.
Attempts(p) ==
    {x \in Steps(p) \X Executor :
        /\ p[x[1]].startTime <= ZeroTime
        /\ p[x[1]].name \in CanExecute[x[2]]}

\* The order of the two nested loops: by step, then by executor.
NextAttempt(S) ==
    LET k == Minimum({x[1] : x \in S})
    IN  <<k, Minimum({x[2] : x \in {y \in S : y[1] = k}})>>

NextEventTime(p) ==
    Minimum({NoNextEvent} \cup {p[k].startTime : k \in Late(p)})

\* No action succeeded and the next one is not due: sleep, then return true.
MustSleep(p, count) == NextEventTime(p) > ZeroTime /\ count = 0

\* What executeBlocking returns.
Returns(p, count) == MustSleep(p, count) \/ count > 0

\* A call on the stack of thread t, about to enter the loop over the actions.
CallFor(p) == [IdleCall EXCEPT !.stage = "dispatch", !.plan = p, !.todo = Attempts(p)]

\* The next executor is handed the next action (the goal is sent).
Dispatch(t) ==
    /\ call[t].stage = "dispatch"
    /\ call[t].todo # {}
    /\ call' = [call EXCEPT ![t].stage = "running"]
    /\ UNCHANGED <<world, currentState, faults>>

\* The action of thread t that is being tried.
Running(t) == call[t].plan[NextAttempt(call[t].todo)[1]]

\* Mutant of Tried: only an action that succeeded counts as executed.
TriedIfSucceeded(t, successes) ==
    [call EXCEPT ![t].stage = "dispatch",
                 ![t].todo = @ \ {NextAttempt(call[t].todo)},
                 ![t].executed = IF successes = 0 THEN @ ELSE @ \cup {Running(t)},
                 ![t].count = @ + successes]

\* The try is over; it counts as executed whether or not it succeeded.
Tried(t, successes) ==
    [call EXCEPT ![t].stage = "dispatch",
                 ![t].todo = @ \ {NextAttempt(call[t].todo)},
                 ![t].executed = @ \cup {Running(t)},
                 ![t].count = @ + successes]

\* executeBlocking of the executor returns true; its updateState hook may
\* write the effect into _currentState.
ActionSucceeds(t) ==
    /\ call[t].stage \in {"running", "cancelled"}
    /\ Pre[Running(t).name] \subseteq world
    /\ call' = Tried(t, 1)
    /\ world' = Apply(Running(t).name, world)
    /\ currentState' \in {currentState, Apply(Running(t).name, currentState)}
    /\ UNCHANGED faults

\* It returns false: the action could not work in this world, or it was
\* cancelled or failed, with or without having had its effect.  updateState is
\* called then as well.
ActionFails(t) ==
    /\ call[t].stage \in {"running", "cancelled"}
    /\ call' = Tried(t, 0)
    /\ \/ /\ ~(Pre[Running(t).name] \subseteq world)
          /\ UNCHANGED <<world, faults>>
       \/ /\ call[t].stage = "cancelled"
          /\ world' \in {world, Apply(Running(t).name, world)}
          /\ UNCHANGED faults
       \/ /\ faults < MaxFaults
          /\ faults' = faults + 1
          /\ world' \in {world, Apply(Running(t).name, world)}
    /\ currentState' \in {currentState, Apply(Running(t).name, currentState)}

\* All tries are done: return, or sleep until the next action's start time.
EndDispatch(t) ==
    /\ call[t].stage = "dispatch"
    /\ call[t].todo = {}
    /\ call' = [call EXCEPT ![t].stage =
                    IF MustSleep(call[t].plan, call[t].count) THEN "sleeping"
                    ELSE "returned"]
    /\ UNCHANGED <<world, currentState, faults>>

\* sleep(nextEventTime) is over and executeBlocking returns true.
WakeUp(t) ==
    /\ call[t].stage = "sleeping"
    /\ call' = [call EXCEPT ![t].stage = "returned"]
    /\ UNCHANGED <<world, currentState, faults>>

\* cancelAction: actionlib cancels the goal, a service call goes on.
CancelAction(t) ==
    call[t].stage = "running" /\ NextAttempt(call[t].todo)[2] \notin ServiceExecutor

\* cancelAllActions: whatever is running now is told to stop; an action that
\* is dispatched later is not.
Cancelled ==
    [t \in Thread |-> IF CancelAction(t)
                      THEN [call[t] EXCEPT !.stage = "cancelled"] ELSE call[t]]

\* One step inside executeBlocking on thread t.
ExecuteBlocking(t) ==
    \/ Dispatch(t)
    \/ ActionSucceeds(t)
    \/ ActionFails(t)
    \/ EndDispatch(t)
    \/ WakeUp(t)

\* What is left to try belongs to the plan of the call, and something is being
\* tried whenever an executor is running.
CallsArePlanned ==
    \A t \in Thread :
        /\ call[t].todo \subseteq Attempts(call[t].plan)
        /\ call[t].stage \in {"running", "cancelled"} => call[t].todo # {}
=============================================================================
