-------------------------- MODULE ContinualPlanning --------------------------
(***************************************************************************)
(* The continual planning executive: main() (src/main.cpp) running         *)
(* ContinualPlanning::loop() (src/continualPlanning.cpp), and the handler  *)
(* threads of the AsyncSpinner that serve set_continual_planning_control   *)
(* and execute_action_directly at the same time, without any lock.         *)
(*                                                                         *)
(* The planner is a separate process: it sees the problem file that plan() *)
(* or monitor() wrote and answers some time later.                         *)
(***************************************************************************)
EXTENDS PlanExecutor

CONSTANTS
    Main,          \* the thread of main()
    Handler,       \* the spinner's handler threads
    StartTimes,    \* start times the planner may put into a plan
    DirectActions, \* actions that execute_action_directly may be asked for
    FutureFact,    \* facts announced as FutureEvents by the goal creator
    Modes,         \* the modes main() may start in (parameter start_paused)
    MaxCommands,   \* bound on service requests
    TornPlanFile   \* whether plan.best may be cut short when it is parsed

ASSUME ExecutiveAssumption ==
    /\ Main \notin Handler
    /\ Thread = {Main} \cup Handler
    /\ StartTimes \subseteq Nat
    /\ DirectActions \subseteq DurativeAction
    /\ FutureFact \subseteq Fact
    /\ Modes \subseteq {"RUN", "PAUSE"}
    /\ MaxCommands \in Nat
    /\ TornPlanFile \in BOOLEAN

VARIABLES
    pc,            \* where the main thread is
    mode,          \* s_ContinualPlanningMode
    cpState,       \* the ContinualPlanningState that loop() returned last
    forceReplan,   \* _forceReplan
    currentPlan,   \* _currentPlan
    toRemove,      \* executedActions still to be removed from _currentPlan
    pending,       \* the FutureEvents in _currentState
    triggered,     \* the announced facts whose time has come
    problem,       \* the facts and announced facts in the problem file, and
                   \* whether some of these were overdue when it was written
    est,           \* per thread: not estimating, estimating alone, or racing
    rosOk,         \* ros::ok()
    commands       \* service requests so far (bounded by MaxCommands)

\* History variables: the program has no such state, only properties read them.
VARIABLES
    forcePending,  \* a FORCE_REPLANNING request no planner call has followed
    lastCommand,   \* the last of RUN, PAUSE, STEP that was accepted
    loopsSince     \* calls of loop() since then (counted up to 2)

mainVars == <<pc, cpState, currentPlan, toRemove, problem>>
sharedVars == <<mode, forceReplan, rosOk, commands>>
historyVars == <<forcePending, lastCommand, loopsSince>>
eventVars == <<pending, triggered>>
vars == <<executorVars, mainVars, sharedVars, eventVars, est, historyVars>>

\* What load_plugins has still to load.
Loading == {"planner", "stateCreators", "goalCreators", "actionExecutors"}

MainPC == Loading \cup
    {"startup", "idle", "estimating", "estimated", "monitoring", "planning",
     "executing", "removing", "looped", "pausing", "done"}

TypeOK ==
    /\ ExecutorTypeOK
    /\ pc \in MainPC
    /\ mode \in {"RUN", "PAUSE", "STEP"}
    /\ cpState \in {"Running", "FinishedNoPlanToGoal", "FinishedAtGoal"}
    /\ forceReplan \in BOOLEAN
    /\ currentPlan \in PlanSet
    /\ toRemove \subseteq DurativeAction
    /\ pending \subseteq FutureFact
    /\ triggered \subseteq FutureFact
    /\ problem \in [facts : SUBSET Fact, timed : SUBSET FutureFact, overdue : BOOLEAN]
    /\ est \in [Thread -> {"no", "alone", "raced"}]
    /\ rosOk \in BOOLEAN
    /\ commands \in 0..MaxCommands
    /\ forcePending \in BOOLEAN
    /\ lastCommand \in {"RUN", "PAUSE", "STEP"}
    /\ loopsSince \in 0..2

Init ==
    /\ call = [t \in Thread |-> IdleCall]
    /\ world \in SUBSET (Fact \ FutureFact)
    /\ currentState = {}
    /\ faults = 0
    /\ pc = "planner"
    /\ mode \in Modes
    /\ cpState = "Running"
    /\ forceReplan = TRUE
    /\ currentPlan = EmptyPlan
    /\ toRemove = {}
    /\ pending = FutureFact
    /\ triggered = {}
    /\ problem = [facts |-> {}, timed |-> {}, overdue |-> FALSE]
    /\ est = [t \in Thread |-> "no"]
    /\ rosOk = TRUE
    /\ commands = 0
    /\ forcePending = FALSE
    /\ lastCommand = mode
    /\ loopsSince = 0

----------------------------------------------------------------------------
(* estimateCurrentState, on any thread: between its start and its end the  *)
(* state creators write _currentState.                                     *)

Estimating == {t \in Thread : est[t] # "no"}

\* Everyone inside an estimate shares _currentState with another writer.
Disturbed == [u \in Thread |-> IF u \in Estimating THEN "raced" ELSE "no"]

BeginEstimate(t) ==
    est' = IF Estimating = {} THEN [est EXCEPT ![t] = "alone"]
           ELSE [Disturbed EXCEPT ![t] = "raced"]

\* updateFutureEvents: what has triggered is applied and forgotten.
UpdateFutureEvents(state) ==
    /\ currentState' = state \cup (pending \cap triggered)
    /\ pending' = pending \ triggered
    /\ UNCHANGED triggered

\* Every state creator succeeded: the belief is the world.  A race leaves
\* any mixture behind.
EstimateSucceeds(t) ==
    /\ \E s \in IF est[t] = "raced" THEN SUBSET Fact ELSE {world} : UpdateFutureEvents(s)
    /\ est' = [est EXCEPT ![t] = "no"]
    /\ UNCHANGED faults

\* Some state creator failed; the others have written what they know.
EstimateFails(t) ==
    /\ faults < MaxFaults
    /\ faults' = faults + 1
    /\ \E known \in SUBSET Fact :
          UpdateFutureEvents((currentState \ known) \cup (world \cap known))
    /\ est' = [est EXCEPT ![t] = "no"]

\* A reader of _currentState while others write it may see any mixture.
StateRead == IF Estimating = {} THEN {currentState} ELSE SUBSET Fact

----------------------------------------------------------------------------
(* main() and loop()                                                       *)

\* One loader of load_plugins: every entry of its parameter is instantiated,
\* initialised and handed to ContinualPlanning; a parameter that is missing,
\* no list or empty, an entry that is no string and a plugin that cannot be
\* created all make main() return 1.
Load(plugins, next) ==
    /\ pc = plugins
    /\ \/ pc' = next /\ UNCHANGED faults
       \/ pc' = "done" /\ faults < MaxFaults /\ faults' = faults + 1
    /\ UNCHANGED <<call, world, currentState, cpState, currentPlan, toRemove, problem,
                   sharedVars, eventVars, est, historyVars>>

\* The planner's options may be left out, its domain file may not.
LoadPlanner == Load("planner", "stateCreators")

LoadStateCreators == Load("stateCreators", "goalCreators")

LoadGoalCreators == Load("goalCreators", "actionExecutors")

LoadActionExecutors == Load("actionExecutors", "startup")

LoadPlugins == LoadPlanner \/ LoadStateCreators \/ LoadGoalCreators \/ LoadActionExecutors

\* estimateInitialStateAndGoal fills the first belief, or main() returns 1.
Startup ==
    /\ pc = "startup"
    /\ \/ pc' = "idle" /\ currentState' \in SUBSET Fact /\ UNCHANGED faults
       \/ pc' = "done" /\ faults < MaxFaults /\ faults' = faults + 1 /\ UNCHANGED currentState
    /\ UNCHANGED <<call, world, cpState, currentPlan, toRemove, problem, sharedVars,
                   eventVars, est, historyVars>>

\* RUN or STEP: loop() starts with the state estimation.
StartLoop ==
    /\ pc = "idle"
    /\ rosOk
    /\ mode \in {"RUN", "STEP"}
    /\ pc' = "estimating"
    /\ BeginEstimate(Main)
    /\ loopsSince' = IF loopsSince = 2 THEN 2 ELSE loopsSince + 1
    /\ UNCHANGED <<executorVars, cpState, currentPlan, toRemove, problem, sharedVars,
                   eventVars, forcePending, lastCommand>>

\* Mutant of LeaveMainLoop: ros::ok() is only looked at between two loops.
LeaveMainLoopUnlessPaused ==
    /\ pc = "idle"
    /\ ~rosOk
    /\ mode # "PAUSE"
    /\ pc' = "done"
    /\ UNCHANGED <<executorVars, cpState, currentPlan, toRemove, problem, sharedVars,
                   eventVars, est, historyVars>>

\* while(ros::ok()) ends.
LeaveMainLoop ==
    /\ pc = "idle"
    /\ ~rosOk
    /\ pc' = "done"
    /\ UNCHANGED <<executorVars, cpState, currentPlan, toRemove, problem, sharedVars,
                   eventVars, est, historyVars>>

\* A failed estimation ends this loop() with Running.
EndEstimation ==
    /\ pc = "estimating"
    /\ \/ EstimateSucceeds(Main) /\ pc' = "estimated"
       \/ EstimateFails(Main) /\ pc' = "looped"
    /\ UNCHANGED <<call, world, cpState, currentPlan, toRemove, problem, sharedVars,
                   historyVars>>

\* writeProblem: the planner will work on what it reads now.  An event that has
\* triggered since the estimate is announced for a time in the past.
WriteProblem ==
    \E s \in StateRead :
        problem' = [facts |-> s, timed |-> pending, overdue |-> pending \cap triggered # {}]

\* needReplanning: a forced replanning skips monitoring.
ForcedToReplan ==
    /\ pc = "estimated"
    /\ forceReplan
    /\ pc' = "planning"
    /\ WriteProblem
    /\ forcePending' = FALSE
    /\ UNCHANGED <<executorVars, cpState, currentPlan, toRemove, sharedVars, eventVars, est,
                   lastCommand, loopsSince>>

StartMonitoring ==
    /\ pc = "estimated"
    /\ ~forceReplan
    /\ pc' = "monitoring"
    /\ WriteProblem
    /\ UNCHANGED <<executorVars, cpState, currentPlan, toRemove, sharedVars, eventVars, est,
                   historyVars>>

\* Mutant of ProceedWith: an empty plan always means that the goal is reached.
ProceedWithOptimism(p, atGoal) ==
    IF IsEmpty(p)
    THEN /\ pc' = "done"
         /\ cpState' = "FinishedAtGoal"
         /\ UNCHANGED <<call, currentPlan>>
    ELSE /\ pc' = "executing"
         /\ currentPlan' = p
         /\ call' = [call EXCEPT ![Main] = CallFor(p)]
         /\ UNCHANGED cpState

\* loop() goes on with plan p, or ends the program on an empty one.
ProceedWith(p, atGoal) ==
    IF IsEmpty(p)
    THEN /\ pc' = "done"
         /\ cpState' = IF atGoal THEN "FinishedAtGoal" ELSE "FinishedNoPlanToGoal"
         /\ UNCHANGED <<call, currentPlan>>
    ELSE /\ pc' = "executing"
         /\ currentPlan' = p
         /\ call' = [call EXCEPT ![Main] = CallFor(p)]
         /\ UNCHANGED cpState

\* The monitor reports that _currentPlan still leads to the goal: keep it.
\* The empty plan leading to the goal is how the goal is noticed.
MonitorSucceeds ==
    /\ pc = "monitoring"
    /\ MonitorAccepts(problem.facts, currentPlan, problem.timed)
    /\ ProceedWith(currentPlan, IsEmpty(currentPlan))
    /\ UNCHANGED <<world, currentState, faults, toRemove, problem, sharedVars, eventVars, est,
                   historyVars>>

\* Unreachable, or the monitor broke down: plan() is called on what is
\* believed now.
MonitorFails ==
    /\ pc = "monitoring"
    /\ \/ ~MonitorAccepts(problem.facts, currentPlan, problem.timed) /\ UNCHANGED faults
       \/ faults < MaxFaults /\ faults' = faults + 1
    /\ pc' = "planning"
    /\ WriteProblem
    /\ forcePending' = FALSE
    /\ UNCHANGED <<call, world, currentState, cpState, currentPlan, toRemove, sharedVars,
                   eventVars, est, lastCommand, loopsSince>>

\* What is left of a plan that is cut short after n steps.
Beginning(p, n) == [k \in Step |-> IF k <= n THEN p[k] ELSE None]

\* The plans of up to MaxSteps actions in the order of their start times.
Schedules ==
    {p \in {Beginning(q, n) : q \in [Step -> [name : Name, startTime : StartTimes]],
                             n \in 0..MaxSteps} :
        \A j, k \in Steps(p) : j < k => p[j].startTime <= p[k].startTime}

\* The problems the planner may be given, each with the plans that solve it:
\* these do not wait before the first action unless a fact is announced, and
\* are empty where the goal holds.
Solved ==
    {[facts |-> s, timed |-> timed,
      plans |-> {p \in Schedules :
                    /\ ~IsEmpty(p) /\ timed = {} => p[1].startTime = 0
                    /\ Goal \subseteq s /\ timed = {} => IsEmpty(p)
                    /\ LeadsToGoal(s, p, timed)}] :
        s \in SUBSET Fact, timed \in SUBSET FutureFact}

\* What the planner may answer with.  There is no solution for a fact that is
\* announced for the past: the action it is compiled into has a negative
\* duration.
Solutions == IF problem.overdue THEN {} ELSE
    (CHOOSE q \in Solved : q.facts = problem.facts /\ q.timed = problem.timed).plans

\* What the parser may find when plan.best was cut short.
Torn == {Beginning(p, n) : p \in Solutions, n \in Step}

\* Mutant of PlannerReturns: _forceReplan is never reset.
PlannerReturnsStillForced ==
    /\ pc = "planning"
    /\ \/ \E p \in Solutions : ProceedWith(p, FALSE)
       \/ Solutions = {} /\ ProceedWith(EmptyPlan, FALSE)
    /\ UNCHANGED <<world, currentState, faults, toRemove, problem, sharedVars, eventVars, est,
                   historyVars>>

\* plan() returns a solution, or nothing when there is none or the planner
\* failed, or what the parser could read of a torn file.  _forceReplan is
\* reset now, and the plan is used whatever the result code was.
PlannerReturns ==
    /\ pc = "planning"
    /\ \/ \E p \in Solutions : ProceedWith(p, FALSE) /\ UNCHANGED faults
       \/ Solutions = {} /\ ProceedWith(EmptyPlan, FALSE) /\ UNCHANGED faults
       \/ /\ faults < MaxFaults
          /\ faults' = faults + 1
          /\ \/ ProceedWith(EmptyPlan, FALSE)
             \/ TornPlanFile /\ \E p \in Torn : ProceedWith(p, FALSE)
    /\ forceReplan' = FALSE
    /\ UNCHANGED <<world, currentState, toRemove, problem, mode, rosOk, commands, eventVars, est,
                   historyVars>>

\* executeBlocking is back in loop().
FinishExecution ==
    /\ pc = "executing"
    /\ call[Main].stage = "returned"
    /\ pc' = "removing"
    /\ forceReplan' = IF Returns(call[Main].plan, call[Main].count) THEN forceReplan ELSE TRUE
    /\ toRemove' = call[Main].executed
    /\ UNCHANGED <<executorVars, cpState, currentPlan, problem, mode, rosOk, commands, eventVars,
                   est, historyVars>>

\* Mutant of RemoveExecuted: the actions are erased from a copy of the plan.
RemoveExecutedFromCopy ==
    /\ pc = "removing"
    /\ toRemove # {}
    /\ toRemove' = {}
    /\ UNCHANGED <<executorVars, pc, cpState, currentPlan, problem, sharedVars, eventVars, est,
                   historyVars>>

\* One turn of the loop that removes the executed actions, in set order.
RemoveExecuted ==
    /\ pc = "removing"
    /\ toRemove # {}
    /\ LET a == CHOOSE b \in toRemove : \A c \in toRemove \ {b} : Before(b, c)
       IN  /\ currentPlan' = RemoveAction(currentPlan, a)
           /\ toRemove' = toRemove \ {a}
    /\ UNCHANGED <<executorVars, pc, cpState, problem, sharedVars, eventVars, est, historyVars>>

\* loop() returns Running.
EndRemoval ==
    /\ pc = "removing"
    /\ toRemove = {}
    /\ pc' = "looped"
    /\ call' = [call EXCEPT ![Main] = IdleCall]
    /\ UNCHANGED <<world, currentState, faults, cpState, currentPlan, toRemove, problem, sharedVars, eventVars,
                   est, historyVars>>

\* Mutant of TestStepMode: STEP is never turned into PAUSE.
TestStepModeNever ==
    /\ pc = "looped"
    /\ pc' = "idle"
    /\ UNCHANGED <<executorVars, cpState, currentPlan, toRemove, problem, sharedVars,
                   eventVars, est, historyVars>>

\* "STEP means RUN once": the mode is tested here and written in the next
\* step; a handler may come in between.
TestStepMode ==
    /\ pc = "looped"
    /\ pc' = IF mode = "STEP" THEN "pausing" ELSE "idle"
    /\ UNCHANGED <<executorVars, cpState, currentPlan, toRemove, problem, sharedVars, eventVars,
                   est, historyVars>>

PauseAfterStep ==
    /\ pc = "pausing"
    /\ mode' = "PAUSE"
    /\ pc' = "idle"
    /\ UNCHANGED <<executorVars, cpState, currentPlan, toRemove, problem, forceReplan, rosOk,
                   commands, eventVars, est, historyVars>>

\* The main thread inside executeBlocking.
ExecutePlan ==
    /\ pc = "executing"
    /\ ExecuteBlocking(Main)
    /\ est' = IF currentState' # currentState THEN Disturbed ELSE est
    /\ UNCHANGED <<mainVars, sharedVars, eventVars, historyVars>>

----------------------------------------------------------------------------
(* The service handlers, on the spinner's threads                          *)

Serving == pc \notin Loading \cup {"startup", "done"} /\ rosOk
Free(t) == call[t].stage = "idle" /\ est[t] = "no"

\* A request is taken up by a free handler thread.
Accept(t) ==
    /\ Serving
    /\ Free(t)
    /\ commands < MaxCommands
    /\ commands' = commands + 1

\* setControlHandler: RUN, PAUSE and STEP overwrite the mode at any time.
SetMode(t, command) ==
    /\ Accept(t)
    /\ mode' = command
    /\ lastCommand' = command
    /\ loopsSince' = 0
    /\ UNCHANGED <<executorVars, mainVars, forceReplan, rosOk, eventVars, est, forcePending>>

\* FORCE_REPLANNING: forceReplanning().
ForceReplanning(t) ==
    /\ Accept(t)
    /\ forceReplan' = TRUE
    /\ forcePending' = TRUE
    /\ UNCHANGED <<executorVars, mainVars, mode, rosOk, eventVars, est, lastCommand, loopsSince>>

\* REESTIMATE_STATE: estimateCurrentState() on the handler's thread.
ReestimateState(t) ==
    /\ Accept(t)
    /\ BeginEstimate(t)
    /\ UNCHANGED <<executorVars, mainVars, mode, forceReplan, rosOk, eventVars, historyVars>>

JustThis(a) == [k \in Step |-> IF k = 1 THEN a ELSE None]

\* Mutant of ExecuteActionDirectly: the plan of this one action is _currentPlan.
ExecuteActionDirectlyAsPlan(t, a) ==
    /\ Accept(t)
    /\ mode # "RUN"
    /\ BeginEstimate(t)
    /\ currentPlan' = JustThis(a)
    /\ call' = [call EXCEPT ![t] = [CallFor(JustThis(a)) EXCEPT !.stage = "prepared"]]
    /\ UNCHANGED <<world, currentState, faults, pc, cpState, toRemove, problem, mode,
                   forceReplan, rosOk, eventVars, historyVars>>

\* executeActionDirectlyHandler: refused during RUN, otherwise the state is
\* estimated and a plan of this one action is executed.
ExecuteActionDirectly(t, a) ==
    /\ Accept(t)
    /\ mode # "RUN"
    /\ BeginEstimate(t)
    /\ call' = [call EXCEPT ![t] = [CallFor(JustThis(a)) EXCEPT !.stage = "prepared"]]
    /\ UNCHANGED <<world, currentState, faults, mainVars, mode, forceReplan, rosOk, eventVars,
                   historyVars>>

\* The estimate of a handler ends; a direct action goes on only if it is good.
EndHandlerEstimate(t) ==
    /\ est[t] # "no"
    /\ \/ /\ EstimateSucceeds(t)
          /\ call' = IF call[t].stage = "prepared"
                     THEN [call EXCEPT ![t].stage = "dispatch"] ELSE call
       \/ /\ EstimateFails(t)
          /\ call' = [call EXCEPT ![t] = IdleCall]
    /\ UNCHANGED <<world, mainVars, sharedVars, historyVars>>

\* A handler inside executeBlocking.
ExecuteDirectly(t) ==
    /\ ExecuteBlocking(t)
    /\ est' = IF currentState' # currentState THEN Disturbed ELSE est
    /\ UNCHANGED <<mainVars, sharedVars, eventVars, historyVars>>

\* executeActionDirectly returns to the caller of the service.
AnswerDirectly(t) ==
    /\ call[t].stage = "returned"
    /\ call' = [call EXCEPT ![t] = IdleCall]
    /\ UNCHANGED <<world, currentState, faults, mainVars, sharedVars, eventVars, est, historyVars>>

HandlerRequest(t) ==
    \/ \E c \in {"RUN", "PAUSE", "STEP"} : SetMode(t, c)
    \/ ForceReplanning(t)
    \/ ReestimateState(t)
    \/ \E a \in DirectActions : ExecuteActionDirectly(t, a)

HandlerWork(t) ==
    \/ EndHandlerEstimate(t)
    \/ ExecuteDirectly(t)
    \/ AnswerDirectly(t)

----------------------------------------------------------------------------
(* The signal handler and the world                                        *)

\* SIGINT: cancel what is running, then ros::shutdown().
SignalHandler ==
    /\ Serving
    /\ commands < MaxCommands
    /\ commands' = commands + 1
    /\ call' = Cancelled
    /\ rosOk' = FALSE
    /\ UNCHANGED <<world, currentState, faults, mainVars, mode, forceReplan, eventVars, est,
                   historyVars>>

\* The time of an announced fact comes, and it is true.
FutureEventTriggers ==
    /\ \E f \in FutureFact \ triggered :
          /\ triggered' = triggered \cup {f}
          /\ world' = world \cup {f}
    /\ UNCHANGED <<call, currentState, faults, mainVars, sharedVars, pending, est, historyVars>>

\* Something changes a fact behind the executive's back.
WorldChanges ==
    /\ faults < MaxFaults
    /\ faults' = faults + 1
    /\ \E f \in Fact \ (FutureFact \ triggered) : world' = (world \ {f}) \cup ({f} \ world)
    /\ UNCHANGED <<call, currentState, mainVars, sharedVars, eventVars, est, historyVars>>

MainStep ==
    \/ LoadPlugins \/ Startup \/ StartLoop \/ LeaveMainLoop
    \/ EndEstimation \/ ForcedToReplan \/ StartMonitoring
    \/ MonitorSucceeds \/ MonitorFails \/ PlannerReturns
    \/ ExecutePlan \/ FinishExecution \/ RemoveExecuted \/ EndRemoval
    \/ TestStepMode \/ PauseAfterStep

\* main() has returned, or it is paused and every request was served.
Resting ==
    /\ \A t \in Handler : Free(t)
    /\ pc = "done" \/ (pc = "idle" /\ mode = "PAUSE")
    /\ UNCHANGED vars

Next ==
    \/ MainStep
    \/ \E t \in Handler : HandlerRequest(t) \/ HandlerWork(t)
    \/ SignalHandler
    \/ FutureEventTriggers
    \/ WorldChanges
    \/ Resting

\* The threads keep running, the planner and the executors answer, time goes
\* on.  Nobody is obliged to send a request or a signal.
Fairness ==
    /\ WF_vars(MainStep)
    /\ \A t \in Handler : WF_vars(HandlerWork(t))
    /\ WF_vars(FutureEventTriggers)

Spec == Init /\ [][Next]_vars /\ Fairness

----------------------------------------------------------------------------
(* Properties                                                              *)

Acting == pc \in {"executing", "removing"}

\* The loop as the abstract cycle sees it.
Phase ==
    CASE Acting -> "acting"
      [] pc = "done" /\ cpState = "FinishedAtGoal" -> "atGoal"
      [] pc = "done" /\ cpState = "FinishedNoPlanToGoal" -> "gaveUp"
      [] pc = "done" /\ cpState = "Running" -> "stopped"
      [] OTHER -> "assessing"

Assessed == [facts |-> problem.facts, timed |-> problem.timed]

Cycle == INSTANCE ExecutiveCycle
            WITH TimedFact <- FutureFact, phase <- Phase, assessed <- Assessed,
                 plan <- currentPlan

\* Whatever the handlers do meanwhile, the loop acts only on a plan that
\* leads to the goal from the problem file it was checked against (from a
\* plan.best that was cut short: one that can be executed from there), it
\* never acts on a step that no planner call put into the plan, and only an
\* empty plan checked against the goal ends it as FinishedAtGoal.
ImplementsCycle == Cycle!CycleSpec

\* FinishedAtGoal is only reported when the state that was monitored fulfils
\* the goal and no step is left.
AtGoalIsSound ==
    cpState = "FinishedAtGoal" => IsEmpty(currentPlan) /\ Goal \subseteq problem.facts

\* PAUSE lets no further loop() start and STEP at most one, however the
\* requests interleave with the test of the mode after a loop.
CommandsLimitLoops ==
    /\ lastCommand = "PAUSE" => loopsSince = 0
    /\ lastCommand = "STEP" => loopsSince <= 1

\* A FORCE_REPLANNING request is not forgotten: no plan is merely monitored
\* as long as no planner call has followed the request.
ForceIsHonoured == [][pc = "estimated" /\ pc' = "monitoring" => ~forcePending]_vars

\* Erasing executed actions keeps the schedule of the others: they move by one
\* and the same amount of time, so concurrent actions stay concurrent.
RemovalKeepsSchedule ==
    [][pc = "removing" =>
          \A j, k \in Steps(currentPlan') :
              currentPlan'[j].startTime - currentPlan'[k].startTime
                = currentPlan[j].startTime - currentPlan[k].startTime]_vars

\* The steps that were due in this loop and had an executor.
TriedSteps == {x[1] : x \in Attempts(call[Main].plan)}

\* When the removal is over, no step that was tried at the start of the plan is
\* left, although a step is found by a start time that the removal of other
\* steps may have moved.
StartedStepsAreRemoved ==
    pc = "removing" /\ toRemove = {} =>
        \A k \in TriedSteps :
            call[Main].plan[k].startTime = 0 => k \notin Steps(currentPlan)

\* No name of p starts again so soon that both starts count as at once.
NamesStartApart(p) ==
    \A j, k \in Steps(p) :
        j # k /\ p[j].name = p[k].name /\ p[j].startTime <= p[k].startTime =>
            p[k].startTime - p[j].startTime > ZeroTime

\* A step that was not tried stays in the plan, and so is tried by a later
\* loop: it is not taken for an executed action of the same name when it has
\* moved up to the start time of that one.
UntriedStepsStay ==
    pc = "removing" /\ toRemove = {} /\ NamesStartApart(call[Main].plan) =>
        Steps(call[Main].plan) \ TriedSteps \subseteq Steps(currentPlan)

\* The loop acts on a plan of which no executor can start anything now: its
\* first step has to wait for longer than ZeroTime, or no executor can execute
\* it.  Nothing is removed from such a plan, so that it is never started.
NothingToTry == pc = "executing" /\ Attempts(call[Main].plan) = {}

\* The loop ends, whatever fails and whatever changes in the world, unless it
\* meets a plan of which nothing can be started.
Termination == <>(pc = "done" \/ NothingToTry)

\* A step that was tried is left in the plan: it started later than 0, within
\* ZeroTime, and was moved before it was looked for under its old start time.
\* The monitor then fails on it, and a planner that is called at the goal
\* answers with the empty plan that loop() takes for having none.
TriedStepIsLeft ==
    pc = "removing" /\ toRemove = {} /\ TriedSteps \cap Steps(currentPlan) # {}

\* The goal is reached and noticed, unless something fails, the goal held from
\* the start, the planner or the monitor is asked while a fact is announced,
\* nothing of a plan can be started, or a tried step is left.
ReachesGoal ==
    Goal \subseteq world \/
        <>(\/ faults > 0 \/ problem.timed # {} \/ NothingToTry \/ TriedStepIsLeft
           \/ pc = "done" /\ cpState = "FinishedAtGoal" /\ Goal \subseteq world)

\* After SIGINT the program ends.
ShutdownEnds == ~rosOk ~> pc = "done"
=============================================================================
