# Verification of tfd_modules: the continual planning executive and its planner

`tfd_modules` is Temporal Fast Downward with semantic attachments (modules), a ROS
stack in which an executive plans, executes, watches the world and replans. This
directory holds TLA+ models of it, the TLC configurations that check them, and
TLAPS proofs. Everything is translated from the code at the lines `PROJECT.json`
names under `map`.

## 1. Inventory

| component | state | operations | talks to |
|---|---|---|---|
| continual planning executive (`continual_planning_executive/src/main.cpp`, `load_plugins.cpp`, `continualPlanning.cpp`) | `s_ContinualPlanningMode`, `_forceReplan`, `_currentState`, `_currentPlan` | `main()`'s while loop, `loop()`, `estimateCurrentState`, `monitorAndReplan`, `needReplanning`, `executeActionDirectly`; service handlers; SIGINT handler | planner interface (calls), plan executor (calls), handler threads (shared variables, no lock) |
| plan executor (`planExecutor.cpp`, `actionExecutorActionlib.hpp`, `actionExecutorService.hpp`) | the executors; locals of a call | `executeBlocking`, `cancelAllActions`, `canExecute` | actionlib servers, `_currentState` through `updateState` |
| plan (`plan.cpp`) | list of durative actions | `removeAction`, `operator<`, `operator==` | |
| symbolic state, future events (`symbolicState.cpp`, `futureEvent.cpp`) | typed objects, Boolean/numerical/object fluents, pending events | setters, `addSuperType`, `addObject`, `removeObject`, `clear`, `updateFutureEvents` | state creators, problem file |
| planner interface (`tfd_modules/interface`) | problem and plan files | `writeProblem`, `plan`, `monitor`, exit codes, `PlanParser::parsePlan` | planner process (files, exit code) |
| translate (`downward/translate`) | the task, the logic program, its model, the rules | `normalize`, `compute_model`, `instantiate`, `handle_axioms`, `translate_task`, `constrain_end_effect_conditions` | files |
| preprocess (`downward/preprocess`) | the task over variables | causal graph and pruning, domain transition graphs, successor generator, output | files |
| search (`downward/search/planner.cpp`, `best_first_search.cpp`, `closed_list.cpp`) | open lists, closed list, best makespan, plan number | `step`, `fetch_next_state`, `save_plan`, anytime loop, timeouts | plan files, exit code |
| time stamped states (`state.cpp`, `operator.cpp`) | values, running operators, scheduled effects and conditions | `is_applicable`, apply, `let_time_pass` | search, monitoring, modules |
| monitoring (`monitoring.cpp`) | sets of traces | `validatePlan` | exit code |
| axiom evaluation (`axioms.cpp`) | derived variables | `evaluate` | every state |
| rescheduling (`partial_order_lifter.cpp`, `scheduler.cpp`, `epsilonize_plan.py`) | simple temporal network, plan files | `buildPartialOrder`, `solveWithP3C`, `extractMinimalDistances`, `save_plan`, `epsilonize` | plan files |
| heuristics (`cyclic_cg_heuristic.cpp`, ...) | local problems with nodes, transitions, waiting lists and costs, which live on between states | `evaluate`, `set_problem`, relaxed plan and its schedule | open lists |
| module API (`module_api`) | loaded shared objects | condition checkers, effects, costs, groundings | search |
| opl (`opl`) | | text generation from OPL | files |
| GUI monitor, status publisher, messages, test scenarios, benchmarks | | output, data | |

### How they interact

`main()` loads the plugins, estimates the initial state and the goal, starts an
`AsyncSpinner` and then runs `loop()` as long as the mode is not `PAUSE`. One `loop()`
is: estimate the state (state creators fill `_currentState`) - write the problem file -
ask the monitor whether the plan still works, or plan - dispatch every action that
starts within 0.01 s to every executor that can execute it, blocking - erase
what was tried from the plan and shift the rest to 0. The spinner's threads serve
`set_continual_planning_control` (RUN, PAUSE, STEP, FORCE_REPLANNING, REESTIMATE_STATE)
and `execute_action_directly` *during* all of that and share the mode, the forced-replan
flag and the state with the loop without any lock.

### What is hard

* **Interleaving**: requests between any two steps of `loop()`, above all while the
  planner runs for seconds on a problem file already written; read-test-write of the mode
  after a STEP; two threads estimating into one `_currentState`.
* **Stale state**: the plan is checked against a problem file and executed later.
* **Partial failure**: an estimate, the monitor, the planner or an action fails, with or
  without having had its effect; the plan is used whatever the planner's result was.
* **Ordering**: several removals shift start times that are compared for equality.
* **Time**: announced events that trigger between two readings of the clock.
* **Order of worklists**: the translator's exploration, its rules for negation, the axiom
  evaluator and the heuristic work off queues whose contents change meaning while they
  wait; what is found must not depend on the order.
* **What may be left out**: pruned variables, dominated transitions, simplified rules and
  conditions must not be missed by anything that is kept.
* **Liveness**: the loop must end, the goal must be noticed, SIGINT must be obeyed.

### What makes each component correct

* Executive: it acts only on plans that lead from the assessed state to the goal; it says
  `FinishedAtGoal` only at the goal; PAUSE and STEP bound the loops; FORCE_REPLANNING is
  not forgotten; it terminates; it gives up only without a plan.
* Executor and plan: what was started is removed, what was not tried stays, the
  others keep their relative schedule and the first of them starts at 0.
* Planner interface: a plan that is returned as a success is one the planner wrote completely.
* Search: a plan that is reported was found from the initial state and satisfies the goal;
  a better one is never replaced by a worse one; exhaustion means there is no plan.
* State progression: conditions hold as long as an operator runs; effects happen when due,
  in the order of time.
* Axiom evaluation: the least fixpoint of each layer with negation as failure.
* Rescheduling: the new schedule respects every ordering constraint and is no longer.
* Translate: no operator or fact that can be reached is lost, derived atoms mean what the
  axioms say, operators what their actions say, whatever is split, renamed or negated.
* Preprocess: what is kept refers to nothing that was pruned; graphs and generator know every operator.
* Heuristic: costs that were passed on stay right although they fall in the queue, nothing asserts.
* Symbolic state: the super type index is the closure of the declarations and objects follow it; what is said is about known
  objects; the goal test agrees with the problem file.

## 2. Modules and the code

### Executive

| module | code | how state and actions correspond |
|---|---|---|
| `Plan` | `plan.cpp`, what `monitoring.cpp` and the planner accept, on facts | plans as arrays of optional steps; `RemoveAction` is `Plan::removeAction` with its shift to 0; name, duration and parameters of an action are one number |
| `PlanExecutor` | `planExecutor.cpp`, `actionExecutorActionlib.hpp`, `actionExecutorService.hpp` | one call of `executeBlocking` per thread, the pairs of step and executor still to be tried, dispatch, answer, sleep until the next event; `ServiceExecutor` are those that call a service, which cannot be cancelled |
| `ContinualPlanning` | `main.cpp`, `load_plugins.cpp`, `continualPlanning.cpp`, `futureEvent.cpp`, `SymbolicState::updateFutureEvents`, `tfdm_interface.cpp` as seen from the loop | `pc` is where `main()` is, from the loading of the plugins on, one list of them after the other; between two of its steps every statement that reads or writes shared state is atomic, and handler threads, SIGINT, the triggering of events and the world step in between. The planner reads the problem file when it is written and answers in a later step |
| `ExecutiveCycle` | | what the loop promises: assess, act on a promising plan only, stop at the goal or give up |
| `SymbolicState` | `symbolicState.cpp` | one action per call, except `addSuperType`, which takes a step per round of its loop; the queue of that loop is a set. Predicates, numerical and object fluents have values; `InitFacts` and `TimedFacts` are what the problem file says of them, `GoalConditions` the goal it asks for, `IsFulfilledBy` the test of the goal that needs no planner, with the tolerance of `double_equals` (`DoubleEquals`), where the file has six significant digits (`Printed`). Setters are called as `symbolicState.h` asks: super types before objects, parameters among the known objects (lines 73 and 221). `removeObject` and `clear` may be called at any time; `leftBehind` remembers of which objects something was still said |

### Planner, from the task to the plan files

| module | code | how state and actions correspond |
|---|---|---|
| `LogicProgram` | `pddl_to_prolog.py`, `split_rules.py`, `greedy_join.py` | rules are normalized, split into connected components, and joined greedily two conditions at a time |
| `ModelBuilding` | `build_model.py` | the unifier's tree, the queue and the index of each rule are variables; one action compiles a rule, takes a fact from the queue, or indexes it and fires one matching rule |
| `Grounding` | `normalize.py`, `instantiate.py`, `pddl/` | conditions as terms: negation, simplification, renaming, universal quantifiers replaced by axioms, disjunctive normal form, existential quantifiers moved out, rules for the exploration, instantiation |
| `AxiomRules` | `axiom_rules.py` | one action per step of a worklist: needed literals, simplification, constant atoms, negated rules, layers |
| `SasOperators` | `translate.py`, `fact_groups.py`, `simplify.py` | groups of facts become variables; conditions, add and delete effects become values before and after |
| `Translation` | `translate.py` (`pddl_to_sas`) | `stage` is how far the translation is; it composes the four modules above |
| `PreprocessTask`, `CausalGraph`, `DomainTransitionGraphs`, `PreprocessOutput` | `preprocess/` | pure: stripping, weighted graph, components (`scc.cpp`) and ordering, transitions with their sorting and dominance, decision tree, and what is written |
| `Preprocess` | `preprocess/planner.cpp` | `main()`: one action per pass; a failing assertion is a state of its own |
| `SearchGraphs` | `globals.cpp` (`read_everything`), `operator.cpp`, `search/domain_transition_graph.cpp`, `search/causal_graph.cpp` | the output of preprocess as the search reads it, with local numbers for the variables of a graph |
| `AxiomEvaluation` | `axioms.cpp` | terms, comparisons and rules, layer by layer, with the queue of literals |
| `LocalProblems` | `cyclic_cg_heuristic.cpp` | an evaluation is a record of what the local problems, nodes and transitions hold; firing, waiting lists and the heap are operators on it |
| `CausalConstraints` | the same, `generate_causal_constraints`, `computeScheduledPlanMakespan` | the relaxed plan, its helpful operators and its makespan, solved with `SimpleTemporalProblem` |
| `CyclicCGHeuristic` | the same, `heuristic.cpp` | one action per step of an evaluation; the next state is a successor of the last one and finds the memory as it was left |
| `TemporalTask` | `state.h`, `operator.cpp`, `axioms.cpp` | a grounded temporal task: conditions, effects with conditions of their own, durations, one layer of rules; operators that were split share a name (`Name`), which is what applicability, monitoring and rescheduling look at |
| `TimeStampedState` | `state.cpp`, `operator.cpp` | states as records; `ApplyOperator` is the constructor that applies an operator, `LetTimePass` and `PassToIntermediate` are `let_time_pass`, `IsApplicable` is `is_applicable` with its progression of everything that runs |
| `Monitoring` | `monitoring.cpp`, `callMonitoring` in `tfdm_interface.cpp` | `ValidatePlan` with its sets of traces; a plan file names its steps; `Monitor` is what the executive is told, through the exit code and the file `plan.monitored` |
| `SearchBranch` | `generate_successors` | a branch: start an applicable operator, or let time pass |
| `DurativeActions` | | what an execution of durative actions is |
| `BestFirstSearch` | `best_first_search.cpp`, `closed_list.cpp`, `search_engine.cpp`, `planner.cpp` | `step`, `fetch_next_state`, `trace_path`, the timeouts and the anytime loop around them; one action per way through `step()`. Dead ends are a parameter (`IsDeadEnd`). `ExitCode`, `ScriptExit` and `CallPlanner` carry the result to the executive (`PlannerAnswer`) |
| `SimpleTemporalProblem` | `scheduler.cpp` | the network as a matrix; making it chordal, directional and partial path consistency (P3C), Floyd and Warshall; `INF` is a constant, as units differ |
| `Rescheduling` | `partial_order_lifter.cpp` | the instants of the actions of a trace, the constraints between them, the network and the new start times |
| `PlanFiles` | `epsilonize_plan.py`, `planner.cpp` (`save_plan`) | what the planner writes of a time (`Printed`, `%.8f`), the happenings moved apart in exact decimals (`InParts`), what the script writes of them (`%.10f`); plan files that can fail to be opened or moved and scripts that can fail |

`ContinualPlanningProofs`, `TimeStampedStateProofs`, `SearchBranchProofs`, `BestFirstSearchProofs`, `ReschedulingProofs`,
`SymbolicStateProofs` and `PreprocessProofs` hold lemmas and theorems; the `MC` modules and `RobotTasks` hold small domains.

`ContinualPlanning` extends `PlanExecutor` extends `Plan`; it is mapped to
`ExecutiveCycle` by `ImplementsCycle`. `SearchBranch` and `BestFirstSearch` extend
`Monitoring` extends `TimeStampedState` extends `TemporalTask`; `SearchBranch` is mapped to
`DurativeActions` by `ImplementsActions`. `PlanFiles` extends `Rescheduling`, which takes its traces
from `TimeStampedState`. `MCHeuristic` takes its input through `PreprocessOutput`, so that
preprocess, `SearchGraphs` and the heuristic are composed as the files compose them;
`Translation` asks `AxiomEvaluation`'s rules for the values of derived variables, that is, the translator's
rules are judged by the search's evaluator. The executive and the planner meet at the plan
file: `Plan` says on facts what `BestFirstSearch` and `Monitoring` compute on time stamped states.

What the models abstract from: a fact or a variable is a member of a small set, an action is
a number; a race between two state estimations leaves any mixture of facts; the monitor, the
executors and the creators fail whenever they like, up to `MaxFaults` times; the order of
the open lists in `BestFirstSearch` is any order, an entry in several open lists is one entry;
sorted vectors are sets; where the translator lists a Python set, the order is a fixed one
(`Listed`), or any order where the result depends on it (`AxiomRules`); names are left out unless they bind
variables; time is a natural number in units that leave room for the midpoints (tenths in the
heuristic). In the plan files the unit is the last place the script writes, the planner writes two places less
(`PlanUnit`), and a second is `10^10` of them in the program and a constant here (`DecimalPlaces`: 10000 in the run, so that
the planner has two decimals and the script four; a duration of 2/3 s is rounded by both). The script divides its separation by
a power of ten (`PowersOfTen`), at least as large as plans are long; `epsTimeComparison` is 0 in the search and
three of the planner's decimals in rescheduling (the program's is 100 of them; two are what `OrderIsWritten` needs).

## 3. Runs

| run | asks | bounds, distinct states |
|---|---|---|
| `loop` | is the goal noticed soundly, is what was started removed and what was not tried kept, does `loop()` end, is the goal reached when nothing fails, when estimates, monitor, planner and actions fail, plan files are torn, the world changes and a fact is announced? | 3 actions, plans of up to 3 steps, start times 0, 0.001 s and 5 s (milliseconds: together, a scheduling gap apart, in the future), two executors, 1 fault; 196,880 |
| `handlers` | do PAUSE and STEP bound the loops, does the loop implement the cycle, does SIGINT end `main()`, with a handler thread in between? | 1 handler thread, 2 requests, 1 fault, torn plan files; two executors, one of them a service that can execute only some actions; 202,901 |
| `progression` | does every branch of the search keep its conditions and effects, is it an execution of durative actions, does the monitor agree? | 3 operators that overlap, started up to time 12 (twice the longest of them); 1,564 |
| `search` | is every plan written executable, and confirmed when the executive has its file monitored, is the last one the best, does what `plan()` answers fit (`AnswerIsFounded`), is no step to a better plan forgotten, does the search end? | slow and fast way to the same place, so that a state is reached again earlier after its successors were closed; the two ways have operators of one name; a state that the heuristic knows for a dead end; 12,451 |
| `symbolic_state` | is the type index the closure of what was declared, do objects follow it, does the problem file declare what was added, does it satisfy, up to the tolerance, a goal that `isFulfilledBy` accepts, is everything with a value about objects that are there or were left behind, does `addSuperType` return? | 3 types, 2 pairs declared (a chain in either order, a fork, a circle), 2 objects, a predicate about both, a number with three values (two within the tolerance, of which the file has the same digits or not), an object fluent, an event that sets them, and goals with conditions, fluents and for-all statements (`MCGoals`); 665,898 |
| `reschedule` | does P3C find the shortest distances where there are any, does the new plan keep the order, is it executable, is the order still there when it is written, do the files or their copies hold the best plan, does the script keep what precedes what? | every branch with up to `MaxStarts` = 5 starts of 6 operators (a match, a fuse, a way there and back, a faster way back, with which a second, better plan is found, a timed initial literal; two that end together and need what the other one ends); durations that are no decimals; 3 plans, 2 faults; 42,909 |
| `preprocess` | is what is pruned closed, has every change a transition, does the generator find the applicable operators? | 378 tasks: 1 to 3 of a robot's operators, 3 goals, with and without pruning; symbolic, functional, derived, comparison and module variables; 2,301 |
| `heuristic` | are costs final, does nothing abort, are derived values founded? | 7 of these tasks and one with two ways to open the door (`MCTwoWays`: a cost falls while its node is in the queue, and two operators share a name), up to `Rounds` = 3 states in succession with up to 2 operators running, extended by a cycle of rules; mode CEA on five tasks, SUFFIX_MAKESPAN on four without module conditions; 34,743 |
| `translation` | does the exploration find all that follows, do derived atoms and operators mean what the task says, do constrained ends hold? | 108 tasks over two places: 12 conditions with quantifiers, disjunctions and negation, 6 lists of effects, 5 lists of axioms (recursive, universal, negated, constant, static); all assignments of the basic variables, and all pairs of them as start and end; 14,855 |

One fault is enough for what a single failure can do to a cycle, as a torn plan file and the world may go on
doing harm after it; in the plan files the second one lets a failure follow another; two requests are enough for one to overtake
the other's effect (PAUSE then STEP, FORCE_REPLANNING during a planner call); three steps
let two be removed and one be shifted. Five starts let two actions run in a third and the
literal trigger beside them; three operators of the robot are enough for a causal chain through a derived
variable and for two transitions one of which dominates the other; two states after the first let a
memory that was left behind be read twice; two places are enough for a quantifier to
range over the parameter and over something else. `MaxFaults`, `MaxCommands`, `MaxStarts`, `MaxPlans`, `MaxDeclared` and `Rounds` bound counters the
program does not have; `MaxTime` bounds how far a branch is followed. `CHECK_DEADLOCK FALSE` is set for the programs that stop when they are done: the search,
rescheduling, preprocess, the heuristic and the translator.

`OperatorsAsDefined` and `DerivedAsDefined` are about tasks whose axioms have no cycle through a negation
(`NegatedAreAcyclic`: PDDL's condition of stratification); `OperatorsAsDefined` compares operators for
which no disjunction was multiplied out (`HasOneTranslation`) and no effect depends on the fact it
sets (`HasOwnCondition`), as the code departs from the task there (below).
`EndsAsConstrained` is about operators that know the old values of what their start
sets (`StartsAreKnown`). Object types are flat.

### Runs that disagree

Each checks one property the documentation or a comment states, and TLC finds it violated.

| run | what happens |
|---|---|
| `v_force_lost` | a FORCE_REPLANNING request that arrives while the planner works is reset when `plan()` returns |
| `v_at_end` | at-end conditions are erased before they are tested |
| `v_lifter` | two actions with an over-all condition on the same variable end together with a third that changes it; as every end has all the effects of the happening, each of the two is ordered before the other (`partial_order_lifter.cpp:280-293`), the later interval replaces the earlier and contradicts the order of their starts: the network has no schedule, and `assert(isValid)` fails (131) |

### Disagreements met without a run of their own

Executive:

* `tfdm_interface.cpp:187` says of a planner that has explored everything and found no plan "this returns
  fine (no error)". It returns 1 (`planner.cpp:245-247`), which the script around it makes 41, so that the
  executive is told `PR_FAILURE_OTHER` and not `PR_FAILURE_UNREACHABLE`; `AnswerIsFounded` allows for both.
* `SymbolicState::isFulfilledBy` does not look at a goal that was given as a string, and a for-all goal is tested
  for the objects the goal state knows, not those of the problem; `GoalCheckIsSound` is about goals without a string
  (`direct`) that know all the objects of the state (`KnowsObjects`).
* A goal that `isFulfilledBy` accepts within the tolerance of 0.0001 (`symbolicState.cpp:499`) may be one the planner,
  which compares the six digits it was given, does not: `GoalCheckIsSound` claims agreement up to that.
* `futureEvent.cpp:71` (`toPDDL`) leaves out the predicates an event makes false: the planner is not told that
  they will be.
* Two actions a scheduling gap (0.001 s) apart are tried in one loop; removing the first moves the second to 0, which then
  equals no action that was executed and stays in the plan (`plan.cpp:77`; `TriedStepIsLeft`). The monitor
  fails on it, and where the goal has been reached meanwhile the planner is asked for a plan at the goal: it answers with the
  empty one, which `loop()` takes for none (`continualPlanning.cpp:78`), so that the executive gives up at its
  goal. `loop` has such start times: `StartedStepsAreRemoved` is about steps that start at 0, and `ReachesGoal`
  names the case among those in which the goal may be missed.
* The same empty answer ends the executive at the goal when a fact is still announced: the monitor accepts no plan then.
  `ReachesGoal` names this case too (`problem.timed`).
* A plan that starts with a wait for an announced fact keeps its start times: `planExecutor.cpp:100-106`
  sleeps again and again ("wait until next action can start", line 103; `NothingToTry`, which `Termination` excepts).
* An event may trigger between `updateFutureEvents` and `writeProblem`; it is announced for the past and
  the planner finds nothing (`futureEvent.cpp:51`).
* A STEP that is served between `loop()` and the test of the mode is lost
  (`main.cpp:166-168`); `CommandsLimitLoops` holds, as it only bounds the loops.
* After PAUSE or STEP a direct action may run beside the plan (`main.cpp:61-62`). SIGINT before
  `main.cpp:108` dereferences `s_ContinualPlanning`, which is still NULL (`main.cpp:79`).
* `planExecutor.cpp:50,100-106`: without any later step the executive may sleep 99999 s.
* `continualPlanning.cpp:88-92` (nothing was executed) is dead: a step that nothing can
  execute is not reported there.
* The first, forced planning at the goal yields an empty plan and "not at goal"
  (`continualPlanning.cpp:76-78,202`); with a pending event the monitor never accepts,
  because the hidden `timed_initial_` actions are erased from the plan.
* `continualPlanning.cpp:185-195` uses the plan whatever `plan()` returned, torn plan file included.
* `symbolicState.h:85` says that `removeObject` removes "all predicates/fluents that contain obj", and
  lines 221-222 that parameters and the values of object fluents are known objects; `symbolicState.cpp:298-316` compares
  the parameters only and leaves fluents whose value is the object, neither `removeObject` nor `clear` looks at the
  events that are announced, and the caller may ask for the predicates to be kept. The run has all of it;
  `OnlyLeftBehindAreUnknown` says that these are the only ways to an unknown object.
* `symbolicState.cpp:662-663` (the test for an empty conjunction) writes the empty goal if only object fluents are set.

Search and monitoring:

* The closed list compares values and not what runs (`closed_list.cpp:98-127`): if an operator with start effects
  only is needed twice, the state in which it has ended is known, a better plan (or the only one) is lost, and the search reports
  "best plan found!" (`best_first_search.cpp:773`) after "Completely explored state space" (783). No run claims that the last plan is the
  best there is: `AnswerIsFounded` says what the answer means, `NothingIsMissed` that nothing is left out of
  what the closed list can tell apart.
* `state.cpp:58-62` copies the scheduled effects, conditions and operators of the predecessor but not
  its scheduled module effects, which `state.cpp:90-93` promises: starting a second operator drops
  those of the first. `ApplyOperator` models what the code does.
* `state.cpp:191`: with `epsilonize_internally` the increments drift apart.
* `trace_path` through an entry in which an operator runs moves the next start of that operator
  into its own run (`closed_list.cpp:285-304`): with `Op = {"press", "call"}` in
  `MCBestFirstSearch`, `PlanIsExecutable` fails with `press` started twice at 0. With a single state it does not
  shift at all.
* `timed_initials.py:22-63`: a literal that was compiled away may happen late.

Rescheduling and plan files:

* `planner.cpp:414-426` erases timed initial literals before `epsilonize_plan` (485-497), which
  then may move a step before the literal it waits for.
* Starts and durations are rounded one by one (`planner.cpp:466`), and again by the script (`epsilonize_plan.py:27`): a separation below
  the tenth decimal is lost there, and steps that were apart are written at the same time (`SeparationIsWritten`). It takes a granularity of
  8 decimals, which any duration such as 2/3 s gives, and `IsWrittenBefore` is not strict then.
* An empty plan lets an index of `sortPlan` wrap around; it leaves steps closer than epsilon unsorted.
* With `epsilonize_internally`, `partial_order_lifter.cpp:440` aborts (assertions are active: `ros.cmake:146` sets no
  `NDEBUG`).
* When `plan.N` cannot be opened, `plan.best` is already empty (`planner.cpp:451`; the fault `open`), and the makespan of what was lost is the
  bound of the next plans. When `plan.best` cannot (`openBest`), the old one is epsilonized once more (485-497).

Preprocess:

* The reader keeps conditions of an effect only if one of them is at end (`operator.cpp:54-95,107-155`), which
  `causal_graph.cpp:11-15` does not expect.
* An operator left with module effects only aborts in `write_prevails` (`operator.cpp:350`); `MCFilesWithModules`
  are tasks that show it.
* The comment "addtional start transition" belongs to an end transition (`domain_transition_graph.cpp:78-85`);
  transitions of a variable with two conditional effects carry the conditions of both.
* Called with an argument (no pruning), relations of unnecessary subterms stay uninitialized
  (`domain_transition_graph.cpp:157`). The number of goals counts duplicates (`helper_functions.cpp:381`).
* Conditions of numerical effects are missing in functional transitions; the search's `SuccessorGenerator`
  reads `cin` and not the stream it is given.

Heuristic:

* `try_to_fire` (121-129) lowers the key of a node inside of the heap and pushes the node once more. The old entry then hides what is pushed below
  it, so that with four nodes and more the top may not be the cheapest. The run has falling keys (`MCTwoWays`), and costs stay
  final there, but no queue long enough for that.
* With two running operators that set the same value a transition subscribes twice and an assertion fails
  (`cyclic_cg_heuristic.cpp:441,462`); the states of `heuristic` have no such pair.
* `generate_causal_constraints` asks for the local problem of a module's condition (about line 525), and with
  the preference for matching values the goal's problem reads `state[-1]` (about line 441).
* Constraints of the second and later parts of a relaxed plan count operators from the main plan's first.
* `updateComparisonVariables` (936-958) takes values within epsilon for `>`, any two different values for `>=`, and `ue`
  falls into `assert(false)`.
* With `cg_heuristic_zero_cost_waiting_transitions` off, costs that were passed on may fall later
  (that is the mutant of `CostsAreFinal`).

Translate:

* `translate.py:604` deletes conditions from dictionaries which `itertools.product` shares between the operators
  of one disjunction: for start `~at(x)`, end `at(x)`, with end effects `~at(x)`, `done(x)`, the second operator
  loses its condition (the comment at 646-650 announces one operator per disjunct).
* Conditions of effects that need an existential quantifier are dropped (`effects.py:168-184`); disjunctive
  conditions of effects of durative actions crash (`normalize.py:63-66` on a pair of lists).
* `translate.py:606-621` makes an effect unconditional when it sets the fact it depends on.
* A cycle of axioms through a negation ends in an assertion (`axiom_rules.py:72-77`).
* `axiom_rules.py:161` promises that no rule that is dominated survives; the set a rule is compared with is
  changed in place, and some do.
* `JoinRule` compares the common variables only, not common constants (`build_model.py:43-52`): the model may
  hold facts that do not follow. `ModelIsComplete` asks for one direction.
* A negative goal on an atom that is constantly true counts as satisfied (`translate.py:729-738`); a goal
  atom that never changes is missing in the dictionary. `simplify.py:1-307` is never called.

## 4. Fairness

`ContinualPlanning`: weak fairness of `MainStep`, of each handler thread's work and of
`FutureEventTriggers`. The threads of the program keep running; the planner has timeouts, and actionlib's
`waitForResult` is called without one, so that an executor that never answers is outside
of what is claimed; time goes on. Nobody has to send a request or a signal, and
nothing has to fail. `BestFirstSearch`: one sequential program, which takes a step as
long as there is one (spelt out in `Spec`); that the time is up is one of its steps and never has to happen.
`SymbolicState`: a call of `addSuperType` that was begun goes on; nobody has to call anything.
The other modules state safety only and assume no fairness.

## 5. Proofs

TLAPS checks, for every value of the constants that the named assumptions allow:

* `TypesAreKept` (`TypeOK`, which no run has to check any more), `AtGoalIsReal`,
  `CommandsAreLimits`, `RemovalIsAShift`, `StartedAreGone`, `UntriedAreKept`, `ExecutiveImplementsCycle`. The inductive
  invariant is `TypeInv` = `TypeOK` and `CallsArePlanned` (what a call still has to
  try are steps of its plan: without it the type of the running action is lost),
  then `GoalInv`, `CommandInv` and `ScheduleInv` on top of it. `CommandInv` says that at the head of
  the loop the mode is `PAUSE` once a STEP has had its loop. None of them assumes anything of the planner's output
  file: `ExecutiveCycle` acts on a plan that leads to the goal, or on the beginning of one where the file may be cut short
  (`TornPlanFile`).
* `ScheduleInv` says that what `executeBlocking` has executed are the steps it has tried, that what is
  missing in the plan is what was tried and is not to be removed any more, and how far the plan has moved
  while something is to be removed. A tried step that started at 0 is found under its own start time, whatever else is
  moved, and a step that was not tried is not mistaken for one that was unless its name starts
  again within 0.01 s (`NamesStartApart`).
* `PendingIsScheduled`, `RunningKeepsPending`: in every temporal task without a scheduling
  gap, what is pending is due when a running operator ends, and what runs keeps
  its conditions and unconditional effects pending. The inductive invariants are
  `IInv` and `KInv`: the property and that pending increments are positive naturals.
  With `Gap > 0` they do not hold (see `state.cpp:191`), hence the hypothesis.
* `RunningCanEnd` (`CanBeCompleted`), `OverAllHolds` (`OverAllIsKept`), `BranchExecutesActions`
  (`ImplementsActions`) and `MonitorAcceptsPlans` (`MonitorConfirmsSearch`), also for every task without a
  scheduling gap. `RunningCanEnd` rests on `CInv`: the state was consistent when it was last looked
  at, so that all the progression that `isConsistent` goes through succeeds, and what is left of it after one
  more step is a part of the same progression. `OverAllHolds` combines it with `KInv`: what runs has its
  over-all conditions pending, and progression without a failure tests all of them. `BranchExecutesActions` adds to them
  that an operator runs at most once at a time and that what is pending of modules is the operators' (`AInv`);
  each start or lapse of time is then a step of `DurativeActions`. `MonitorAcceptsPlans` follows the traces of
  `validatePlan` along the steps of the branch (`MInv`): after each step one of the traces is at the state the branch is in.
  Two facts about the task carry these proofs: its sets are finite (`TaskAssumption`), because progression
  ends when the last increment is reached, and rules are in one layer (`LayerAssumption`).
* `OrderIsAlwaysKept` (`OrderIsKept`, which leaves out two instants that are each ordered before the other: the network keeps the later of the two intervals only), `ScheduleIsEarliest`, `OnlyContradictionsAbort`, for every branch and
  every task whose durations are below the `INF` of `scheduler.h` (`DurationsFit`: two larger ones added up are no longer a duration), whatever positive number that is.
  `ScheduleInv` says for each stage what the network is. At `makeGraphChordal`, a pair of nodes
  without an arc has no constraint (`Connected`), which is why consistency along arcs is enough.
  Through `performDPC` and `tighten`, the matrix is a tightening of the first one (`Tightenings`): distances
  are no longer, and no times (`Times`: up to `INF` apart, as the code adds) that keep the first lose it. In
  `extractMinimalDistances`, every node is in the queue or no arc from it brings another node closer (`Settled`),
  and a distance is a bound that all such times respect (`DistancesBound`); the end of the queue gives a schedule (every
  constraint holds, the durations and the order with it) and the earliest one. The aborting assertion of
  `performDPC` is met only where no times satisfy the network at all.
* `OrderIsWritten` (`WrittenInOrder`): the order is still there when starts and durations are rounded one by one. Each of the two takes half a
  unit of `planner.cpp:466` at most (`PrintedIsClose`), an end takes both (`WrittenIsClose`), and the order is kept by `Eps`, which is
  more than both ends lose (`EpsilonIsWritten`: two such units; it is 1e-6 s, a unit is 1e-8 s).
* `LastIsAlwaysSaved`: `plan.best` and the last `plan.N`, or the copies the script reads (`IsSaved`), hold the last plan that was
  better, epsilonized or not, whichever script or move failed: `plan.N` unless it could not be opened, `plan.best` unless one of the two
  could not; `FilesInv` adds what they hold while they are written. It is the first part of `BestIsLast`.
* `PrecedenceIsAlwaysKept` (`PrecedenceIsKept`), for plans of any length and every task, whatever the durations are: what the
  planner writes is decimal, and the script's arithmetic on it exact (the separation is a whole number of the parts it counts in, `Parts`); what it
  writes is rounded, which keeps the order, and keeps it strict if the separation is at least one unit
  (`SeparationIsWritten`). `DecimalsAssumption` says that the decimal places are positive numbers with the planner's last one among
  them and a second as the largest, and that a power of ten is at least as large as plans are long. `PlanInv` says what a plan that is saved looks like: its steps are as many as were started and start
  at clock times, since what runs ends later than now, `EpsTime` finds a free moment (one of more than there are
  increments) and no time of the network is before that of `X0`, and sorting keeps the steps. `ByStart` is a permutation by
  starts, as the ranks are all different. The loop that removes wasted time keeps `HaveMoved`: no action was moved
  later, and those already moved have the order they had, because the happenings after which an action
  is put are those of all that are before it. Adding the separation twice makes the order strict.
* `HierarchyIsClosure`, `ObjectsAreUnderSuperTypes`, `ProblemIsDeclared`, `GoalCheckAgrees`, `SymbolicTypesAreKept`, `UnknownAreLeftBehind`. `ClosureInv` is what the loop of `addSuperType` keeps: what is still missing for
  transitivity is in the queue, and nothing is known or queued that does not follow. `ObjectInv`
  adds that a queued pair that is not yet known is reflexive or about a type without objects, which is why
  objects need not be revisited when types are declared. `FluentInv` adds that what is said and announced is
  about known objects or those that were left behind, so that triggering an event adds no others. That a goal
  is fulfilled means the same in memory and in the problem file up to the tolerance (`GoalChecked`), as a fact is written exactly when it has a value that
  is not false, a number in digits that agree with it (`Agree`), and a goal asks for no more objects than it knows.

* `ClosedListIsTree`: closed states come from closed states by operators
  that could be started there or by letting time pass, and so does what is still open. `ClosedIsTree` is
  inductive as it stands; it is what lets `TracePath` end where the search began, and no run checks it, as
  the theorem covers every task.
* `SpecNothingIsMissed` (`NothingIsMissed`), with `epsilonize_internally` off (`Gap = 0`, as the executive calls the planner). `SearchInv` types
  what is closed, taken and found; a traced plan is only typed by integers, as steps moved up may start before 0
  (section 3). A better plan lowers the bound, so that states gain no successors (`Improves`), and what is settled
  stays settled, as the closed list only grows.

* `SpecPruningIsClosed` (`PruningIsClosed`), `SpecGeneratorFindsApplicable` (`GeneratorFindsApplicable`) and
  `SpecEveryChangeHasATransition` (`EveryChangeHasATransition`), for every set of files the translator may write.
  `FilesAssumption` says what that is: each file is `WellFormed`, that is finite, its conditions and effects
  are about its variables and within their ranges, an operator has one effect per variable and set of
  conditions. Each theorem has an inductive invariant of its own, which says at each pass of `main()` what the
  earlier passes have left. `PruningInv`: the graph is that of the task, what has a duration is marked, and every
  edge to a kept variable comes from a kept one, so that what is stripped refers to nothing that is gone.
  `GeneratorInv`: each pass keeps the order of the variables (`InOrderSorts`: the sorting leaves every operator's
  conditions in that order), and the decision tree over the variables that are left finds what is applicable
  (an induction over how many are left; `RecursionExists` gives the recursive functions the tree is made of). `TransitionsInv`: the
  graphs are those of the stripped task; a transition is collected for every effect (`EndEffectIsCollected`), under
  conditions which the operator has (`TransitionConditionsAreGrounded`), and finalizing a graph keeps one that is no
  worse: of those that are equal the least one, of those that dominate others the least one that is not dominated
  itself (`Compresses`), which takes the same time.

Only model-checked, and why:

* liveness and everything with ENABLED (out of the prover's reach);
* `DerivedValuesAreFounded`, `NothingAborts`, `CostsAreFinal` (the heuristic),
  `ModelIsComplete`, `DerivedAsDefined`, `OperatorsAsDefined` and `EndsAsConstrained` (the translator): their
  modules need RECURSIVE operators over graphs and terms, or they say what a recursion over data computes for
  every input;
* `DistancesAreShortest`: it asks that distances are those of Floyd and
  Warshall, which sums cut off at `INF` do not give in every task. What holds of every task is proved instead:
  all constraints hold and nothing could be earlier;
* `RescheduledIsExecutable`, which needs that the constraints
  `buildPartialOrder` chooses are all that a plan depends on: an argument over all the orders of the
  happenings of a plan;
* the second part of `BestIsLast` (earlier plan files hold longer plans): separating happenings and erasing timed
  initial literals change makespans after they were compared, so that it does not hold in every task;
* `PlanIsExecutable` and `AnswerIsFounded`: what `BestFirstSearch` traces back through its closed list is
  proved to be a path of the search's own steps (`ClosedListIsTree`), and that it leaves nothing out
  (`SpecNothingIsMissed`); that the shifted times are executable is
  false for tasks with two operators of the kind section 3 names.

## 6. Not modelled

`PROJECT.json` lists every component with its status. `opl`, the GUI, the status publisher and the messages are text, output and data; the
benchmarks and scenarios are data; the module API loads shared objects and calls them. In `continualPlanning.cpp`, `ReplanAlways`,
`ReplanIfLogicalStateChanged`, `_allowDirectGoalCheck`, `reset()` and the re-estimation inside
`loop()` are never reached; the debug invocation with an action on the command line is
left out. Loading: SIGINT before the spinner starts, and an action server or service that never comes up, for
which the executors wait. In `symbolicState.cpp`: the comparison of states, reading a state back from
text. In `planner.cpp`: the plan name `-` (standard output). Monitoring: time stamps are not verified
(`monitoring_verify_timestamps`, off by default), nor are operators grounded for a plan step. In the search: grounding during the search, numerical variables in
`TimeStampedState`, relaxed module calls, the subgoal tie breaker; `no_heuristic.cpp`, and the heuristic's modes `COST`,
`REMAINING_MAKESPAN` and `WEIGHTED`. In preprocess: the text of modules, objects and constants, and
`max_dag`, which nothing calls. In the translator: parsing, the synthesis of invariants (its
groups are part of the task), numeric axioms, object functions, modules, timed initial literals (but for
their place in plans) and `simplify.py:1-307`.

## 7. Plan

Done: the executive with executor and plan (first because everything else serves it), the symbolic state, and the
planner from the parsed task to the plan files. Next, in this order:

1. Theorems about the heuristic and the translator, with recursive functions in place of the recursive operators.
2. The executive composed with `PlannerAnswer` and `Monitor`, so that `TornPlanFile` becomes a result.
3. Numerical variables in `TimeStampedState`, through `AxiomEvaluation`.
4. The synthesis of invariants in the translator, and timed initial literals compiled into operators.
