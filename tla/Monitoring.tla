----------------------------- MODULE Monitoring -----------------------------
(***************************************************************************)
(* Monitoring: MonitorEngine::validatePlan (downward/search/monitoring.cpp) *)
(* finds out whether a plan is still executable from a state, in the order *)
(* of its steps and whatever their time stamps say; monitor()              *)
(* (interface/tfdm_interface.cpp) asks a planner process for it, which     *)
(* reads the plan from a file and answers by its exit code.                *)
(***************************************************************************)
EXTENDS TimeStampedState

\* The operators a step of a plan may stand for.
Named(name) == {o \in Op : Name[o] = name}

CanLetTimePass(s) == s.operators # {}

SatisfiesGoal(s) == Holds(Goal, s.value)

\* s and the states it passes through until nothing is running.
Passed(s) ==
    LET state[k \in 0..Cardinality(s.operators)] ==
            IF k = 0 THEN s
            ELSE LET last == state[k - 1]
                 IN  IF CanLetTimePass(last) THEN LetTimePass(last, FALSE) ELSE last
    IN  {state[k] : k \in DOMAIN state}

\* Of these, the one in which nothing is running.
Final(s) == CHOOSE t \in Passed(s) : ~CanLetTimePass(t)

\* The traces S to which an operator of this name is applicable, after it.
Applied(S, name) ==
    UNION {{ApplyOperator(s, o) : s \in {t \in S : IsApplicable(t, o)}} : o \in Named(name)}

\* Mutant of AfterStep: what runs is always run to its end first.
AfterStepSequential(S, name) ==
    {Final(s) : s \in Applied(S, name)}

\* The traces after an operator of this name is applied to the traces S: with
\* concurrent actions, every way of letting time pass is kept.
AfterStep(S, name) ==
    LET applied == Applied(S, name)
    IN  IF DisallowConcurrent THEN {Final(s) : s \in applied}
        ELSE UNION {Passed(s) : s \in applied}

ValidatePlan(initial, plan) ==
    LET traces[k \in 0..Len(plan)] ==
            IF k = 0 THEN {initial} ELSE AfterStep(traces[k - 1], plan[k])
    IN  \E s \in traces[Len(plan)] : SatisfiesGoal(Final(s))

\* The names of the steps of a plan file, stably sorted by their start times.
InOrder(file) ==
    LET earlier(i, j) == \/ file[i].start < file[j].start
                         \/ file[i].start = file[j].start /\ i < j
        place(i) == Cardinality({j \in DOMAIN file : earlier(j, i)}) + 1
    IN  [r \in DOMAIN file |-> file[CHOOSE i \in DOMAIN file : place(i) = r].name]

\* A plan with a step no operator has the name of is not valid.
ValidateFile(initial, file) ==
    /\ \A i \in DOMAIN file : Named(file[i].name) # {}
    /\ ValidatePlan(initial, InOrder(file))

\* The exit code of a planner process that monitors.
MonitorExit(valid) == IF valid THEN 0 ELSE 1

\* What system() returns for a process that exits with a code, and what
\* callPlanner and callMonitoring make of it.
WaitStatus(code) == 256 * code
Returned(status) == IF status % 256 = 0 THEN status \div 256 ELSE status % 256

\* The answer to the executive.  plan.monitored is removed before, written only when
\* the plan is valid, and decides if the script returned 1, as it does too when the
\* problem cannot be translated.
CallMonitoring(status, written) ==
    CASE Returned(status) = 0 -> "PR_SUCCESS"
      [] Returned(status) = 1 -> IF written THEN "PR_SUCCESS" ELSE "PR_FAILURE_UNREACHABLE"
      [] OTHER -> "PR_FAILURE_OTHER"

\* monitor(), if the plan file can be written and nothing else fails.
Monitor(initial, file) ==
    LET valid == ValidateFile(initial, file)
    IN  CallMonitoring(WaitStatus(MonitorExit(valid)), valid)
=============================================================================
