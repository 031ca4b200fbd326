----------------------------- MODULE PlanFiles -----------------------------
(***************************************************************************)
(* The plan files of the anytime search (downward/search/planner.cpp,      *)
(* save_plan and epsilonize_plan): every plan the search finds is          *)
(* rescheduled, and written as plan.N and plan.best if it is better than   *)
(* the plans before; a script (epsilonize_plan.py) then moves the          *)
(* happenings apart, so that nothing happens at the same time as something *)
(* else, and no time is wasted.                                            *)
(***************************************************************************)
EXTENDS Rescheduling

CONSTANTS
    None,
    TimedInitial,        \* operators that stand for timed initial literals
    EpsilonizeExternally,  \* g_parameters.epsilonize_externally
    KeepOriginalPlans,   \* g_parameters.keep_original_plans
    MaxPlans,            \* bound: plans that are found
    MaxFaults            \* bound: files that cannot be opened or moved, scripts that fail

ASSUME PlanFilesAssumption ==
    /\ TimedInitial \subseteq Op
    /\ {EpsilonizeExternally, KeepOriginalPlans} \subseteq BOOLEAN
    /\ MaxPlans \in Nat
    /\ MaxFaults \in Nat

----------------------------------------------------------------------------
(* The decimals of a plan file.  The unit of time is the last decimal      *)
(* place that the script writes ("%.10f"); the planner writes two places   *)
(* less ("%.8f").  A second, a tenth of it and so on are constants.        *)

PlanUnit == 100

CONSTANTS
    DecimalPlaces,   \* from a second down to what the planner writes
    PowersOfTen      \* from 1 on, as far as plans are long

ASSUME DecimalsAssumption ==
    /\ DecimalPlaces \subseteq Nat \ {0} /\ PowersOfTen \subseteq Nat \ {0}
    /\ PlanUnit \in DecimalPlaces
    /\ \E second \in DecimalPlaces : \A g \in DecimalPlaces : g <= second
    /\ \E q \in PowersOfTen : MaxStarts <= q

\* epsTimeComparison is 100 units of what the planner writes; two are enough for its
\* plans to be in order (WrittenInOrder).
ASSUME EpsilonIsWritten == 2 * PlanUnit <= Eps

\* The time in units of another length, to the closest number of them.
Rounded(time, unit) == (time + unit \div 2) \div unit

\* Mutant of Printed: one decimal place less.
PrintedCoarsely(time) == 10 * PlanUnit * Rounded(time, 10 * PlanUnit)

\* What the planner writes of a time.
Printed(time) == PlanUnit * Rounded(time, PlanUnit)

----------------------------------------------------------------------------
(* The script.  A plan is a sequence of actions with a start and a         *)
(* duration, in the order of its file.  The script counts in decimals      *)
(* without rounding: here, in parts of a unit that are small enough for    *)
(* the separation, Parts(p) to a unit.                                     *)

ActionEnd(a) == a.start + a.duration

Greatest(S) == CHOOSE x \in S : \A y \in S : y <= x

NextPowerOfTen(num) == Least({q \in PowersOfTen : num <= q})

Parts(p) == NextPowerOfTen(Len(p)) * 100

InParts(p) ==
    SubSeq([i \in DOMAIN p |-> [p[i] EXCEPT !.start = @ * Parts(p), !.duration = @ * Parts(p)]],
           1, Len(p))

\* The coarsest decimal place that all the durations have no fraction of.
Granularity(p) ==
    Greatest({g \in DecimalPlaces : \A i \in DOMAIN p : p[i].duration % (g * Parts(p)) = 0})

\* The granularity, divided by the number of parts: as many parts.
RequiredSeparation(p) == Granularity(p)

\* The k-th action of the file is moved k times the separation.
AddSeparation(p) ==
    LET separation == RequiredSeparation(p)
    IN  SubSeq([i \in DOMAIN p |-> [p[i] EXCEPT !.start = @ + i * separation]], 1, Len(p))

Makespan(p) == Greatest({0} \cup {ActionEnd(p[i]) : i \in DOMAIN p})

\* Mutant of LastHappeningBefore: ends do not count.
LastStartBefore(p, time, i) ==
    Greatest({0} \cup {p[j].start : j \in {k \in DOMAIN p \ {i} : p[k].start <= time}})

\* The last start or end of an action other than the i-th until this time.
LastHappeningBefore(p, time, i) ==
    Greatest({0} \cup {p[j].start : j \in {k \in DOMAIN p \ {i} : p[k].start <= time}}
                 \cup {ActionEnd(p[j]) : j \in {k \in DOMAIN p \ {i} : ActionEnd(p[k]) <= time}})

\* The actions by their starts, those that start together as in the file.
NoLater(p, i) ==
    {j \in DOMAIN p : p[j].start < p[i].start \/ (p[j].start = p[i].start /\ j <= i)}
Rank(p, i) == Cardinality(NoLater(p, i))
ByStart(p) == [r \in DOMAIN p |-> CHOOSE i \in DOMAIN p : Rank(p, i) = r]

\* One after the other the actions start at the happening before them.
RemoveWastedTime(p) ==
    LET apart == AddSeparation(p)
        byStart == ByStart(apart)
        early(q, i) == [q EXCEPT ![i].start = LastHappeningBefore(q, @, i)]
        moved[k \in 0..Len(p)] == IF k = 0 THEN apart ELSE early(moved[k - 1], byStart[k])
    IN  moved[Len(p)]

AdjustedMakespan(p) == Makespan(RemoveWastedTime(p))

\* What the script computes of a plan file, in parts.
SeparatedPlan(p) == AddSeparation(RemoveWastedTime(InParts(p)))

\* What it writes.
EpsilonizedPlan(p) ==
    LET q == SeparatedPlan(p)
    IN  SubSeq([i \in DOMAIN q |->
                  [q[i] EXCEPT !.start = Rounded(@, Parts(p)), !.duration = Rounded(@, Parts(p))]],
               1, Len(p))

\* The script fails if time was lost.
EpsilonizeFails(p) == Makespan(InParts(p)) < AdjustedMakespan(SeparatedPlan(p))

----------------------------------------------------------------------------
(* The files.                                                              *)

VARIABLES
    bestMakespan,  \* of the plans that were saved
    planNumber,    \* plan_number
    output,        \* rescheduled_plan, without the timed initial literals
    files,         \* the plan files: their steps, or None
    originals,     \* their copies before they were epsilonized
    faults         \* what has failed

fileVars == <<bestMakespan, planNumber, output, files, originals, faults>>


\* plan.best and plan.N
Best == 0
File == {Best} \cup 1..MaxPlans

PlanFilesInit ==
    /\ Init
    /\ bestMakespan = INF
    /\ planNumber = 1
    /\ output = <<>>
    /\ files = [f \in File |-> None]
    /\ originals = [f \in File |-> None]
    /\ faults = {}

\* The search goes on for plans that take less time.
FindPlan ==
    /\ planNumber <= MaxPlans
    /\ Now.timestamp < bestMakespan
    /\ Next
    /\ UNCHANGED fileVars

\* The steps that are written, each with its duration, as they are written.
PlanSteps(p) ==
    LET kept == Ascending({i \in DOMAIN p : p[i].op \notin TimedInitial}, Len(p))
    IN  [k \in DOMAIN kept |-> [start |-> Printed(p[kept[k]].start), op |-> p[kept[k]].op,
                                duration |-> Printed(Duration[p[kept[k]].op])]]

RescheduledMakespan == Latest({0} \cup {plan[i].start + Duration[plan[i].op] : i \in DOMAIN plan})

IsBetter == RescheduledMakespan < bestMakespan

\* The search looks for the next plan.
Continue ==
    /\ stage' = "search"
    /\ trace' = <<InitialState>>
    /\ plan' = <<>>
    /\ instants' = <<>>
    /\ order' = {}
    /\ stn' = Unconstrained(0)
    /\ ordering' = <<>>
    /\ neighbors' = <<>>
    /\ distances' = <<>>
    /\ queue' = <<>>

Fault(kind) == Cardinality(faults) < MaxFaults /\ faults' = faults \cup {kind}

\* A plan that is not better is not saved.
DropPlan ==
    /\ stage = "done"
    /\ ~IsBetter
    /\ Continue
    /\ UNCHANGED fileVars

\* plan.N and plan.best are opened, and emptied, before it is looked whether plan.N is
\* open: if it is not, nothing is written.  If plan.best is not, it stays as it was, but
\* is epsilonized with plan.N.
WritePlan ==
    /\ stage = "done"
    /\ IsBetter
    /\ output' = PlanSteps(plan)
    /\ bestMakespan' = RescheduledMakespan
    /\ \/ /\ \/ /\ files' = [f \in File |-> IF f \in {Best, planNumber} THEN output' ELSE files[f]]
                /\ UNCHANGED faults
             \/ /\ Fault("openBest")
                /\ files' = [files EXCEPT ![planNumber] = output']
          /\ planNumber' = planNumber + 1
          /\ stage' = IF EpsilonizeExternally THEN "epsilonize" ELSE "saved"
       \/ /\ Fault("open")
          /\ files' \in {files, [files EXCEPT ![Best] = <<>>]}
          /\ stage' = "saved"
          /\ UNCHANGED planNumber
    /\ UNCHANGED <<trace, plan, instants, order, networkVars, originals>>

\* Mutant of MovedBack: what the script left remains.
NotMovedBack(f) == [files EXCEPT ![f] = <<>>]

\* The files after the script has failed.
MovedBack(f) == files

\* epsilonize_plan of file f, which a script reads from where it was moved to.
EpsilonizeFile(f) ==
    \/ files[f] = None /\ UNCHANGED <<files, originals, faults>>
    \/ /\ files[f] # None
       /\ ~EpsilonizeFails(files[f])
       /\ files' = [files EXCEPT ![f] = EpsilonizedPlan(@)]
       /\ originals' = [originals EXCEPT ![f] = IF KeepOriginalPlans THEN files[f] ELSE None]
       /\ UNCHANGED faults
    \/ /\ files[f] # None
       /\ \/ EpsilonizeFails(files[f]) /\ UNCHANGED faults
          \/ Fault("script")
       /\ files' = MovedBack(f)
       /\ originals' = [originals EXCEPT ![f] = None]
    \/ files[f] # None /\ Fault("move") /\ UNCHANGED <<files, originals>>
    \/ /\ files[f] # None
       /\ Fault("moveBack")
       /\ originals' = [originals EXCEPT ![f] = files[f]]
       /\ files' = [files EXCEPT ![f] = <<>>]

EpsilonizePlan ==
    /\ \/ /\ stage = "epsilonize"
          /\ EpsilonizeFile(planNumber - 1)
          /\ stage' = "epsilonizeBest"
       \/ /\ stage = "epsilonizeBest"
          /\ EpsilonizeFile(Best)
          /\ stage' = "saved"
    /\ UNCHANGED <<trace, plan, instants, order, networkVars, bestMakespan, planNumber, output>>

NextPlan ==
    /\ stage = "saved"
    /\ planNumber <= MaxPlans
    /\ Continue
    /\ UNCHANGED fileVars

PlanFilesNext ==
    \/ FindPlan
    \/ DropPlan
    \/ WritePlan
    \/ EpsilonizePlan
    \/ NextPlan

PlanFilesSpec == PlanFilesInit /\ [][PlanFilesNext]_<<vars, fileVars>>

----------------------------------------------------------------------------
(* Properties                                                              *)

\* File f holds the last plan that was better, as it was or with its happenings
\* separated, or its copy does.
IsSaved(f) ==
    \/ files[f] \in {output, EpsilonizedPlan(output)}
    \/ files[f] = <<>> /\ originals[f] = output

\* The last plan that was better is saved as plan.N, and as plan.best, in the file or
\* its copy; if plan.best could not be opened, at least as plan.N; and if plan.N could
\* not, not at all.
LastIsSaved ==
    "open" \notin faults =>
        /\ IsSaved(planNumber - 1)
        /\ "openBest" \notin faults => IsSaved(Best)

\* A script that fails, or a file that cannot be moved, costs no plan: the last of
\* the plans is saved, and none of those before it takes less time.
BestIsLast ==
    "open" \notin faults /\ stage \in {"search", "saved"} /\ planNumber > 1 =>
        /\ LastIsSaved
        /\ \A n \in 1..(planNumber - 2) :
              files[n] # <<>> => Makespan(output) <= Makespan(files[n])

\* What the planner writes of an instant: an action ends its duration after its start.
WrittenTime(i) ==
    LET start(k) == Printed(-distances[k])
        startOf == CHOOSE k \in DOMAIN instants :
                       instants[k].type = "start" /\ instants[k].endAction = i
    IN  IF instants[i].type = "start" THEN start(i)
        ELSE start(startOf) + Printed(Duration[instants[startOf].op])

\* Starts and durations are rounded one by one, but what has to come before something
\* in the order of the lifter still does in the file.
WrittenInOrder ==
    stage = "done" =>
        \A pair \in order :
            <<pair[2], pair[1]>> \notin order => WrittenTime(pair[1]) < WrittenTime(pair[2])

\* The script is to run on file f, and rewrites it.
Rewrites(f) ==
    stage \in {"epsilonize", "epsilonizeBest"} /\ files'[f] \notin {files[f], <<>>}

\* The separation is not lost when it is written.
SeparationIsWritten(p) == RequiredSeparation(InParts(p)) >= Parts(p)

\* One time is written before another one of what the script made of plan p.
IsWrittenBefore(p, a, b) == IF SeparationIsWritten(p) THEN a < b ELSE a <= b

\* q keeps the order of p: an action that starts after another one has started, or
\* has ended, still does, and no longer at the same time if that can be written.
KeepsOrder(p, q) ==
    \A i, j \in DOMAIN p : i < j =>
        /\ p[i].start <= p[j].start => IsWrittenBefore(p, q[i].start, q[j].start)
        /\ ActionEnd(p[i]) <= p[j].start => IsWrittenBefore(p, ActionEnd(q[i]), q[j].start)

\* What the script separates keeps its order, wherever it removes wasted time and
\* whatever of it is rounded away.
PrecedenceIsKept ==
    [][\A f \in File : Rewrites(f) => KeepsOrder(files[f], files'[f])]_<<vars, fileVars>>
============================================================================
