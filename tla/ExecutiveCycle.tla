--------------------------- MODULE ExecutiveCycle ---------------------------
(***************************************************************************)
(* What the continual planning loop promises, whatever its threads do: it  *)
(* assesses a state, acts only on a plan that leads from that state to the *)
(* goal or, where the planner's output may be cut short, at least can be   *)
(* executed from there, drops steps of the plan while acting but never     *)
(* invents one, and declares the goal reached only when the assessed state *)
(* satisfies it.                                                           *)
(***************************************************************************)
EXTENDS Plan

CONSTANTS
    TimedFact,     \* facts that may be announced for later
    TornPlanFile   \* whether only the beginning of a plan may be handed over

VARIABLES
    phase,     \* what the loop is doing, or how it ended
    assessed,  \* the facts, and the facts announced for later, last assessed
    plan       \* the plan it acts on

cycleVars == <<phase, assessed, plan>>

CycleTypeOK ==
    /\ phase \in {"assessing", "acting", "atGoal", "gaveUp", "stopped"}
    /\ assessed \in [facts : SUBSET Fact, timed : SUBSET TimedFact]
    /\ plan \in PlanSet

\* From the assessed state p leads to the goal once the announced facts have
\* come true, or it may be the beginning of such a plan.
Promising(p) ==
    \/ LeadsToGoal(assessed.facts, p, assessed.timed)
    \/ TornPlanFile /\ IsExecutable(assessed.facts, p, assessed.timed)

CycleInit ==
    /\ phase = "assessing"
    /\ assessed = [facts |-> {}, timed |-> {}]
    /\ plan = EmptyPlan

Assess ==
    /\ phase = "assessing"
    /\ assessed' \in [facts : SUBSET Fact, timed : SUBSET TimedFact]
    /\ UNCHANGED <<phase, plan>>

Act ==
    /\ phase = "assessing"
    /\ phase' = "acting"
    /\ plan' \in PlanSet
    /\ ~IsEmpty(plan')
    /\ Promising(plan')
    /\ UNCHANGED assessed

\* Steps that were tried are dropped from the plan; the others keep their order.
Drop ==
    /\ phase = "acting"
    /\ plan' \in PlanSet
    /\ Steps(plan') \subseteq Steps(plan)
    /\ \A k \in Steps(plan') : plan'[k].name = plan[k].name
    /\ UNCHANGED <<phase, assessed>>

Reassess == phase = "acting" /\ phase' = "assessing" /\ UNCHANGED <<assessed, plan>>

\* The goal is declared reached with nothing left to do, where it holds.
ReachGoal ==
    /\ phase = "assessing"
    /\ phase' = "atGoal"
    /\ IsEmpty(plan)
    /\ Goal \subseteq assessed.facts
    /\ UNCHANGED <<assessed, plan>>

GiveUp ==
    /\ phase = "assessing"
    /\ phase' \in {"gaveUp", "stopped"}
    /\ UNCHANGED <<assessed, plan>>

CycleNext == Assess \/ Act \/ Drop \/ Reassess \/ ReachGoal \/ GiveUp

CycleSpec == CycleInit /\ [][CycleNext]_cycleVars
=============================================================================
