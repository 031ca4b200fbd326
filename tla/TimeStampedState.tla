-------------------------- MODULE TimeStampedState --------------------------
(***************************************************************************)
(* The states of the temporal search (downward/search/state.cpp): values,  *)
(* a time stamp, the operators that are running, and the effects and       *)
(* conditions they still have pending; how an operator is applied, how     *)
(* time passes, and when an operator is applicable (operator.cpp).         *)
(*                                                                         *)
(* The sorted vectors are sets; where their order matters (effects that    *)
(* are due together) it is restored from operator<.  Time is counted in    *)
(* units small enough for the midpoint between two happenings.             *)
(***************************************************************************)
EXTENDS TemporalTask

CONSTANTS
    Gap,           \* epsSchedulingGapTime if epsilonize_internally, otherwise 0
    DisallowConcurrent   \* g_parameters.disallow_concurrent_actions

ASSUME StateAssumption ==
    /\ Gap \in Nat
    /\ DisallowConcurrent \in BOOLEAN

ScheduledEffect == [increment : Nat, effect : Effect, op : Op]
ScheduledCondition == [increment : Nat \ {0}, cond : Condition, op : Op]
ScheduledOperator == [increment : Nat \ {0}, op : Op]

State == [value : [Var -> Val], timestamp : Nat,
          effects : SUBSET ScheduledEffect, moduleEffects : SUBSET ScheduledEffect,
          overall : SUBSET ScheduledCondition, atEnd : SUBSET ScheduledCondition,
          operators : SUBSET ScheduledOperator]

InitialState ==
    [value |-> Evaluate(InitialValue), timestamp |-> 0, effects |-> {}, moduleEffects |-> {},
     overall |-> {}, atEnd |-> {}, operators |-> {}]

\* What operator o schedules for its end.
Schedule(o, effects) == {[increment |-> Duration[o], effect |-> e, op |-> o] : e \in effects}

\* Mutant of Require: the conditions are given up before the end.
RequireTooShort(o, conds) ==
    {[increment |-> Duration[o] - 1, cond |-> c, op |-> o] : c \in conds}

\* The conditions of operator o that hold until its end.
Require(o, conds) == {[increment |-> Duration[o], cond |-> c, op |-> o] : c \in conds}

\* Everything in the set S moves dt closer.
Closer(S, dt) == {[x EXCEPT !.increment = @ - dt] : x \in S}

\* ScheduledEffect::operator<, as far as the outcome depends on it.
Precedes(e, f) ==
    \/ e.increment < f.increment
    \/ e.increment = f.increment /\ e.effect.var < f.effect.var
    \/ /\ e.increment = f.increment /\ e.effect.var = f.effect.var
       /\ \/ e.effect.pre < f.effect.pre
          \/ e.effect.pre = f.effect.pre /\ e.effect.post < f.effect.post

\* The values after the scheduled effects E, each if its at-end conditions
\* hold after the effects before it.
Outcome(E, value) ==
    LET after[S \in SUBSET E] ==
            IF S = {} THEN value
            ELSE LET e == CHOOSE x \in S : \A y \in S : ~Precedes(x, y)
                     before == after[S \ {e}]
                 IN  IF Holds(e.effect.end, before)
                     THEN [before EXCEPT ![e.effect.var] = e.effect.post] ELSE before
    IN  after[E]

\* The state after operator o is started in s.  What is due within the gap
\* happens at once; the increments of the conditions and operators stay.
\* The scheduled module effects of s are not taken over.
ApplyOperator(s, o) ==
    LET effects == s.effects \cup Schedule(o, {e \in EffectEnd[o] : Holds(e.start, s.value)})
        modules == Schedule(o, {e \in ModuleEffectEnd[o] : Holds(e.start, s.value)})
        started == Evaluate(StartOutcome(EffectStart[o], s.value))
        due == {e \in effects : e.increment < Gap}
        modulesDue == {e \in modules : e.increment < Gap}
    IN  [value |-> Evaluate(Outcome(due, Outcome(modulesDue, started))),
         timestamp |-> s.timestamp + Gap,
         effects |-> Closer(effects \ due, Gap),
         moduleEffects |-> Closer(modules \ modulesDue, Gap),
         overall |-> s.overall \cup Require(o, PrevailOverall[o]),
         atEnd |-> s.atEnd \cup Require(o, PrevailEnd[o]),
         operators |-> s.operators \cup {[increment |-> Duration[o], op |-> o]}]

\* Time from s to the end of the next running operator.
NextHappening(s) ==
    LET ends == {x.increment : x \in {y \in s.operators : y.increment > 0}}
    IN  IF ends = {} THEN 0 ELSE Least(ends)

\* The first multiple of the gap after offset at which no operator ends.
EpsTime(s, offset) ==
    LET multiples == {Gap * k : k \in 1..(Cardinality(s.operators) + 1)}
    IN  Least({t \in multiples : \A x \in s.operators : x.increment # offset + t})

\* let_time_pass half way to the next happening: only the clock moves.
PassToIntermediate(s) ==
    LET dt == NextHappening(s) \div 2
    IN  [s EXCEPT !.timestamp = @ + dt,
                  !.effects = Closer(@, dt), !.moduleEffects = Closer(@, dt),
                  !.overall = Closer(@, dt), !.atEnd = Closer(@, dt),
                  !.operators = Closer(@, dt)]

\* Mutant of Due: what is due exactly then is forgotten.
DueBefore(S, dt) == {e \in Closer(S, dt) : e.increment < 0}

\* The scheduled effects of S that are due when dt has passed.
Due(S, dt) == {e \in Closer(S, dt) : e.increment <= 0}

\* What of S is still in the future then.
Future(S, dt) == {x \in Closer(S, dt) : x.increment > 0}

\* Mutant of Pending: effects that have happened are kept.
PendingOrPresent(S, dt, value) ==
    {e \in Closer(S, dt) : e.increment >= 0 /\ Holds(e.effect.overall, value)}

\* The effects of S that are still to come then: in the future, and with
\* over-all conditions that hold in these values.
Pending(S, dt, value) == {e \in Future(S, dt) : Holds(e.effect.overall, value)}

\* let_time_pass by dt: what is due happens, modules first, and what is not in
\* the future any more is dropped, as are effects whose over-all conditions fail.
PassBy(s, dt) ==
    LET modulesDone == Outcome(Due(s.moduleEffects, dt), s.value)
        value == Evaluate(Outcome(Due(s.effects, dt), modulesDone))
    IN  [value |-> value, timestamp |-> s.timestamp + dt,
         effects |-> Pending(s.effects, dt, value),
         moduleEffects |-> Pending(s.moduleEffects, dt, value),
         overall |-> Future(s.overall, dt), atEnd |-> Future(s.atEnd, dt),
         operators |-> Future(s.operators, dt)]

\* let_time_pass to the next happening, and a gap further if steps are skipped.
LetTimePass(s, skipEpsSteps) ==
    LET dt == NextHappening(s)
    IN  PassBy(s, IF skipEpsSteps /\ Gap > 0 THEN dt + EpsTime(s, dt) ELSE dt)

\* Mutant of IsConsistentNow: only conditions at the end are tested.
IsConsistentAtEnd(s) ==
    \A x \in s.atEnd : x.increment = 0 => Holds({x.cond}, s.value)

IsConsistentNow(s) ==
    /\ \A x \in s.overall : Holds({x.cond}, s.value)
    /\ \A x \in s.atEnd : x.increment = 0 => Holds({x.cond}, s.value)

\* s and the states it leads to until everything that runs has ended, each
\* happening preceded by the midpoint before it.
Progression(s) ==
    LET happenings == Cardinality({x.increment : x \in {y \in s.operators : y.increment > 0}})
        state[k \in 0..(2 * happenings)] ==
            IF k = 0 THEN s
            ELSE IF k % 2 = 1 THEN PassToIntermediate(state[k - 1])
            ELSE LetTimePass(state[k - 1], FALSE)
    IN  state

IsConsistentWhenProgressed(s) ==
    LET state == Progression(s)
    IN  \A k \in DOMAIN state : IsConsistentNow(state[k])

\* Mutant of IsApplicable: the state is not progressed.
IsApplicableNow(s, o) ==
    /\ Startable(o, s.value)
    /\ \A x \in s.operators : Name[x.op] # Name[o]
    /\ IsConsistentNow(ApplyOperator(s, o))

\* Operator::is_applicable.  No two operators of one name run together.
IsApplicable(s, o) ==
    /\ DisallowConcurrent => s.operators = {}
    /\ Gap > 0 => \A x \in s.operators : x.increment # Gap
    /\ Startable(o, s.value)
    /\ \A x \in s.operators : Name[x.op] # Name[o]
    /\ IsConsistentWhenProgressed(ApplyOperator(s, o))
=============================================================================
