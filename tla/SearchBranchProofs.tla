------------------------- MODULE SearchBranchProofs -------------------------
(***************************************************************************)
(* What is pending in a state of the search and what runs there agree,     *)
(* what runs can end and keeps its over-all conditions, a branch is an     *)
(* execution of durative actions and the monitor accepts its plan, for     *)
(* every temporal task.  The proof is for Gap = 0, that is for             *)
(* epsilonize_internally = false, as the executive calls the planner: with *)
(* a gap, ApplyOperator moves the effects closer and nothing else.         *)
(***************************************************************************)
EXTENDS SearchBranch, TimeStampedStateProofs

----------------------------------------------------------------------------
\* The inductive invariant: types and the property itself.
IInv == PendingTyped(current) /\ PendingFollowsOperators

\* PendingFollowsOperators, for one state.
Follows(s, S) == \A x \in S : \E o \in s.operators : o.op = x.op /\ o.increment = x.increment

\* The property says so of each set of pending entries.
LEMMA PendingFollowsAll ==
    PendingFollowsOperators <=>
        /\ Follows(current, current.effects)
        /\ Follows(current, current.moduleEffects)
        /\ Follows(current, current.overall)
        /\ Follows(current, current.atEnd)
  BY Zenon DEF PendingFollowsOperators, Follows

\* Everything in S still follows an operator when time has passed for both.
LEMMA FollowsWhenPassed ==
    ASSUME NEW s, NEW t, NEW S, NEW dt \in Nat,
           S \subseteq ScheduledEffect \/ S \subseteq ScheduledCondition,
           s.operators \subseteq ScheduledOperator,
           Follows(s, S), t.operators = Future(s.operators, dt)
    PROVE  Follows(t, Future(S, dt))
<1> SUFFICES ASSUME NEW y \in Future(S, dt)
             PROVE  \E o \in t.operators : o.op = y.op /\ o.increment = y.increment
  BY DEF Follows
<1>1. PICK x \in S : y = Moved(x, dt) /\ y.increment > 0
  BY FutureIsMoved, Zenon
<1>2. PICK o \in s.operators : o.op = x.op /\ o.increment = x.increment
  BY Zenon DEF Follows
<1>3. /\ y.op = x.op /\ y.increment = x.increment - dt
      /\ Moved(o, dt).op = o.op /\ Moved(o, dt).increment = o.increment - dt
  BY <1>1, MovedFields
<1>4. Moved(o, dt) \in Future(s.operators, dt)
  BY <1>1, <1>2, <1>3, FutureIsMoved
<1>5. QED
  BY <1>2, <1>3, <1>4

\* Starting an operator and letting time pass keep the types.
LEMMA TypedStep ==
    ASSUME Gap = 0, PendingTyped(current), [Next]_stateVars
    PROVE  PendingTyped(current')
<1>1. ASSUME NEW o \in Op, StartOperator(o)
      PROVE  PendingTyped(current')
  <2> DEFINE fired(E) == {e \in E : Holds(e.start, current.value)}
  <2>1. Duration[o] > 0 /\ current' = ApplyOperator(current, o)
    BY <1>1 DEF StartOperator
  <2>2. /\ fired(EffectEnd[o]) \in SUBSET Effect /\ fired(ModuleEffectEnd[o]) \in SUBSET Effect
        /\ PrevailOverall[o] \in SUBSET Condition /\ PrevailEnd[o] \in SUBSET Condition
    BY TaskAssumption
  <2>3. /\ current'.effects = current.effects \cup Schedule(o, fired(EffectEnd[o]))
        /\ current'.moduleEffects = Schedule(o, fired(ModuleEffectEnd[o]))
        /\ current'.overall = current.overall \cup Require(o, PrevailOverall[o])
        /\ current'.atEnd = current.atEnd \cup Require(o, PrevailEnd[o])
        /\ current'.operators = current.operators \cup {[increment |-> Duration[o], op |-> o]}
    BY <2>1, AppliedWithoutGap, Gap = 0
  <2> HIDE DEF fired
  <2>4. /\ Schedule(o, fired(EffectEnd[o])) \subseteq ScheduledEffect
        /\ Schedule(o, fired(ModuleEffectEnd[o])) \subseteq ScheduledEffect
        /\ Require(o, PrevailOverall[o]) \subseteq ScheduledCondition
        /\ Require(o, PrevailEnd[o]) \subseteq ScheduledCondition
        /\ [increment |-> Duration[o], op |-> o] \in ScheduledOperator
    BY <2>1, <2>2, ScheduleTyped, Zenon
  <2>5. QED
    BY <2>3, <2>4, Zenon DEF PendingTyped
<1>2. ASSUME PassTime
      PROVE  PendingTyped(current')
  <2>1. PICK dt \in Nat :
          /\ current'.effects = Pending(current.effects, dt, current'.value)
          /\ current'.moduleEffects = Pending(current.moduleEffects, dt, current'.value)
          /\ current'.overall = Future(current.overall, dt)
          /\ current'.atEnd = Future(current.atEnd, dt)
          /\ current'.operators = Future(current.operators, dt)
    BY <1>2, PassedWithoutGap, Gap = 0 DEF PassTime
  <2>2. \A S : Pending(S, dt, current'.value) \subseteq Future(S, dt)
    BY DEF Pending
  <2>3. /\ Future(current.effects, dt) \subseteq ScheduledEffect
        /\ Future(current.moduleEffects, dt) \subseteq ScheduledEffect
        /\ Future(current.overall, dt) \subseteq ScheduledCondition
        /\ Future(current.atEnd, dt) \subseteq ScheduledCondition
        /\ Future(current.operators, dt) \subseteq ScheduledOperator
    BY FutureTyped, Zenon DEF PendingTyped
  <2>4. QED
    BY <2>1, <2>2, <2>3 DEF PendingTyped
<1>3. CASE UNCHANGED stateVars
  BY <1>3 DEF stateVars
<1>4. QED
  BY <1>1, <1>2, <1>3 DEF Next

\* The inductive invariant is kept by every step.
LEMMA FollowsStep ==
    ASSUME Gap = 0, IInv, [Next]_stateVars
    PROVE  IInv'
<1>1. PendingTyped(current')
  BY TypedStep, Gap = 0 DEF IInv
<1>2. /\ Follows(current, current.effects) /\ Follows(current, current.moduleEffects)
      /\ Follows(current, current.overall) /\ Follows(current, current.atEnd)
      /\ PendingTyped(current)
  BY PendingFollowsAll DEF IInv
<1>3. SUFFICES /\ Follows(current', current'.effects) /\ Follows(current', current'.moduleEffects)
               /\ Follows(current', current'.overall) /\ Follows(current', current'.atEnd)
  BY <1>1, Zenon DEF IInv, PendingFollowsOperators, Follows
<1>4. ASSUME NEW o \in Op, StartOperator(o)
      PROVE  /\ Follows(current', current'.effects) /\ Follows(current', current'.moduleEffects)
             /\ Follows(current', current'.overall) /\ Follows(current', current'.atEnd)
  <2> DEFINE fired(E) == {e \in E : Holds(e.start, current.value)}
             added == [increment |-> Duration[o], op |-> o]
  <2>1. Duration[o] > 0 /\ current' = ApplyOperator(current, o)
    BY <1>4 DEF StartOperator
  <2>2. /\ current'.effects = current.effects \cup Schedule(o, fired(EffectEnd[o]))
        /\ current'.moduleEffects = Schedule(o, fired(ModuleEffectEnd[o]))
        /\ current'.overall = current.overall \cup Require(o, PrevailOverall[o])
        /\ current'.atEnd = current.atEnd \cup Require(o, PrevailEnd[o])
        /\ current'.operators = current.operators \cup {added}
    BY <1>2, <2>1, AppliedWithoutGap, Gap = 0
  <2>3. \A S : Follows(current, S) => Follows(current', S)
    BY <2>2 DEF Follows
  <2>4. ASSUME NEW S
        PROVE  Follows(current', Schedule(o, S)) /\ Follows(current', Require(o, S))
    <3>1. added \in current'.operators /\ added.op = o /\ added.increment = Duration[o]
      BY <2>2
    <3>2. \A x \in Schedule(o, S) \cup Require(o, S) : x.op = o /\ x.increment = Duration[o]
      BY DEF Schedule, Require
    <3>3. QED
      BY <3>1, <3>2, Zenon DEF Follows
  <2>5. \A S, T : Follows(current', S) /\ Follows(current', T) => Follows(current', S \cup T)
    BY Zenon DEF Follows
  <2> HIDE DEF fired, added
  <2>6. /\ Follows(current', current.effects \cup Schedule(o, fired(EffectEnd[o])))
        /\ Follows(current', Schedule(o, fired(ModuleEffectEnd[o])))
        /\ Follows(current', current.overall \cup Require(o, PrevailOverall[o]))
        /\ Follows(current', current.atEnd \cup Require(o, PrevailEnd[o]))
    BY <1>2, <2>3, <2>4, <2>5, Zenon
  <2>7. QED
    BY <2>2, <2>6
<1>5. ASSUME PassTime
      PROVE  /\ Follows(current', current'.effects) /\ Follows(current', current'.moduleEffects)
             /\ Follows(current', current'.overall) /\ Follows(current', current'.atEnd)
  <2>1. PICK dt \in Nat :
          /\ current'.effects = Pending(current.effects, dt, current'.value)
          /\ current'.moduleEffects = Pending(current.moduleEffects, dt, current'.value)
          /\ current'.overall = Future(current.overall, dt)
          /\ current'.atEnd = Future(current.atEnd, dt)
          /\ current'.operators = Future(current.operators, dt)
    BY <1>2, <1>5, PassedWithoutGap, Gap = 0 DEF PassTime
  <2>2. \A S : Pending(S, dt, current'.value) \subseteq Future(S, dt)
    BY DEF Pending
  <2>3. \A S, T : S \subseteq T /\ Follows(current', T) => Follows(current', S)
    BY Zenon DEF Follows
  <2>4. /\ Follows(current', Future(current.effects, dt))
        /\ Follows(current', Future(current.moduleEffects, dt))
        /\ Follows(current', Future(current.overall, dt))
        /\ Follows(current', Future(current.atEnd, dt))
    BY <1>2, <2>1, FollowsWhenPassed, Zenon DEF PendingTyped
  <2>5. /\ Follows(current', Pending(current.effects, dt, current'.value))
        /\ Follows(current', Pending(current.moduleEffects, dt, current'.value))
    BY <2>2, <2>3, <2>4, Zenon
  <2>6. QED
    BY <2>1, <2>4, <2>5
<1>6. CASE UNCHANGED stateVars
  BY <1>2, <1>6, Zenon DEF stateVars
<1>7. QED
  BY <1>4, <1>5, <1>6 DEF Next

\* In the initial state nothing is pending.
LEMMA InitIsTyped ==
    ASSUME Init
    PROVE  IInv /\ OperatorsKeepPending
  BY DEF Init, InitialState, IInv, PendingTyped, PendingFollowsOperators, OperatorsKeepPending

\* Whatever is pending in a state of the search, effect or condition, is due
\* when an operator that runs ends: nothing happens out of the blue, and
\* nothing that was due is still pending.
THEOREM PendingIsScheduled ==
    ASSUME Gap = 0
    PROVE  Spec => []PendingFollowsOperators
<1>1. Init => IInv
  BY InitIsTyped
<1>2. IInv /\ [Next]_stateVars => IInv'
  BY FollowsStep, Gap = 0
<1>3. IInv => PendingFollowsOperators
  BY DEF IInv
<1>4. QED
  BY <1>1, <1>2, <1>3, PTL DEF Spec

----------------------------------------------------------------------------
\* What operator o of a state has to have pending, by OperatorsKeepPending.
Unconditional(o) == {e \in EffectEnd[o.op] : e.start \cup e.overall = {}}
EffectOf(o, e) == [increment |-> o.increment, effect |-> e, op |-> o.op]
ConditionOf(o, c) == [increment |-> o.increment, cond |-> c, op |-> o.op]
Keeps(s, o) ==
    /\ \A e \in Unconditional(o) : EffectOf(o, e) \in s.effects
    /\ \A c \in PrevailOverall[o.op] : ConditionOf(o, c) \in s.overall

\* The property says so of each running operator.
LEMMA OperatorsKeepAll ==
    OperatorsKeepPending <=> \A o \in current.operators : Keeps(current, o)
  BY DEF OperatorsKeepPending, Keeps, Unconditional, EffectOf, ConditionOf

\* An operator that still runs when time has passed still has everything pending.
LEMMA KeepsWhenPassed ==
    ASSUME NEW s, NEW t, PendingTyped(s), NEW dt \in Nat,
           NEW o \in s.operators, Keeps(s, o), Moved(o, dt).increment > 0,
           t.effects = Pending(s.effects, dt, t.value), t.overall = Future(s.overall, dt)
    PROVE  Keeps(t, Moved(o, dt))
<1>1. Moved(o, dt).op = o.op /\ Moved(o, dt).increment = o.increment - dt
  BY MovedFields DEF PendingTyped
<1>2. ASSUME NEW e \in Unconditional(o)
      PROVE  EffectOf(Moved(o, dt), e) \in t.effects
  <2>1. EffectOf(o, e) \in s.effects /\ EffectOf(o, e) \in ScheduledEffect
    BY <1>2, Zenon DEF Keeps, PendingTyped
  <2>2. Moved(EffectOf(o, e), dt) = EffectOf(Moved(o, dt), e)
    BY <1>1, <2>1 DEF Moved, EffectOf
  <2>3. EffectOf(Moved(o, dt), e).increment > 0 /\ EffectOf(Moved(o, dt), e).effect = e
    BY DEF EffectOf
  <2>4. EffectOf(Moved(o, dt), e) \in Future(s.effects, dt)
    BY <2>1, <2>2, <2>3, FutureIsMoved
  <2>5. Holds(e.overall, t.value)
    <3>1. e.overall = {}
      BY <1>2 DEF Unconditional
    <3>2. QED
      BY <3>1 DEF Holds
  <2>6. QED
    BY <2>3, <2>4, <2>5 DEF Pending
<1>3. ASSUME NEW c \in PrevailOverall[o.op]
      PROVE  ConditionOf(Moved(o, dt), c) \in t.overall
  <2>1. ConditionOf(o, c) \in s.overall /\ ConditionOf(o, c) \in ScheduledCondition
    BY <1>3, Zenon DEF Keeps, PendingTyped
  <2>2. Moved(ConditionOf(o, c), dt) = ConditionOf(Moved(o, dt), c)
    BY <1>1, <2>1 DEF Moved, ConditionOf
  <2>3. ConditionOf(Moved(o, dt), c).increment > 0
    BY DEF ConditionOf
  <2>4. QED
    BY <2>1, <2>2, <2>3, FutureIsMoved
<1>4. QED
  BY <1>1, <1>2, <1>3 DEF Keeps, Unconditional

\* The inductive invariant for OperatorsKeepPending: types and the property.
KInv == PendingTyped(current) /\ OperatorsKeepPending

\* Starting operators and letting time pass keep it.
LEMMA KeepsStep ==
    ASSUME Gap = 0, KInv, [Next]_stateVars
    PROVE  KInv'
<1>1. PendingTyped(current) /\ PendingTyped(current')
  BY TypedStep, Gap = 0 DEF KInv
<1>2. \A o \in current.operators : Keeps(current, o)
  BY OperatorsKeepAll DEF KInv
<1>3. SUFFICES \A o \in current'.operators : Keeps(current', o)
  BY <1>1 DEF KInv, OperatorsKeepPending, Keeps, Unconditional, EffectOf, ConditionOf
<1>4. ASSUME NEW o \in Op, StartOperator(o), NEW p \in current'.operators
      PROVE  Keeps(current', p)
  <2> DEFINE fired(E) == {e \in E : Holds(e.start, current.value)}
             added == [increment |-> Duration[o], op |-> o]
  <2>1. Duration[o] > 0 /\ current' = ApplyOperator(current, o)
    BY <1>4 DEF StartOperator
  <2>2. /\ current'.effects = current.effects \cup Schedule(o, fired(EffectEnd[o]))
        /\ current'.overall = current.overall \cup Require(o, PrevailOverall[o])
        /\ current'.operators = current.operators \cup {added}
    BY <1>1, <2>1, AppliedWithoutGap, Gap = 0
  <2>3. CASE p \in current.operators
    BY <1>2, <2>2, <2>3 DEF Keeps
  <2>4. CASE p = added
    <3>1. p.op = o /\ p.increment = Duration[o]
      BY <2>4
    <3>2. ASSUME NEW e \in Unconditional(p)
          PROVE  EffectOf(p, e) \in Schedule(o, fired(EffectEnd[o]))
      <4>1. e \in EffectEnd[o] /\ e.start = {}
        BY <3>1, <3>2 DEF Unconditional
      <4>2. e \in fired(EffectEnd[o])
        BY <4>1 DEF Holds
      <4> HIDE DEF fired
      <4>3. QED
        BY <3>1, <4>2 DEF EffectOf, Schedule
    <3>3. \A c \in PrevailOverall[p.op] : ConditionOf(p, c) \in Require(o, PrevailOverall[o])
      BY <3>1 DEF ConditionOf, Require
    <3>4. QED
      BY <2>2, <3>2, <3>3 DEF Keeps
  <2>5. QED
    BY <2>2, <2>3, <2>4
<1>5. ASSUME PassTime, NEW p \in current'.operators
      PROVE  Keeps(current', p)
  <2>1. PICK dt \in Nat :
          /\ current'.effects = Pending(current.effects, dt, current'.value)
          /\ current'.overall = Future(current.overall, dt)
          /\ current'.operators = Future(current.operators, dt)
    BY <1>1, <1>5, PassedWithoutGap, Gap = 0 DEF PassTime
  <2>2. PICK o \in current.operators : p = Moved(o, dt) /\ p.increment > 0
    BY <2>1, FutureIsMoved, Zenon
  <2>3. QED
    BY <1>1, <1>2, <2>1, <2>2, KeepsWhenPassed, Zenon
<1>6. CASE UNCHANGED stateVars
  <2>1. current' = current
    BY <1>6 DEF stateVars
  <2>2. QED
    BY <1>2, <2>1
<1>7. QED
  BY <1>4, <1>5, <1>6 DEF Next

\* An operator that runs keeps its over-all conditions and its unconditional
\* end effects pending until it ends, whatever is started or ends meanwhile.
THEOREM RunningKeepsPending ==
    ASSUME Gap = 0
    PROVE  Spec => []OperatorsKeepPending
<1>1. Init => KInv
  BY InitIsTyped DEF IInv, KInv
<1>2. KInv /\ [Next]_stateVars => KInv'
  BY KeepsStep, Gap = 0
<1>3. KInv => OperatorsKeepPending
  BY DEF KInv
<1>4. QED
  BY <1>1, <1>2, <1>3, PTL DEF Spec

----------------------------------------------------------------------------
\* The inductive invariant for what runs being able to end: the state is typed,
\* so that its progression is well defined, and nothing goes wrong in it.
CInv == Searched(current) /\ CanBeCompleted

\* In the initial state nothing runs.
LEMMA InitCanBeCompleted ==
    ASSUME Init
    PROVE  CInv
<1>1. InitialValue \in [Var -> Val]
  BY TaskAssumption, Zenon
<1>2. Evaluate(InitialValue) \in [Var -> Val]
  BY <1>1, EvaluateIs
<1>3. current = InitialState /\ current.operators = {} /\ current.overall = {} /\ current.atEnd = {}
  BY DEF Init, InitialState
<1>4. Searched(InitialState)
  BY <1>2, FS_EmptySet DEF InitialState, Searched, State
<1>5. IsConsistentWhenProgressed(current)
  BY <1>3, ConsistentWhenIdle, Zenon
<1>6. QED
  BY <1>3, <1>4, <1>5, Zenon DEF CInv, CanBeCompleted

\* The states of the search stay typed.
LEMMA SearchedStep ==
    ASSUME Gap = 0, Searched(current), [Next]_stateVars
    PROVE  Searched(current')
<1>1. ASSUME NEW o \in Op, StartOperator(o)
      PROVE  Searched(current')
  <2>1. Duration[o] > 0 /\ current' = ApplyOperator(current, o)
    BY <1>1 DEF StartOperator
  <2>2. QED
    BY <2>1, AppliedTyped, Gap = 0
<1>2. ASSUME PassTime
      PROVE  Searched(current')
  <2>1. current.operators # {} /\ current' = LetTimePass(current, TRUE)
    BY <1>2 DEF PassTime
  <2>2. QED
    BY <2>1, OneEndLess, Gap = 0
<1>3. CASE UNCHANGED stateVars
  BY <1>3 DEF stateVars
<1>4. QED
  BY <1>1, <1>2, <1>3 DEF Next

\* An operator is only started if what runs then can end, and the state after
\* the next happening is on the way there.
LEMMA CompletedStep ==
    ASSUME Gap = 0, CInv, [Next]_stateVars
    PROVE  CInv'
<1>1. Searched(current) /\ IsConsistentWhenProgressed(current)
  BY Zenon DEF CInv, CanBeCompleted
<1>2. Searched(current')
  BY <1>1, SearchedStep, Gap = 0
<1>3. ASSUME NEW o \in Op, StartOperator(o)
      PROVE  IsConsistentWhenProgressed(current')
  BY <1>3, Zenon DEF StartOperator, IsApplicable
<1>4. ASSUME PassTime
      PROVE  IsConsistentWhenProgressed(current')
  <2>1. current.operators # {} /\ current' = LetTimePass(current, TRUE)
    BY <1>4 DEF PassTime
  <2>2. IsConsistentWhenProgressed(LetTimePass(current, TRUE))
    BY <1>1, <2>1, ConsistentGoesOn, Gap = 0, Zenon
  <2>3. QED
    BY <2>1, <2>2, Zenon
<1>5. ASSUME UNCHANGED stateVars
      PROVE  IsConsistentWhenProgressed(current')
  <2>1. current' = current
    BY <1>5 DEF stateVars
  <2>2. QED
    BY <1>1, <2>1
<1>6. IsConsistentWhenProgressed(current')
  BY <1>3, <1>4, <1>5 DEF Next
<1>7. QED
  BY <1>2, <1>6, Zenon DEF CInv, CanBeCompleted

\* Every state of a branch can be completed: what runs can run to its end and
\* no over-all or at-end condition fails on the way, neither at a happening nor
\* between two, although only the state after an operator was started is tested.
THEOREM RunningCanEnd ==
    ASSUME Gap = 0
    PROVE  Spec => []CanBeCompleted
<1>1. Init => CInv
  BY InitCanBeCompleted
<1>2. CInv /\ [Next]_stateVars => CInv'
  BY CompletedStep, Gap = 0
<1>3. CInv => CanBeCompleted
  BY DEF CInv
<1>4. QED
  BY <1>1, <1>2, <1>3, PTL DEF Spec

\* What runs has its over-all conditions pending, and a state that can be
\* completed fulfils what is pending.
LEMMA OverAllFollows ==
    ASSUME KInv, CInv
    PROVE  OverAllIsKept
<1> SUFFICES ASSUME NEW x \in current.operators, NEW c \in PrevailOverall[x.op]
             PROVE  current.value[c.var] = c.prev
  BY Zenon DEF OverAllIsKept, Holds
<1>1. IsConsistentNow(current)
  BY ConsistentFromNow, Zenon DEF CInv, CanBeCompleted
<1>2. ConditionOf(x, c) \in current.overall
  BY Zenon DEF KInv, OperatorsKeepPending, ConditionOf
<1>3. ConditionOf(x, c).cond = c
  BY DEF ConditionOf
<1>4. Holds({c}, current.value)
  BY <1>1, <1>2, <1>3, Zenon DEF IsConsistentNow
<1>5. QED
  BY <1>4, Zenon DEF Holds

\* As long as an operator runs its over-all conditions hold, whatever other
\* operators, effects, modules and rules of derived variables do meanwhile.
THEOREM OverAllHolds ==
    ASSUME Gap = 0
    PROVE  Spec => []OverAllIsKept
<1>1. Init => KInv /\ CInv
  BY InitIsTyped, InitCanBeCompleted DEF IInv, KInv
<1>2. (KInv /\ CInv) /\ [Next]_stateVars => (KInv /\ CInv)'
  BY KeepsStep, CompletedStep, Gap = 0
<1>3. KInv /\ CInv => OverAllIsKept
  BY OverAllFollows
<1>4. QED
  BY <1>1, <1>2, <1>3, PTL DEF Spec

----------------------------------------------------------------------------
(* A branch of the search executes durative actions                        *)

\* The operators of the abstract specification are those of the task.
LEMMA SameTask ==
    ASSUME NEW conds, NEW value, NEW effects, NEW S, NEW o
    PROVE  /\ Actions!Holds(conds, value) <=> Holds(conds, value)
           /\ Actions!Derived = Derived
           /\ Actions!Evaluate(value) = Evaluate(value)
           /\ Actions!StartOutcome(effects, value) = StartOutcome(effects, value)
           /\ Actions!Startable(o, value) <=> Startable(o, value)
           /\ Actions!Least(S) = Least(S)
<1>1. \A c, v : Actions!Holds(c, v) <=> Holds(c, v)
  BY DEF Actions!Holds, Holds
<1>2. Actions!Derived = Derived
  BY DEF Actions!Derived, Derived
<1>3. Actions!Least(S) = Least(S)
  BY DEF Actions!Least, Least
<1>4. Actions!Evaluate(value) = Evaluate(value)
  BY <1>1, <1>2 DEF Actions!Evaluate, Evaluate
<1>5. Actions!StartOutcome(effects, value) = StartOutcome(effects, value)
  BY <1>1 DEF Actions!StartOutcome, StartOutcome
<1>6. Actions!Startable(o, value) <=> Startable(o, value)
  BY <1>1 DEF Actions!Startable, Startable
<1>7. QED
  BY <1>1, <1>2, <1>3, <1>4, <1>5, <1>6

\* At most one instance of an operator runs.
OneInstance == \A o, p \in current.operators : o.op = p.op => o = p

\* The scheduled module effects are effects of modules.
ModulesAreKnown == \A x \in current.moduleEffects : x.effect \in ModuleEffectEnd[x.op] /\ x.op \in Op

\* The inductive invariant for the refinement.
AInv == IInv /\ KInv /\ CInv /\ OneInstance /\ ModulesAreKnown

LEMMA InitAInv ==
    ASSUME Init
    PROVE  AInv
<1>1. OneInstance /\ ModulesAreKnown
  BY DEF Init, InitialState, OneInstance, ModulesAreKnown
<1>2. QED
  BY <1>1, InitIsTyped, InitCanBeCompleted DEF AInv, IInv, KInv

\* An operator that runs already is not started again, and time moves all of
\* them alike.
LEMMA OneInstanceStep ==
    ASSUME Gap = 0, AInv, [Next]_stateVars
    PROVE  OneInstance' /\ ModulesAreKnown'
<1>1. Searched(current) /\ PendingTyped(current)
  BY SearchedIsTyped DEF AInv, CInv
<1>2. OneInstance /\ ModulesAreKnown
  BY DEF AInv
<1>3. ASSUME NEW o \in Op, StartOperator(o)
      PROVE  OneInstance' /\ ModulesAreKnown'
  <2> DEFINE fired(E) == {e \in E : Holds(e.start, current.value)}
             added == [increment |-> Duration[o], op |-> o]
  <2>1. /\ Duration[o] > 0 /\ current' = ApplyOperator(current, o)
        /\ \A x \in current.operators : x.op # o
    BY <1>3 DEF StartOperator, IsApplicable
  <2>2. /\ current'.operators = current.operators \cup {added}
        /\ current'.moduleEffects = Schedule(o, fired(ModuleEffectEnd[o]))
    BY <1>1, <2>1, AppliedWithoutGap, Gap = 0
  <2>3. OneInstance'
    <3>1. added.op = o
      OBVIOUS
    <3> HIDE DEF added
    <3>2. QED
      BY <1>2, <2>1, <2>2, <3>1 DEF OneInstance
  <2>4. ModulesAreKnown'
    BY <2>2 DEF ModulesAreKnown, Schedule
  <2>5. QED
    BY <2>3, <2>4
<1>4. ASSUME PassTime
      PROVE  OneInstance' /\ ModulesAreKnown'
  <2>1. PICK dt \in Nat :
          /\ current'.moduleEffects = Pending(current.moduleEffects, dt, current'.value)
          /\ current'.operators = Future(current.operators, dt)
    BY <1>1, <1>4, PassedWithoutGap, Gap = 0 DEF PassTime
  <2>2. ASSUME NEW p \in current'.operators, NEW q \in current'.operators, p.op = q.op
        PROVE  p = q
    <3>0. p \in Future(current.operators, dt) /\ q \in Future(current.operators, dt)
      BY <2>1
    <3>1. PICK x \in current.operators : p = Moved(x, dt)
      BY <3>0, FutureIsMoved, Zenon
    <3>2. PICK y \in current.operators : q = Moved(y, dt)
      BY <3>0, FutureIsMoved, Zenon
    <3>3. Moved(x, dt).op = x.op /\ Moved(y, dt).op = y.op
      BY <1>1, MovedFields DEF PendingTyped
    <3>4. x = y
      BY <1>2, <2>2, <3>1, <3>2, <3>3 DEF OneInstance
    <3>5. QED
      BY <3>1, <3>2, <3>4
  <2>3. ASSUME NEW p \in current'.moduleEffects
        PROVE  p.effect \in ModuleEffectEnd[p.op] /\ p.op \in Op
    <3>1. p \in Future(current.moduleEffects, dt)
      BY <2>1 DEF Pending
    <3>2. PICK x \in current.moduleEffects : p = Moved(x, dt)
      BY <3>1, FutureIsMoved, Zenon
    <3>3. Moved(x, dt).op = x.op /\ Moved(x, dt).effect = x.effect
      BY <1>1, MovedFields DEF PendingTyped
    <3>4. QED
      BY <1>2, <3>2, <3>3 DEF ModulesAreKnown
  <2>4. QED
    BY <2>2, <2>3 DEF OneInstance, ModulesAreKnown
<1>5. ASSUME UNCHANGED stateVars
      PROVE  OneInstance' /\ ModulesAreKnown'
  BY <1>2, <1>5 DEF stateVars, OneInstance, ModulesAreKnown
<1>6. QED
  BY <1>3, <1>4, <1>5 DEF Next

LEMMA AInvStep ==
    ASSUME Gap = 0, AInv, [Next]_stateVars
    PROVE  AInv'
<1>1. OneInstance' /\ ModulesAreKnown'
  BY OneInstanceStep, Gap = 0
<1>2. IInv' /\ KInv' /\ CInv'
  BY FollowsStep, KeepsStep, CompletedStep, Gap = 0 DEF AInv
<1>3. QED
  BY <1>1, <1>2 DEF AInv

\* Starting an operator begins an action: the effects it will have are those
\* whose conditions hold at its start, and what runs is left alone.
LEMMA StartBegins ==
    ASSUME Gap = 0, AInv, AInv', NEW o \in Op, StartOperator(o)
    PROVE  Actions!Begin(o)
<1> DEFINE fired == {e \in EffectEnd[o] : Holds(e.start, current.value)}
           added == [increment |-> Duration[o], op |-> o]
           begun == [op |-> o, end |-> current.timestamp + Duration[o], fires |-> fired]
<1>1. Searched(current) /\ PendingTyped(current) /\ OneInstance
  BY SearchedIsTyped DEF AInv, CInv
<1>2. /\ Duration[o] > 0 /\ current' = ApplyOperator(current, o)
      /\ Startable(o, current.value)
      /\ \A x \in current.operators : x.op # o
  BY StartOperator(o), Zenon DEF StartOperator, IsApplicable
<1>3. /\ current'.value = Evaluate(StartOutcome(EffectStart[o], current.value))
      /\ current'.timestamp = current.timestamp
  BY <1>1, <1>2, AppliedTyped, Gap = 0
<1>4. /\ current'.effects = current.effects \cup Schedule(o, fired)
      /\ current'.operators = current.operators \cup {added}
  BY <1>1, <1>2, AppliedWithoutGap, Gap = 0
<1>5. \A x \in current.effects : x.op # o
  BY <1>2 DEF AInv, IInv, PendingFollowsOperators
<1>6. ASSUME NEW p \in current.operators
      PROVE  RunningAction(current', p) = RunningAction(current, p)
  <2>1. {y \in current'.effects : y.op = p.op} = {y \in current.effects : y.op = p.op}
    BY <1>2, <1>4 DEF Schedule
  <2>2. QED
    BY <1>3, <2>1 DEF RunningAction
<1>7. RunningAction(current', added) = begun
  <2>1. added.op = o /\ added.increment = Duration[o]
    OBVIOUS
  <2>2. {y \in current'.effects : y.op = o} = Schedule(o, fired)
    BY <1>4, <1>5 DEF Schedule
  <2>3. {x.effect : x \in Schedule(o, fired)} = fired
    <3> HIDE DEF fired
    <3>1. \A e \in fired : [increment |-> Duration[o], effect |-> e, op |-> o].effect = e
      OBVIOUS
    <3>2. QED
      BY <3>1, Zenon DEF Schedule
  <2> HIDE DEF added, fired
  <2>4. QED
    BY <1>3, <2>1, <2>2, <2>3 DEF RunningAction
<1>8. RunningActions(current') = RunningActions(current) \cup {begun}
  <2> HIDE DEF added, begun
  <2>1. QED
    BY <1>4, <1>6, <1>7 DEF RunningActions
<1>9. \A r \in RunningActions(current) : r.op # o
  BY <1>2 DEF RunningActions, RunningAction
<1>10. Actions!OverAllHolds(RunningActions(current'), current'.value)
  <2>1. \A x \in current'.operators : Holds(PrevailOverall[x.op], current'.value)
    <3>1. OverAllIsKept'
      BY OverAllFollows, PTL DEF AInv
    <3>2. QED
      BY <3>1, Zenon DEF OverAllIsKept
  <2>2. QED
    BY <2>1, SameTask DEF Actions!OverAllHolds, RunningActions, RunningAction
<1>11. begun = [op |-> o, end |-> current.timestamp + Duration[o],
                fires |-> {e \in EffectEnd[o] : Actions!Holds(e.start, current.value)}]
  BY SameTask
<1>12. /\ Actions!Startable(o, current.value)
       /\ current'.value = Actions!Evaluate(Actions!StartOutcome(EffectStart[o], current.value))
  BY <1>2, <1>3, SameTask
<1> HIDE DEF begun
<1>13. QED
  BY <1>3, <1>8, <1>9, <1>10, <1>11, <1>12 DEF Actions!Begin

\* Letting time pass finishes the actions that end next: their effects happen if
\* their conditions hold, nothing else changes a value, and the other actions
\* lose the effects whose over-all conditions fail now.
LEMMA PassFinishes ==
    ASSUME Gap = 0, AInv, AInv', PassTime
    PROVE  Actions!Finish
<1> DEFINE dt == NextHappening(current)
           R == RunningActions(current)
           next == Actions!Least({r.end : r \in R})
           ended == {r \in R : r.end = next}
           modulesDone == Outcome(Due(current.moduleEffects, dt), current.value)
           done == Outcome(Due(current.effects, dt), modulesDone)
           left(r) == [r EXCEPT !.fires = {e \in @ : Actions!Holds(e.overall, current'.value)}]
<1>1. /\ Searched(current) /\ PendingTyped(current) /\ OneInstance /\ PendingFollowsOperators
      /\ ModulesAreKnown /\ current.timestamp \in Nat /\ current.value \in [Var -> Val]
  BY SearchedIsTyped DEF AInv, CInv, IInv
<1>2. current.operators # {} /\ current' = LetTimePass(current, TRUE)
  BY PassTime DEF PassTime
<1>3. /\ dt \in Nat \ {0} /\ dt \in Ends(current)
      /\ \A x \in current.operators : dt <= x.increment
  BY <1>1, <1>2, HappeningIsFirst
<1>4. current' = PassBy(current, dt)
  BY <1>2, Gap = 0 DEF LetTimePass
<1> HIDE DEF dt
<1>5. /\ current'.value = Evaluate(done) /\ current'.timestamp = current.timestamp + dt
      /\ current'.effects = Pending(current.effects, dt, current'.value)
      /\ current'.operators = Future(current.operators, dt)
  BY <1>4 DEF PassBy
<1>6. current'.value \in [Var -> Val] /\ current'.value = Evaluate(current'.value)
  <2>1. dt \in Nat
    BY <1>3
  <2>2. Searched(PassBy(current, dt)) /\ PassBy(current, dt).value = Evaluate(PassBy(current, dt).value)
    BY <1>1, <2>1, PassByTyped, Zenon
  <2>3. QED
    BY <1>4, <2>2, SearchedIsTyped
<1>7. /\ \A p \in current.operators : /\ p.increment \in Nat \ {0}
                                      /\ RunningAction(current, p) \in R
                                      /\ RunningAction(current, p).end = current.timestamp + p.increment
                                      /\ RunningAction(current, p).op = p.op
      /\ \A r \in R : \E p \in current.operators : r = RunningAction(current, p)
  BY <1>1 DEF RunningActions, RunningAction, PendingTyped, ScheduledOperator
<1>8. next = current.timestamp + dt
  <2> DEFINE E == {r.end : r \in R}
  <2>1. PICK p \in current.operators : p.increment = dt
    BY <1>3 DEF Ends
  <2>2. current.timestamp + dt \in E
    BY <1>7, <2>1
  <2>3. \A j \in E : j \in Nat /\ current.timestamp + dt <= j
    BY <1>1, <1>3, <1>7
  <2> HIDE DEF E
  <2>4. Least(E) \in E /\ \A j \in E : Least(E) <= j
    BY <2>2, <2>3, LeastIsLeast
  <2>5. Least(E) = current.timestamp + dt
    BY <1>1, <1>3, <2>2, <2>3, <2>4
  <2>6. QED
    BY <2>5, SameTask DEF E
<1> HIDE DEF next
<1>9. \A p \in current.operators : RunningAction(current, p) \in ended <=> p.increment = dt
  BY <1>1, <1>3, <1>7, <1>8
<1>10. \A x \in current.effects, p \in current.operators : x.op = p.op => x.increment = p.increment
  BY <1>1 DEF PendingFollowsOperators, OneInstance
<1>11. ASSUME NEW p \in current.operators, p.increment # dt
       PROVE  /\ Moved(p, dt) \in current'.operators
              /\ RunningAction(current', Moved(p, dt)) = left(RunningAction(current, p))
  <2>1. /\ Moved(p, dt).op = p.op /\ Moved(p, dt).increment = p.increment - dt
        /\ p.increment \in Nat /\ p.increment - dt > 0
    BY <1>1, <1>3, <1>7, <1>11, MovedFields DEF PendingTyped
  <2>2. Moved(p, dt) \in current'.operators
    BY <1>3, <1>5, <2>1, FutureIsMoved
  <2>3. (current.timestamp + dt) + (p.increment - dt) = current.timestamp + p.increment
    BY <1>1, <1>3, <2>1
  <2> DEFINE old == {x.effect : x \in {y \in current.effects : y.op = p.op}}
             new == {x.effect : x \in {y \in current'.effects : y.op = p.op}}
  <2>4. new = {e \in old : Holds(e.overall, current'.value)}
    <3>1. ASSUME NEW e \in new
          PROVE  e \in old /\ Holds(e.overall, current'.value)
      <4>1. PICK y \in current'.effects : y.op = p.op /\ e = y.effect
        OBVIOUS
      <4>2. y \in Future(current.effects, dt) /\ Holds(y.effect.overall, current'.value)
        BY <1>5, <4>1 DEF Pending
      <4>3. PICK x \in current.effects : y = Moved(x, dt)
        BY <1>3, <4>2, FutureIsMoved
      <4>4. y.op = x.op /\ y.effect = x.effect
        BY <1>1, <1>3, <4>3, MovedFields DEF PendingTyped
      <4>5. QED
        BY <4>1, <4>2, <4>4
    <3>2. ASSUME NEW e \in old, Holds(e.overall, current'.value)
          PROVE  e \in new
      <4>1. PICK x \in current.effects : x.op = p.op /\ e = x.effect
        OBVIOUS
      <4>2. /\ Moved(x, dt).increment = x.increment - dt /\ Moved(x, dt).op = x.op
            /\ Moved(x, dt).effect = x.effect
        BY <1>1, <1>3, <4>1, MovedFields DEF PendingTyped
      <4>3. Moved(x, dt).increment > 0
        BY <1>10, <2>1, <4>1, <4>2
      <4>4. Moved(x, dt) \in Future(current.effects, dt)
        BY <1>3, <4>3, FutureIsMoved
      <4>5. Moved(x, dt) \in current'.effects
        BY <1>5, <3>2, <4>1, <4>2, <4>4 DEF Pending
      <4>6. QED
        BY <4>1, <4>2, <4>5
    <3>3. QED
      BY <3>1, <3>2
  <2>5. /\ RunningAction(current, p) =
              [op |-> p.op, end |-> current.timestamp + p.increment, fires |-> old]
        /\ RunningAction(current', Moved(p, dt)) =
              [op |-> p.op, end |-> (current.timestamp + dt) + (p.increment - dt), fires |-> new]
    BY <1>5, <2>1 DEF RunningAction
  <2>6. {e \in old : Actions!Holds(e.overall, current'.value)} =
        {e \in old : Holds(e.overall, current'.value)}
    BY SameTask
  <2> HIDE DEF old, new
  <2>7. QED
    BY <2>2, <2>3, <2>4, <2>5, <2>6
<1>12. RunningActions(current') = {left(r) : r \in R \ ended}
  <2>1. ASSUME NEW q \in current'.operators
        PROVE  RunningAction(current', q) \in {left(r) : r \in R \ ended}
    <3>1. PICK p \in current.operators : q = Moved(p, dt) /\ q.increment > 0
      BY <1>3, <1>5, FutureIsMoved
    <3>2. q.increment = p.increment - dt /\ p.increment # dt
      BY <1>1, <1>3, <1>7, <3>1, MovedFields DEF PendingTyped
    <3>3. RunningAction(current, p) \in R \ ended
      BY <1>7, <1>9, <3>2
    <3> HIDE DEF left, ended
    <3>4. QED
      BY <1>11, <3>1, <3>2, <3>3
  <2>2. ASSUME NEW r \in R \ ended
        PROVE  left(r) \in RunningActions(current')
    <3>1. PICK p \in current.operators : r = RunningAction(current, p)
      BY <1>7
    <3>2. p.increment # dt
      BY <1>9, <2>2, <3>1
    <3> HIDE DEF left, ended
    <3>3. QED
      BY <1>11, <3>1, <3>2 DEF RunningActions
  <2> HIDE DEF left, ended
  <2>3. QED
    BY <2>1, <2>2 DEF RunningActions
<1>13. ASSUME NEW x \in Var \ (Derived \cup Actions!WrittenByModules)
       PROVE  Actions!Explained(x, Actions!EndEffects(ended, x), current.value[x], current'.value[x])
  <2>1. /\ IsFiniteSet(Due(current.effects, dt)) /\ Due(current.effects, dt) \subseteq DueEffect
        /\ IsFiniteSet(Due(current.moduleEffects, dt))
        /\ Due(current.moduleEffects, dt) \subseteq DueEffect
    BY <1>1, <1>3, CloserIsFinite, DueTyped DEF Searched, PendingTyped
  <2>2. modulesDone \in [Var -> Val] /\ modulesDone[x] = current.value[x]
    <3>1. \A e \in Due(current.moduleEffects, dt) : e.effect.var # x
      <4> TAKE e \in Due(current.moduleEffects, dt)
      <4>1. PICK y \in current.moduleEffects : e = Moved(y, dt)
        BY DEF Due, Closer, Moved
      <4>2. e.effect = y.effect
        BY <1>1, <1>3, <4>1, MovedFields DEF PendingTyped
      <4>3. y.effect \in ModuleEffectEnd[y.op] /\ y.op \in Op
        BY <1>1 DEF ModulesAreKnown
      <4>4. y.effect.var \in Actions!WrittenByModules
        BY <4>3 DEF Actions!WrittenByModules
      <4>5. QED
        BY <4>2, <4>4
    <3>2. QED
      BY <1>1, <2>1, <3>1, OutcomeExplained
  <2> HIDE DEF modulesDone
  <2>3. /\ done \in [Var -> Val]
        /\ \/ \E e \in Due(current.effects, dt) : e.effect.var = x /\ done[x] = e.effect.post
           \/ /\ done[x] = modulesDone[x]
              /\ \A e \in Due(current.effects, dt) : e.effect.var = x => e.effect.end # {}
    BY <2>1, <2>2, OutcomeExplained
  <2> HIDE DEF done
  <2>4. current'.value[x] = done[x]
    BY <1>5, <2>3, EvaluateIs
  <2>5. ASSUME NEW y \in current.effects
        PROVE  /\ Moved(y, dt).effect = y.effect
               /\ Moved(y, dt) \in Due(current.effects, dt) <=> y.increment <= dt
    <3>1. Moved(y, dt).effect = y.effect /\ Moved(y, dt).increment = y.increment - dt /\ y.increment \in Nat
      BY <1>1, <1>3, MovedFields DEF PendingTyped, ScheduledEffect
    <3>2. Moved(y, dt) \in Closer(current.effects, dt)
      BY DEF Closer, Moved
    <3>3. Moved(y, dt).increment <= 0 <=> y.increment <= dt
      BY <1>3, <3>1
    <3>4. QED
      BY <3>1, <3>2, <3>3 DEF Due
  <2>6. ASSUME NEW e \in Due(current.effects, dt)
        PROVE  \E r \in ended : e.effect \in r.fires
    <3>1. PICK y \in current.effects : e = Moved(y, dt)
      BY DEF Due, Closer, Moved
    <3>2. y.increment <= dt /\ e.effect = y.effect
      BY <2>5, <3>1
    <3>3. PICK p \in current.operators : p.op = y.op /\ p.increment = y.increment
      BY <1>1 DEF PendingFollowsOperators
    <3>4. p.increment = dt
      BY <1>3, <1>7, <3>2, <3>3
    <3>5. RunningAction(current, p) \in ended
      BY <1>9, <3>4
    <3>6. y.effect \in RunningAction(current, p).fires
      BY <3>3 DEF RunningAction
    <3> HIDE DEF ended
    <3>7. QED
      BY <3>2, <3>5, <3>6
  <2>7. ASSUME NEW r \in ended, NEW e \in r.fires
        PROVE  \E d \in Due(current.effects, dt) : d.effect = e
    <3>1. PICK p \in current.operators : r = RunningAction(current, p)
      BY <1>7
    <3>2. p.increment = dt
      BY <1>9, <3>1
    <3>3. PICK y \in current.effects : y.op = p.op /\ e = y.effect
      BY <3>1 DEF RunningAction
    <3>4. y.increment = dt
      BY <1>10, <3>2, <3>3
    <3>5. QED
      BY <1>3, <2>5, <3>3, <3>4
  <2>8. \A e : e \in Actions!EndEffects(ended, x) <=> e.var = x /\ \E r \in ended : e \in r.fires
    BY DEF Actions!EndEffects
  <2> HIDE DEF ended
  <2>9. QED
    BY <2>2, <2>3, <2>4, <2>6, <2>7, <2>8 DEF Actions!Explained
<1>14. Actions!OverAllHolds(RunningActions(current'), current'.value)
  <2>1. \A x \in current'.operators : Holds(PrevailOverall[x.op], current'.value)
    <3>1. OverAllIsKept'
      BY OverAllFollows, PTL DEF AInv
    <3>2. QED
      BY <3>1, Zenon DEF OverAllIsKept
  <2>2. QED
    BY <2>1, SameTask DEF Actions!OverAllHolds, RunningActions, RunningAction
<1>15. R # {}
  BY <1>2, <1>7
<1>16. current'.value = Actions!Evaluate(current'.value) /\ Actions!Derived = Derived
  BY <1>6, SameTask
<1>17. current'.timestamp = next
  BY <1>5, <1>8
<1> HIDE DEF done, modulesDone
<1>18. QED
  BY <1>6, <1>12, <1>13, <1>14, <1>15, <1>16, <1>17, Zenon DEF Actions!Finish, next

\* In the initial state nothing runs and the derived variables are evaluated.
LEMMA InitRefines ==
    ASSUME Init
    PROVE  Actions!ActionsInit
<1>1. current.timestamp = 0 /\ current.value = Evaluate(InitialValue) /\ current.operators = {}
  BY DEF Init, InitialState
<1>2. RunningActions(current) = {}
  BY <1>1 DEF RunningActions
<1>3. Actions!Evaluate(InitialValue) = Evaluate(InitialValue)
  BY SameTask
<1>4. QED
  BY <1>1, <1>2, <1>3 DEF Actions!ActionsInit

\* A branch of the search is an execution of durative actions, for every
\* temporal task: every operator that is started begins an action, every passing
\* of time finishes those that end next, with the effects that were scheduled.
THEOREM BranchExecutesActions ==
    ASSUME Gap = 0
    PROVE  Spec => ImplementsActions
<1>1. Init => AInv /\ Actions!ActionsInit
  BY InitAInv, InitRefines
<1>2. AInv /\ [Next]_stateVars => AInv'
  BY AInvStep, Gap = 0
<1>3. ASSUME AInv, AInv', [Next]_stateVars
      PROVE  [Actions!ActionsNext]_(Actions!actionVars)
  <2>1. ASSUME NEW o \in Op, StartOperator(o)
        PROVE  Actions!ActionsNext
    BY <1>3, <2>1, StartBegins, Gap = 0 DEF Actions!ActionsNext
  <2>2. ASSUME PassTime
        PROVE  Actions!ActionsNext
    BY <1>3, <2>2, PassFinishes, Gap = 0 DEF Actions!ActionsNext
  <2>3. ASSUME UNCHANGED stateVars
        PROVE  UNCHANGED Actions!actionVars
    BY <2>3 DEF stateVars, Actions!actionVars
  <2>4. QED
    BY <1>3, <2>1, <2>2, <2>3 DEF Next
<1>4. QED
  BY <1>1, <1>2, <1>3, PTL DEF Spec, ImplementsActions, Actions!ActionsSpec

----------------------------------------------------------------------------
(* The monitor accepts what the search found                               *)

\* tr are the traces of the monitor for the steps of plan, one after the other.
Traces(tr, plan) ==
    /\ tr[0] = {InitialState}
    /\ \A k \in 1..Len(plan) : tr[k] = AfterStep(tr[k - 1], Name[plan[k]])

\* validatePlan asks for the goal at the end of one of the traces, which exist
\* for every plan.
LEMMA ValidateIs ==
    ASSUME NEW plan \in Seq(Op)
    PROVE  \E tr : /\ Traces(tr, plan)
                   /\ ValidatePlan(InitialState, NamesOf(plan)) <=>
                         \E s \in tr[Len(plan)] : Holds(Goal, Final(s).value)
<1>0. PICK names : /\ names = NamesOf(plan) /\ Len(names) = Len(plan)
                   /\ \A k \in 1..Len(plan) : names[k] = Name[plan[k]]
  <2>1. Len(NamesOf(plan)) = Len(plan)
    BY DEF NamesOf
  <2>2. \A k \in 1..Len(plan) : NamesOf(plan)[k] = Name[plan[k]]
    BY DEF NamesOf
  <2>3. QED
    BY <2>1, <2>2
<1> DEFINE n == Len(plan)
           Solves(f, m) == f = [k \in 0..m |-> IF k = 0 THEN {InitialState}
                                               ELSE AfterStep(f[k - 1], names[k])]
           Good == {m \in Nat : \E f : Solves(f, m)}
<1>1. n \in Nat
  OBVIOUS
<1>2. 0 \in Good
  <2> DEFINE f == [k \in 0..0 |-> {InitialState}]
  <2>1. Solves(f, 0)
    OBVIOUS
  <2> HIDE DEF Solves, f
  <2>2. QED
    BY <2>1
<1>3. ASSUME NEW m \in 0..(n - 1), m \in Good
      PROVE  m + 1 \in Good
  <2>1. PICK f : f = [k \in 0..m |-> IF k = 0 THEN {InitialState} ELSE AfterStep(f[k - 1], names[k])]
    BY <1>3
  <2> DEFINE g == [k \in 0..(m + 1) |-> IF k <= m THEN f[k] ELSE AfterStep(f[k - 1], names[k])]
  <2>2. \A k \in 0..(m + 1) : g[k] = IF k = 0 THEN {InitialState} ELSE AfterStep(g[k - 1], names[k])
    <3> TAKE k \in 0..(m + 1)
    <3>1. k # 0 => k - 1 \in 0..m /\ g[k - 1] = f[k - 1]
      BY m \in Nat
    <3>2. CASE k <= m
      <4>1. k \in 0..m /\ g[k] = f[k]
        BY <3>2
      <4>2. f[k] = IF k = 0 THEN {InitialState} ELSE AfterStep(f[k - 1], names[k])
        BY <2>1, <4>1, Zenon
      <4> HIDE DEF g
      <4>3. QED
        BY <3>1, <4>1, <4>2
    <3>3. CASE ~(k <= m)
      <4>1. k # 0 /\ g[k] = AfterStep(f[k - 1], names[k])
        BY <3>3, m \in Nat
      <4> HIDE DEF g
      <4>2. QED
        BY <3>1, <4>1
    <3>4. QED
      BY <3>2, <3>3
  <2>3. Solves(g, m + 1)
    <3>1. g = [k \in 0..(m + 1) |-> g[k]]
      OBVIOUS
    <3> HIDE DEF g
    <3>2. QED
      BY <2>2, <3>1
  <2>4. m + 1 \in Nat
    BY <1>3
  <2> HIDE DEF g, Solves
  <2>5. QED
    BY <2>3, <2>4
<1>4. n \in Good
  <2>1. n \in 0..n
    BY <1>1
  <2> HIDE DEF n, Good
  <2>2. QED
    BY <1>1, <1>2, <1>3, <2>1, UpTo
<1> DEFINE tr == CHOOSE f : Solves(f, n)
<1>5. ValidatePlan(InitialState, names) <=> \E s \in tr[n] : Holds(Goal, Final(s).value)
  BY <1>0, Zenon DEF ValidatePlan, SatisfiesGoal
<1>6. Solves(tr, n)
  <2>1. \E f : Solves(f, n)
    BY <1>4
  <2> HIDE DEF Solves, n
  <2>2. QED
    BY <2>1, Zenon
<1> HIDE DEF tr
<1>7. tr[0] = {InitialState} /\ \A k \in 1..n : tr[k] = AfterStep(tr[k - 1], names[k])
  <2> HIDE DEF n
  <2>1. \A k \in 0..n : tr[k] = IF k = 0 THEN {InitialState} ELSE AfterStep(tr[k - 1], names[k])
    BY <1>6
  <2>2. 0 \in 0..n /\ \A k \in 1..n : k \in 0..n /\ k # 0
    BY <1>1
  <2>3. QED
    BY <2>1, <2>2
<1>8. Traces(tr, plan)
  BY <1>0, <1>7 DEF Traces
<1>9. QED
  BY <1>0, <1>5, <1>8

\* The state of the search is one the monitor looks at: the initial state, or
\* one that a state passes through to which the last step was applied.
OnTrace(tr) ==
    \/ steps = <<>> /\ current = InitialState
    \/ /\ steps # <<>>
       /\ \E s \in tr[Len(steps) - 1] :
             /\ IsApplicable(s, steps[Len(steps)])
             /\ Searched(ApplyOperator(s, steps[Len(steps)]))
             /\ current \in Passed(ApplyOperator(s, steps[Len(steps)]))

\* The inductive invariant for the monitor.
MInv ==
    /\ Searched(current) /\ steps \in Seq(Op)
    /\ \E tr : Traces(tr, steps) /\ OnTrace(tr)

\* The monitor has the state among its traces, unless it only keeps those in
\* which nothing runs.
LEMMA OnTraceIsKept ==
    ASSUME Gap = 0, Searched(current), steps \in Seq(Op), NEW tr, Traces(tr, steps), OnTrace(tr),
           DisallowConcurrent => current.operators = {}
    PROVE  current \in tr[Len(steps)]
<1>1. CASE steps = <<>> /\ current = InitialState
  BY <1>1 DEF Traces
<1>2. CASE steps # <<>>
  <2> DEFINE n == Len(steps)
             o == steps[n]
  <2>1. n \in Nat /\ n \in 1..n
    BY <1>2
  <2>2. PICK s \in tr[n - 1] : /\ IsApplicable(s, o) /\ Searched(ApplyOperator(s, o))
                               /\ current \in Passed(ApplyOperator(s, o))
    BY <1>2 DEF OnTrace
  <2>3. tr[n] = AfterStep(tr[n - 1], Name[o])
    BY <2>1 DEF Traces
  <2> DEFINE applied == Applied(tr[n - 1], Name[o])
  <2>4. ApplyOperator(s, o) \in applied
    BY <2>1, <2>2 DEF Applied, Named
  <2>5. AfterStep(tr[n - 1], Name[o]) = IF DisallowConcurrent THEN {Final(r) : r \in applied}
                                  ELSE UNION {Passed(r) : r \in applied}
    BY Zenon DEF AfterStep
  <2> HIDE DEF applied, o, n
  <2>6. CASE DisallowConcurrent
    <3>1. Final(ApplyOperator(s, o)) = current
      BY <2>2, <2>6, PassedGoesOn, Gap = 0
    <3>2. QED
      BY <2>3, <2>4, <2>5, <2>6, <3>1 DEF n
  <2>7. CASE ~DisallowConcurrent
    BY <2>2, <2>3, <2>4, <2>5, <2>7 DEF n
  <2>8. QED
    BY <2>6, <2>7
<1>3. QED
  BY <1>1, <1>2 DEF OnTrace

\* Starting an operator is a step of the plan, which the monitor applies to the
\* same state, and time passes for the monitor as for the search.
LEMMA MonitorStep ==
    ASSUME Gap = 0, MInv, [Next]_stateVars
    PROVE  MInv'
<1>1. PICK tr : Traces(tr, steps) /\ OnTrace(tr)
  BY DEF MInv
<1>2. Searched(current) /\ Searched(current') /\ steps \in Seq(Op) /\ Len(steps) \in Nat
  BY SearchedStep, Gap = 0 DEF MInv
<1>3. ASSUME NEW o \in Op, StartOperator(o)
      PROVE  MInv'
  <2> DEFINE n == Len(steps)
             new == [k \in 0..(n + 1) |-> IF k <= n THEN tr[k] ELSE AfterStep(tr[n], Name[o])]
  <2>1. /\ IsApplicable(current, o) /\ current' = ApplyOperator(current, o)
        /\ steps' = Append(steps, o)
    BY <1>3 DEF StartOperator
  <2>2. /\ steps' \in Seq(Op) /\ Len(steps') = n + 1 /\ steps'[n + 1] = o /\ steps' # <<>>
        /\ \A k \in 1..n : steps'[k] = steps[k]
    BY <1>2, <2>1
  <2>3. current \in tr[n]
    <3>1. DisallowConcurrent => current.operators = {}
      BY <2>1, Zenon DEF IsApplicable
    <3>2. QED
      BY <1>1, <1>2, <3>1, OnTraceIsKept, Gap = 0
  <2>4. /\ \A k \in 0..n : new[k] = tr[k]
        /\ new[n + 1] = AfterStep(tr[n], Name[o])
    BY <1>2
  <2> HIDE DEF new, n
  <2>5. n \in Nat
    BY <1>2 DEF n
  <2>6. Traces(new, steps')
    <3>1. new[0] = {InitialState}
      BY <1>1, <2>4, <2>5 DEF Traces
    <3>2. ASSUME NEW k \in 1..(n + 1)
          PROVE  new[k] = AfterStep(new[k - 1], Name[steps'[k]])
      <4>1. CASE k = n + 1
        <5>1. k - 1 = n /\ n \in 0..n
          BY <2>5, <4>1
        <5>2. QED
          BY <2>2, <2>4, <4>1, <5>1
      <4>2. CASE k # n + 1
        <5>1. k \in 1..n /\ k \in 0..n /\ k - 1 \in 0..n
          BY <2>5, <4>2
        <5>2. tr[k] = AfterStep(tr[k - 1], Name[steps[k]])
          BY <1>1, <5>1 DEF Traces, n
        <5>3. QED
          BY <2>2, <2>4, <5>1, <5>2
      <4>3. QED
        BY <4>1, <4>2
    <3>3. QED
      BY <2>2, <3>1, <3>2 DEF Traces
  <2>7. current \in new[Len(steps') - 1]
    <3>1. Len(steps') - 1 = n /\ n \in 0..n
      BY <2>2, <2>5
    <3>2. QED
      BY <2>3, <2>4, <3>1
  <2>8. steps'[Len(steps')] = o
    BY <2>2
  <2>9. current' \in Passed(ApplyOperator(current, o)) /\ Searched(ApplyOperator(current, o))
    BY <1>2, <2>1, PassedGoesOn, Gap = 0
  <2>10. PICK ur : ur = new
    OBVIOUS
  <2>11. OnTrace(ur)'
    <3>1. /\ IsApplicable(current, steps'[Len(steps')])
          /\ Searched(ApplyOperator(current, steps'[Len(steps')]))
          /\ current' \in Passed(ApplyOperator(current, steps'[Len(steps')]))
      BY <2>1, <2>8, <2>9
    <3>2. \E s \in ur[Len(steps') - 1] :
             /\ IsApplicable(s, steps'[Len(steps')])
             /\ Searched(ApplyOperator(s, steps'[Len(steps')]))
             /\ current' \in Passed(ApplyOperator(s, steps'[Len(steps')]))
      BY <2>7, <2>10, <3>1, Zenon
    <3>3. QED
      BY <2>2, <3>2, Zenon DEF OnTrace
  <2>12. Traces(ur, steps')
    BY <2>6, <2>10
  <2>13. QED
    BY <1>2, <2>2, <2>11, <2>12 DEF MInv
<1>4. ASSUME PassTime
      PROVE  MInv'
  <2>1. current.operators # {} /\ current' = LetTimePass(current, TRUE) /\ steps' = steps
    BY <1>4 DEF PassTime
  <2>2. steps # <<>>
    BY <1>1, <2>1 DEF OnTrace, InitialState
  <2>3. PICK s \in tr[Len(steps) - 1] :
             /\ IsApplicable(s, steps[Len(steps)])
             /\ Searched(ApplyOperator(s, steps[Len(steps)]))
             /\ current \in Passed(ApplyOperator(s, steps[Len(steps)]))
    BY <1>1, <2>2 DEF OnTrace
  <2>4. current' \in Passed(ApplyOperator(s, steps[Len(steps)]))
    BY <2>1, <2>3, PassedGoesOn, Gap = 0
  <2>5. OnTrace(tr)' /\ Traces(tr, steps)'
    BY <1>1, <2>1, <2>2, <2>3, <2>4 DEF OnTrace
  <2>6. QED
    BY <1>2, <2>1, <2>5 DEF MInv
<1>5. ASSUME UNCHANGED stateVars
      PROVE  MInv'
  <2>1. current' = current /\ steps' = steps
    BY <1>5 DEF stateVars
  <2>2. Traces(tr, steps') /\ OnTrace(tr)'
    BY <1>1, <2>1 DEF OnTrace
  <2>3. QED
    BY <1>2, <2>1, <2>2 DEF MInv
<1>6. QED
  BY <1>3, <1>4, <1>5 DEF Next

\* The traces of the monitor are determined by the plan.
LEMMA TracesAreUnique ==
    ASSUME NEW plan \in Seq(Op), NEW tr, Traces(tr, plan), NEW ur, Traces(ur, plan)
    PROVE  tr[Len(plan)] = ur[Len(plan)]
<1> DEFINE n == Len(plan)
           Same == {k \in Nat : tr[k] = ur[k]}
<1>1. n \in Nat /\ n \in 0..n
  OBVIOUS
<1>2. 0 \in Same
  BY DEF Traces
<1>3. ASSUME NEW k \in 0..(n - 1), k \in Same
      PROVE  k + 1 \in Same
  <2>1. k + 1 \in 1..n /\ (k + 1) - 1 = k /\ k + 1 \in Nat
    BY <1>1
  <2>2. tr[k + 1] = AfterStep(tr[k], Name[plan[k + 1]]) /\ ur[k + 1] = AfterStep(ur[k], Name[plan[k + 1]])
    BY <2>1 DEF Traces
  <2>3. QED
    BY <1>3, <2>1, <2>2
<1>4. n \in Same
  <2> HIDE DEF Same, n
  <2>1. QED
    BY <1>1, <1>2, <1>3, UpTo
<1>5. QED
  BY <1>4

\* A plan the search reports is accepted: the final state is on a trace.
LEMMA MonitorAccepts ==
    ASSUME Gap = 0, MInv
    PROVE  MonitorConfirmsSearch
<1> SUFFICES ASSUME current.operators = {}, Holds(Goal, current.value)
             PROVE  ValidatePlan(InitialState, NamesOf(steps))
  BY DEF MonitorConfirmsSearch
<1>1. PICK tr : Traces(tr, steps) /\ OnTrace(tr)
  BY DEF MInv
<1>2. Searched(current) /\ steps \in Seq(Op)
  BY DEF MInv
<1>3. current \in tr[Len(steps)]
  BY <1>1, <1>2, OnTraceIsKept, Gap = 0
<1>4. Final(current) = current
  BY <1>2, PassedGoesOn, Gap = 0
<1>5. PICK ur : /\ Traces(ur, steps)
                /\ ValidatePlan(InitialState, NamesOf(steps)) <=>
                      \E s \in ur[Len(steps)] : Holds(Goal, Final(s).value)
  BY <1>2, ValidateIs
<1>6. current \in ur[Len(steps)]
  BY <1>1, <1>2, <1>3, <1>5, TracesAreUnique
<1>7. QED
  BY <1>4, <1>5, <1>6

\* Whatever plan the search finds, the monitor of continual planning accepts it
\* in the state it was found for, with and without concurrent actions, although
\* it ignores the time stamps: no plan is thrown away that was just made.
THEOREM MonitorAcceptsPlans ==
    ASSUME Gap = 0
    PROVE  Spec => []MonitorConfirmsSearch
<1>1. Init => MInv
  <2> SUFFICES ASSUME Init PROVE MInv
    OBVIOUS
  <2>1. Searched(current) /\ steps = <<>> /\ current = InitialState
    BY InitCanBeCompleted DEF CInv, Init
  <2> DEFINE tr == [k \in 0..0 |-> {InitialState}]
  <2>2. Traces(tr, steps) /\ OnTrace(tr)
    BY <2>1 DEF Traces, OnTrace
  <2>3. QED
    BY <2>1, <2>2 DEF MInv
<1>2. MInv /\ [Next]_stateVars => MInv'
  BY MonitorStep, Gap = 0
<1>3. MInv => MonitorConfirmsSearch
  BY MonitorAccepts, Gap = 0
<1>4. QED
  BY <1>1, <1>2, <1>3, PTL DEF Spec
=============================================================================
