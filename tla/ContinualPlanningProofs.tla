----------------------- MODULE ContinualPlanningProofs -----------------------
(***************************************************************************)
(* Theorems about the continual planning executive, for every domain, any  *)
(* number of handler threads and action executors, and every bound.        *)
(***************************************************************************)
EXTENDS ContinualPlanning, WellFoundedInduction, TLAPS

----------------------------------------------------------------------------
(* Plans: Minimum, RemoveAction, LeadsToGoal                               *)

\* Minimum picks the least element of a nonempty set of natural numbers (the
\* earliest start time, the first step, the first executor).
LEMMA MinimumIsLeast ==
    ASSUME NEW S \in SUBSET Nat, S # {}
    PROVE  /\ Minimum(S) \in S
           /\ \A u \in S : Minimum(S) <= u
<1> DEFINE Less == {ss \in Nat \X Nat : ss[1] < ss[2]}
<1>1. Less = OpToRel(<, Nat)
  BY DEF OpToRel
<1>2. IsWellFoundedOn(Less, Nat)
  BY <1>1, NatLessThanWellFounded, Zenon
<1>3. PICK t \in S : \A u \in S : <<u, t>> \notin Less
  BY <1>2, WFMin, Zenon
<1>4. ASSUME NEW u \in S
      PROVE  t <= u
  <2>1. <<u, t>>[1] = u /\ <<u, t>>[2] = t /\ <<u, t>> \in Nat \X Nat
    OBVIOUS
  <2>2. ~(u < t)
    BY <1>3, <2>1, Zenon
  <2>3. QED
    BY <2>2
<1>5. QED
  BY <1>3, <1>4, Zenon DEF Minimum

\* Erasing an action yields a plan again: the shift takes no start time below 0.
\* Steps disappear or keep their names, and they move by the same time.
LEMMA RemoveActionIsPlan ==
    ASSUME NEW p \in PlanSet, NEW a
    PROVE  /\ RemoveAction(p, a) \in PlanSet
           /\ Steps(RemoveAction(p, a)) \subseteq Steps(p)
           /\ \A k \in Steps(RemoveAction(p, a)) : RemoveAction(p, a)[k].name = p[k].name
           /\ \A j, k \in Steps(RemoveAction(p, a)) :
                 RemoveAction(p, a)[j].startTime - RemoveAction(p, a)[k].startTime
                   = p[j].startTime - p[k].startTime
<1> DEFINE kept == {k \in Steps(p) : p[k] # a}
           times == {p[k].startTime : k \in kept}
           earliestTime == Minimum(times)
           moved(k) == [name |-> p[k].name, startTime |-> p[k].startTime - earliestTime]
           rest == [k \in Step |-> IF k \in kept THEN moved(k) ELSE None]
<1>1. RemoveAction(p, a) = rest
  BY Zenon DEF RemoveAction
<1>2. \A k \in Steps(p) : k \in Step /\ p[k] \in DurativeAction
  BY DEF Steps, PlanSet
<1>3. \A k \in kept : p[k].startTime \in Nat /\ p[k].name \in Name
  BY <1>2 DEF DurativeAction
<1>4. \A k \in kept : earliestTime \in Nat /\ earliestTime <= p[k].startTime
  <2> SUFFICES ASSUME NEW k \in kept
               PROVE  earliestTime \in Nat /\ earliestTime <= p[k].startTime
    OBVIOUS
  <2>1. times \in SUBSET Nat /\ p[k].startTime \in times
    BY <1>3
  <2> HIDE DEF times
  <2>2. QED
    BY <2>1, MinimumIsLeast
<1> HIDE DEF earliestTime, times
<1>5. \A k \in kept : moved(k) \in DurativeAction
  BY <1>3, <1>4 DEF DurativeAction
<1>6. \A k \in kept : moved(k) # None
  BY <1>5, PlanAssumption
<1>7. kept \subseteq Step
  BY <1>2
<1>8. /\ Steps(rest) = kept
      /\ \A k \in kept : rest[k] = moved(k)
  <2> HIDE DEF kept, moved
  <2>1. QED
    BY <1>6, <1>7 DEF Steps
<1>9. rest \in PlanSet
  <2> HIDE DEF kept, moved
  <2>1. QED
    BY <1>5 DEF PlanSet
<1>10. \A j, k \in kept : moved(j).startTime - moved(k).startTime
                             = p[j].startTime - p[k].startTime
  BY <1>3, <1>4
<1>11. \A k \in kept : moved(k).name = p[k].name
  OBVIOUS
<1>12. kept \subseteq Steps(p)
  OBVIOUS
<1> HIDE DEF kept, moved, rest
<1>13. QED
  BY <1>1, <1>8, <1>9, <1>10, <1>11, <1>12

\* What is erased is what equals the action; as long as a step that starts at
\* once is left, nothing moves.
LEMMA RemoveActionErases ==
    ASSUME NEW p \in PlanSet, NEW a
    PROVE  /\ Steps(RemoveAction(p, a)) = {k \in Steps(p) : p[k] # a}
           /\ \A k \in Steps(RemoveAction(p, a)) :
                 \E j \in Steps(RemoveAction(p, a)) :
                    RemoveAction(p, a)[k].startTime = p[k].startTime - p[j].startTime
           /\ (\E k \in Steps(RemoveAction(p, a)) : p[k].startTime = 0) =>
                 \A k \in Steps(RemoveAction(p, a)) : RemoveAction(p, a)[k] = p[k]
<1> DEFINE kept == {k \in Steps(p) : p[k] # a}
           times == {p[k].startTime : k \in kept}
           earliestTime == Minimum(times)
           moved(k) == [name |-> p[k].name, startTime |-> p[k].startTime - earliestTime]
           rest == [k \in Step |-> IF k \in kept THEN moved(k) ELSE None]
<1>1. RemoveAction(p, a) = rest
  BY Zenon DEF RemoveAction
<1>2. \A k \in kept : k \in Step /\ p[k] \in DurativeAction
  BY DEF Steps, PlanSet
<1>3. \A k \in kept : p[k].startTime \in times /\ p[k].startTime \in Nat
  BY <1>2 DEF DurativeAction
<1>4. times \in SUBSET Nat
  BY <1>3
<1>5. kept # {} => earliestTime \in times /\ \A u \in times : earliestTime <= u
  <2> SUFFICES ASSUME kept # {}
               PROVE  earliestTime \in times /\ \A u \in times : earliestTime <= u
    OBVIOUS
  <2>1. times # {}
    BY <1>3
  <2> HIDE DEF times
  <2>2. QED
    BY <1>4, <2>1, MinimumIsLeast
<1>6. kept # {} => \E j \in kept : earliestTime = p[j].startTime
  BY <1>5
<1>7. \A k \in kept : earliestTime \in Nat /\ earliestTime <= p[k].startTime
  <2> HIDE DEF times, earliestTime, kept
  <2>1. QED
    BY <1>3, <1>4, <1>5
<1> HIDE DEF earliestTime, times
<1>8. \A k \in kept : moved(k) # None
  <2> SUFFICES ASSUME NEW k \in kept
               PROVE  moved(k) \in DurativeAction
    BY PlanAssumption
  <2>1. p[k].name \in Name /\ p[k].startTime - earliestTime \in Nat
    BY <1>2, <1>3, <1>7 DEF DurativeAction
  <2>2. QED
    BY <2>1 DEF DurativeAction
<1>9. Steps(rest) = kept /\ \A k \in kept : rest[k] = moved(k)
  <2>1. kept \subseteq Step
    BY <1>2
  <2> HIDE DEF kept, moved
  <2>2. QED
    BY <1>8, <2>1 DEF Steps
<1>10. \A k \in kept : \E j \in kept : moved(k).startTime = p[k].startTime - p[j].startTime
  BY <1>6
<1>11. ASSUME NEW j \in kept, p[j].startTime = 0, NEW k \in kept
       PROVE  moved(k) = p[k]
  <2>1. earliestTime = 0
    BY <1>11, <1>7
  <2>2. p[k] = [name |-> p[k].name, startTime |-> p[k].startTime] /\ p[k].startTime - 0 = p[k].startTime
    BY <1>2, <1>3 DEF DurativeAction
  <2>3. QED
    BY <2>1, <2>2
<1> HIDE DEF kept, moved, rest
<1>12. QED
  BY <1>1, <1>9, <1>10, <1>11 DEF kept

\* The empty plan is a plan without steps.
LEMMA EmptyPlanIsEmpty == EmptyPlan \in PlanSet /\ IsEmpty(EmptyPlan) /\ Steps(EmptyPlan) = {}
  BY DEF EmptyPlan, PlanSet, IsEmpty, Steps

\* A plan without steps leads to the goal only where the goal holds: this is
\* why loop() may take a monitored empty plan for having reached the goal.
LEMMA EmptyPlanLeadsNowhere ==
    ASSUME NEW s, NEW p, IsEmpty(p), LeadsToGoal(s, p, {})
    PROVE  Goal \subseteq s
<1> DEFINE stays == [k \in 0..MaxSteps |-> s]
           after == CHOOSE f : f = [k \in 0..MaxSteps |-> IF k = 0 THEN s ELSE f[k - 1]]
<1>1. Progress(s, p, {}) = after
  BY DEF Progress, After, IsEmpty
<1>2. stays = [k \in 0..MaxSteps |-> IF k = 0 THEN s ELSE stays[k - 1]]
  <2>1. \A k \in 0..MaxSteps : k # 0 => k - 1 \in 0..MaxSteps
    BY PlanAssumption
  <2>2. QED
    BY <2>1
<1>3. after = [k \in 0..MaxSteps |-> IF k = 0 THEN s ELSE after[k - 1]]
  <2> HIDE DEF stays
  <2>1. QED
    BY <1>2, Zenon
<1> HIDE DEF after
<1>4. after[0] = s /\ \A k \in 0..MaxSteps : k # 0 => after[k] = after[k - 1]
  BY <1>3, PlanAssumption
\* If the facts ever changed, there would be a first step that changed them.
<1> DEFINE changed == {k \in 0..MaxSteps : after[k] # s}
<1>5. changed = {}
  <2> SUFFICES ASSUME changed # {} PROVE FALSE
    OBVIOUS
  <2>1. changed \in SUBSET Nat
    BY PlanAssumption
  <2>2. PICK first \in changed : \A k \in changed : first <= k
    <3> HIDE DEF changed
    <3>1. QED
      BY <2>1, MinimumIsLeast
  <2>3. first # 0 /\ first - 1 \in 0..MaxSteps
    BY <1>4, PlanAssumption
  <2>4. first - 1 \notin changed
    BY <2>1, <2>2
  <2>5. QED
    BY <1>4, <2>3, <2>4
<1>6. after[MaxSteps] = s
  BY <1>5, PlanAssumption
<1>7. QED
  BY <1>1, <1>6 DEF LeadsToGoal

\* Progress unfolds step by step: there is a function as its recursive
\* definition asks for, since there is no first step up to which there is none.
LEMMA ProgressUnfolds ==
    ASSUME NEW s, NEW p, NEW timed
    PROVE  /\ Progress(s, p, timed)[0] = s
           /\ \A k \in 1..MaxSteps :
                 Progress(s, p, timed)[k] = After(p, timed, k, Progress(s, p, timed)[k - 1])
<1> DEFINE Then(k, x) == After(p, timed, k, x)
           Unfolds(f, m) == f = [k \in 0..m |-> IF k = 0 THEN s ELSE Then(k, f[k - 1])]
           missing == {m \in 0..MaxSteps : ~\E f : Unfolds(f, m)}
<1>1. Progress(s, p, timed) = CHOOSE f : Unfolds(f, MaxSteps)
  BY Zenon DEF Progress
<1> HIDE DEF Then
<1>2. missing = {}
  <2> SUFFICES ASSUME missing # {} PROVE FALSE
    OBVIOUS
  <2>1. PICK m \in missing : \A k \in missing : m <= k
    <3>1. missing \in SUBSET Nat
      BY PlanAssumption
    <3> HIDE DEF missing
    <3>2. QED
      BY <3>1, MinimumIsLeast
  <2>2. m \in 0..MaxSteps /\ m \in Nat /\ ~\E f : Unfolds(f, m)
    BY <2>1, PlanAssumption
  <2>3. m # 0
    <3>1. Unfolds([k \in 0..0 |-> s], 0)
      OBVIOUS
    <3>2. QED
      BY <2>2, <3>1
  <2>4. PICK f : Unfolds(f, m - 1)
    <3>1. m - 1 \in 0..MaxSteps /\ m - 1 \notin missing
      BY <2>1, <2>2, <2>3, PlanAssumption
    <3>2. QED
      BY <3>1
  <2> DEFINE g == [k \in 0..m |-> IF k = m THEN Then(m, f[m - 1]) ELSE f[k]]
  <2>5. \A k \in 0..m - 1 : g[k] = f[k] /\ f[k] = IF k = 0 THEN s ELSE Then(k, f[k - 1])
    BY <2>2, <2>4
  <2>6. g[m] = Then(m, g[m - 1])
    BY <2>2, <2>3, <2>5
  <2>7. ASSUME NEW k \in 0..m
        PROVE  g[k] = IF k = 0 THEN s ELSE Then(k, g[k - 1])
    <3>1. CASE k = m
      BY <2>3, <2>6, <3>1
    <3>2. CASE k # m /\ k # 0
      <4>1. k \in 0..m - 1 /\ k - 1 \in 0..m - 1
        BY <2>2, <2>7, <3>2
      <4>2. QED
        BY <2>5, <3>2, <4>1
    <3>3. CASE k = 0
      <4>1. 0 \in 0..m - 1
        BY <2>2, <2>3
      <4>2. g[0] = s
        BY <2>5, <4>1
      <4> HIDE DEF g
      <4>3. QED
        BY <3>3, <4>2
    <3>4. QED
      BY <3>1, <3>2, <3>3
  <2>8. Unfolds(g, m)
    BY <2>7
  <2>9. QED
    BY <2>2, <2>8
<1>3. Unfolds(Progress(s, p, timed), MaxSteps)
  <2>1. \E f : Unfolds(f, MaxSteps)
    BY <1>2, PlanAssumption
  <2> HIDE DEF Unfolds
  <2>2. QED
    BY <1>1, <2>1
<1>4. \A k \in 1..MaxSteps : k \in 0..MaxSteps /\ k # 0
  BY PlanAssumption
<1>5. 0 \in 0..MaxSteps
  BY PlanAssumption
<1>6. /\ Progress(s, p, timed)[0] = s
      /\ \A k \in 1..MaxSteps : Progress(s, p, timed)[k] = Then(k, Progress(s, p, timed)[k - 1])
  BY <1>3, <1>4, <1>5
<1>7. QED
  BY <1>6, Zenon DEF Then

\* The beginning of a plan that can be executed can be executed.
LEMMA BeginningIsExecutable ==
    ASSUME NEW s, NEW p, NEW timed, NEW n \in Step, IsExecutable(s, p, timed)
    PROVE  IsExecutable(s, Beginning(p, n), timed)
<1> DEFINE q == Beginning(p, n)
           after == Progress(s, p, timed)
           afterq == Progress(s, q, timed)
<1>1. n \in Nat /\ Step \subseteq Nat /\ Step = 1..MaxSteps
  BY PlanAssumption DEF Step
<1>2. \A k \in Step : q[k] = IF k <= n THEN p[k] ELSE None
  BY DEF Beginning
<1>3. Steps(q) = {k \in Steps(p) : k <= n} /\ Steps(q) \subseteq Step
  BY <1>2 DEF Steps
<1>4. Late(q) = {k \in Late(p) : k <= n} /\ Late(p) \subseteq Step
  BY <1>2, <1>3 DEF Late, Steps
<1> HIDE DEF q
<1>5. \A k \in Step : k <= n => (EndsWait(q, k) <=> EndsWait(p, k))
  <2> SUFFICES ASSUME NEW k \in Step, k <= n
               PROVE  EndsWait(q, k) <=> EndsWait(p, k)
    OBVIOUS
  <2>1. \A j \in Late(p) : j \in Nat /\ (j <= n \/ k <= j)
    BY <1>1, <1>4
  <2>2. QED
    BY <1>4, <2>1 DEF EndsWait
<1>6. \A k \in Step : k <= n => (k \in Steps(q) <=> k \in Steps(p)) /\ q[k] = p[k]
  BY <1>2, <1>3
<1>7. /\ afterq[0] = after[0]
      /\ \A k \in Step : k <= n /\ afterq[k - 1] = after[k - 1] => afterq[k] = after[k]
  <2>1. /\ after[0] = s /\ afterq[0] = s
        /\ \A k \in 1..MaxSteps : after[k] = After(p, timed, k, after[k - 1])
        /\ \A k \in 1..MaxSteps : afterq[k] = After(q, timed, k, afterq[k - 1])
    BY ProgressUnfolds
  <2>2. \A k \in Step : k <= n => \A x : After(q, timed, k, x) = After(p, timed, k, x)
    BY <1>5, <1>6 DEF After, Arrived
  <2> HIDE DEF after, afterq
  <2>3. QED
    BY <1>1, <2>1, <2>2
<1> HIDE DEF after, afterq
<1>8. \A k \in 0..n : afterq[k] = after[k]
  <2> DEFINE differ == {k \in 0..n : afterq[k] # after[k]}
  <2> SUFFICES ASSUME differ # {} PROVE FALSE
    OBVIOUS
  <2>1. PICK m \in differ : \A k \in differ : m <= k
    <3>1. differ \in SUBSET Nat
      BY <1>1
    <3> HIDE DEF differ
    <3>2. QED
      BY <3>1, MinimumIsLeast
  <2>2. m \in 0..n /\ afterq[m] # after[m] /\ m # 0 /\ n <= MaxSteps /\ MaxSteps \in Nat
    BY <1>1, <1>7, <2>1, PlanAssumption
  <2>a. m \in Step /\ m <= n /\ m - 1 \in 0..n
    BY <1>1, <2>2
  <2>b. m - 1 \notin differ
    BY <1>1, <2>1, <2>2
  <2>c. afterq[m - 1] = after[m - 1]
    BY <2>a, <2>b
  <2>3. QED
    BY <1>7, <2>2, <2>a, <2>c
<1>9. ASSUME NEW k \in Steps(q)
      PROVE  Pre[q[k].name] \subseteq afterq[k - 1] \cup Arrived(q, timed, k)
  <2>1. k \in Step /\ k <= n /\ k \in Steps(p) /\ q[k] = p[k] /\ k - 1 \in 0..n
    BY <1>1, <1>3, <1>6
  <2>2. Pre[p[k].name] \subseteq after[k - 1] \cup Arrived(p, timed, k)
    BY <2>1 DEF IsExecutable, after
  <2>3. Arrived(q, timed, k) = Arrived(p, timed, k)
    BY <1>5, <2>1 DEF Arrived
  <2>4. QED
    BY <1>8, <2>1, <2>2, <2>3
<1>10. QED
  BY <1>9 DEF IsExecutable, afterq, q
----------------------------------------------------------------------------
(* executeBlocking                                                         *)

\* The next try is one of those that are left.
LEMMA NextAttemptIsLeft ==
    ASSUME NEW S \in SUBSET (Step \X Executor), S # {}
    PROVE  NextAttempt(S) \in S
<1> DEFINE k == Minimum({x[1] : x \in S})
           atStep == {y \in S : y[1] = k}
           e == Minimum({x[2] : x \in atStep})
<1>1. /\ {x[1] : x \in S} \in SUBSET Nat /\ {x[1] : x \in S} # {}
      /\ \A x \in S : x[2] \in Nat
  <2>1. \A x \in S : x[1] \in Nat /\ x[2] \in Nat
    <3>1. \A x \in S : x[1] \in Step /\ x[2] \in Executor
      OBVIOUS
    <3>2. Step \subseteq Nat /\ Executor \subseteq Nat
      BY PlanAssumption, ExecutorAssumption DEF Step
    <3>3. QED
      BY <3>1, <3>2
  <2>2. QED
    BY <2>1
<1>2. k \in {x[1] : x \in S}
  BY <1>1, MinimumIsLeast, Zenon
<1>3. atStep # {}
  BY <1>2
<1>4. {x[2] : x \in atStep} \in SUBSET Nat /\ {x[2] : x \in atStep} # {}
  <2> HIDE DEF k
  <2>1. QED
    BY <1>1, <1>3
<1>5. e \in {x[2] : x \in atStep}
  BY <1>4, MinimumIsLeast, Zenon
<1>6. PICK y \in S : y[1] = k /\ y[2] = e
  BY <1>5
<1>7. y = <<k, e>>
  BY <1>6
<1>8. QED
  BY <1>6, <1>7, Zenon DEF NextAttempt

\* The tries of a plan.
LEMMA AttemptsAreTries ==
    ASSUME NEW p
    PROVE  /\ Attempts(p) \subseteq Steps(p) \X Executor
           /\ Attempts(p) \subseteq Step \X Executor
  BY DEF Attempts, Steps

\* A call that starts is well-formed.
LEMMA NewCall ==
    ASSUME NEW p \in PlanSet
    PROVE  /\ CallFor(p) \in Call
           /\ CallFor(p).todo \subseteq Attempts(p)
           /\ CallFor(p).plan = p
           /\ CallFor(p).stage = "dispatch"
           /\ IdleCall \in Call /\ IdleCall.todo = {} /\ IdleCall.stage = "idle"
  BY EmptyPlanIsEmpty, AttemptsAreTries DEF CallFor, IdleCall, Call, Stage

\* The action that is being tried is one of the plan.
LEMMA RunningIsAction ==
    ASSUME NEW t \in Thread, ExecutorTypeOK, CallsArePlanned,
           call[t].stage \in {"running", "cancelled"}
    PROVE  Running(t) \in DurativeAction
<1>1. call[t] \in Call /\ call[t].todo # {} /\ call[t].todo \subseteq Attempts(call[t].plan)
  BY DEF ExecutorTypeOK, CallsArePlanned
<1>2. NextAttempt(call[t].todo) \in Attempts(call[t].plan)
  BY <1>1, NextAttemptIsLeft DEF Call
<1>3. NextAttempt(call[t].todo)[1] \in Steps(call[t].plan)
  BY <1>2, AttemptsAreTries
<1>4. QED
  BY <1>1, <1>3 DEF Running, Steps, Call, PlanSet

\* A try that is over leaves a well-formed call.
LEMMA TriedIsCall ==
    ASSUME NEW t \in Thread, ExecutorTypeOK, CallsArePlanned, NEW n \in Nat,
           call[t].stage \in {"running", "cancelled"}, call' = Tried(t, n)
    PROVE  call' \in [Thread -> Call] /\ CallsArePlanned'
<1>1. Running(t) \in DurativeAction
  BY RunningIsAction
<1> DEFINE left == call[t].todo \ {NextAttempt(call[t].todo)}
           c == [call[t] EXCEPT !.stage = "dispatch", !.todo = left,
                     !.executed = @ \cup {Running(t)}, !.count = @ + n]
<1>2. call' = [call EXCEPT ![t] = c]
  BY DEF Tried, ExecutorTypeOK
<1>3. c \in Call /\ c.todo \subseteq call[t].todo /\ c.plan = call[t].plan
         /\ c.stage = "dispatch"
  <2>1. call[t] \in Call
    BY DEF ExecutorTypeOK
  <2>2. left \in SUBSET (Step \X Executor) /\ left \subseteq call[t].todo
    BY <2>1 DEF Call
  <2>3. call[t].executed \cup {Running(t)} \in SUBSET DurativeAction
    BY <1>1, <2>1 DEF Call
  <2>4. call[t].count + n \in Nat
    BY <2>1 DEF Call
  <2> HIDE DEF left
  <2>5. c.todo = left /\ c.plan = call[t].plan /\ c.stage = "dispatch"
    BY <2>1 DEF Call
  <2>6. c \in Call
    BY <2>1, <2>2, <2>3, <2>4 DEF Call, Stage
  <2>7. QED
    BY <2>2, <2>5, <2>6
<1>4. QED
  <2> HIDE DEF c
  <2>1. QED
    BY <1>2, <1>3 DEF ExecutorTypeOK, CallsArePlanned

\* Effects stay within the facts.
LEMMA ApplyIsState ==
    ASSUME NEW n \in Name, NEW s \in SUBSET Fact
    PROVE  Apply(n, s) \in SUBSET Fact
  BY PlanAssumption DEF Apply

\* Every step of executeBlocking keeps the calls, the world and the belief
\* well-formed.
LEMMA ExecuteBlockingIsTyped ==
    ASSUME NEW t \in Thread, ExecutorTypeOK, CallsArePlanned, ExecuteBlocking(t)
    PROVE  ExecutorTypeOK' /\ CallsArePlanned'
<1>1. CASE Dispatch(t)
  BY <1>1 DEF Dispatch, ExecutorTypeOK, CallsArePlanned, Call, Stage
<1>2. CASE ActionSucceeds(t)
  <2>1. Running(t).name \in Name
    BY <1>2, RunningIsAction DEF ActionSucceeds, DurativeAction
  <2>2. world' \in SUBSET Fact /\ currentState' \in SUBSET Fact
    BY <1>2, <2>1, ApplyIsState DEF ActionSucceeds, ExecutorTypeOK
  <2>3. QED
    BY <1>2, <2>2, TriedIsCall DEF ActionSucceeds, ExecutorTypeOK
<1>3. CASE ActionFails(t)
  <2>1. Running(t).name \in Name
    BY <1>3, RunningIsAction DEF ActionFails, DurativeAction
  <2>2. world' \in SUBSET Fact /\ faults' \in 0..MaxFaults /\ currentState' \in SUBSET Fact
    <3>1. /\ world \in SUBSET Fact /\ faults \in 0..MaxFaults /\ faults \in Nat
          /\ currentState \in SUBSET Fact
      BY ExecutorAssumption DEF ExecutorTypeOK
    <3>2. Apply(Running(t).name, world) \in SUBSET Fact
      BY <2>1, <3>1, ApplyIsState
    <3>3. world' \in {world, Apply(Running(t).name, world)}
      BY <1>3, Zenon DEF ActionFails
    <3>4. faults' = faults \/ (faults < MaxFaults /\ faults' = faults + 1)
      BY <1>3, Zenon DEF ActionFails
    <3>5. currentState' \in {currentState, Apply(Running(t).name, currentState)}
      BY <1>3, Zenon DEF ActionFails
    <3>6. currentState' \in SUBSET Fact
      BY <2>1, <3>1, <3>5, ApplyIsState
    <3>7. QED
      BY <3>1, <3>2, <3>3, <3>4, <3>6, ExecutorAssumption
  <2>3. QED
    BY <1>3, <2>2, TriedIsCall DEF ActionFails, ExecutorTypeOK
<1>4. CASE EndDispatch(t)
  BY <1>4 DEF EndDispatch, ExecutorTypeOK, CallsArePlanned, Call, Stage
<1>5. CASE WakeUp(t)
  BY <1>5 DEF WakeUp, ExecutorTypeOK, CallsArePlanned, Call, Stage
<1>6. QED
  BY <1>1, <1>2, <1>3, <1>4, <1>5 DEF ExecuteBlocking

----------------------------------------------------------------------------
(* Types                                                                   *)

\* Readers and writers of _currentState stay within the facts, whoever else
\* writes.
LEMMA EstimateIsTyped ==
    ASSUME NEW t \in Thread, TypeOK, EstimateSucceeds(t) \/ EstimateFails(t)
    PROVE  /\ currentState' \in SUBSET Fact
           /\ est' \in [Thread -> {"no", "alone", "raced"}]
           /\ pending' \in SUBSET FutureFact
           /\ triggered' \in SUBSET FutureFact
           /\ faults' \in 0..MaxFaults
<1>1. /\ world \in SUBSET Fact /\ currentState \in SUBSET Fact /\ pending \in SUBSET FutureFact
      /\ triggered \in SUBSET FutureFact /\ FutureFact \in SUBSET Fact
      /\ faults \in 0..MaxFaults /\ MaxFaults \in Nat
      /\ est \in [Thread -> {"no", "alone", "raced"}]
  BY ExecutorAssumption, ExecutiveAssumption DEF TypeOK, ExecutorTypeOK
<1>2. PICK s \in SUBSET Fact : UpdateFutureEvents(s)
  <2>1. CASE EstimateSucceeds(t)
    BY <1>1, <2>1 DEF EstimateSucceeds
  <2>2. CASE EstimateFails(t)
    <3>1. PICK known \in SUBSET Fact :
             UpdateFutureEvents((currentState \ known) \cup (world \cap known))
      BY <2>2, Zenon DEF EstimateFails
    <3>2. (currentState \ known) \cup (world \cap known) \in SUBSET Fact
      BY <1>1
    <3>3. QED
      BY <3>1, <3>2, Zenon
  <2>3. QED
    BY <2>1, <2>2
<1>3. /\ currentState' \in SUBSET Fact
      /\ pending' \in SUBSET FutureFact
      /\ triggered' \in SUBSET FutureFact
  BY <1>1, <1>2 DEF UpdateFutureEvents
<1>4. est' = [est EXCEPT ![t] = "no"]
  BY DEF EstimateSucceeds, EstimateFails
<1>5. faults' = faults \/ (faults < MaxFaults /\ faults' = faults + 1)
  BY Zenon DEF EstimateSucceeds, EstimateFails
<1>6. QED
  BY <1>1, <1>3, <1>4, <1>5

\* A thread that starts to estimate, and those it disturbs, have a type.
LEMMA EstimateBeginsTyped ==
    ASSUME NEW t \in Thread, TypeOK, BeginEstimate(t)
    PROVE  est' \in [Thread -> {"no", "alone", "raced"}]
  BY DEF BeginEstimate, Disturbed, TypeOK

\* What writeProblem writes are facts.
LEMMA ProblemIsTyped ==
    ASSUME TypeOK, WriteProblem
    PROVE  problem' \in [facts : SUBSET Fact, timed : SUBSET FutureFact, overdue : BOOLEAN]
<1>1. currentState \in SUBSET Fact /\ pending \in SUBSET FutureFact
  BY DEF TypeOK, ExecutorTypeOK
<1>2. StateRead \subseteq SUBSET Fact
  BY <1>1 DEF StateRead
<1>3. QED
  BY <1>1, <1>2 DEF WriteProblem

\* Schedules are plans, and what the planner answers with is one of those it
\* has for the problem it was given.
LEMMA SolutionsArePlans ==
    ASSUME TypeOK
    PROVE  /\ \A p \in Solutions : LeadsToGoal(problem.facts, p, problem.timed)
           /\ Solutions \subseteq PlanSet
           /\ Torn \subseteq PlanSet
<1>1. ASSUME NEW p \in PlanSet, NEW n
      PROVE  Beginning(p, n) \in PlanSet
  BY <1>1 DEF Beginning, PlanSet
<1>2. Schedules \subseteq PlanSet
  <2> SUFFICES ASSUME NEW p \in Schedules PROVE p \in PlanSet
    OBVIOUS
  <2>1. PICK q \in [Step -> [name : Name, startTime : StartTimes]], n \in 0..MaxSteps :
           p = Beginning(q, n)
    BY DEF Schedules
  <2>2. [name : Name, startTime : StartTimes] \subseteq DurativeAction
    BY ExecutiveAssumption DEF DurativeAction
  <2>3. q \in PlanSet
    BY <2>2 DEF PlanSet
  <2>4. QED
    BY <1>1, <2>1, <2>3
<1>3. ASSUME NEW p \in Solutions
      PROVE  p \in Schedules /\ LeadsToGoal(problem.facts, p, problem.timed)
  <2> DEFINE plans(s, timed) ==
                {r \in Schedules :
                    /\ ~IsEmpty(r) /\ timed = {} => r[1].startTime = 0
                    /\ Goal \subseteq s /\ timed = {} => IsEmpty(r)
                    /\ LeadsToGoal(s, r, timed)}
             solved(s, timed) == [facts |-> s, timed |-> timed, plans |-> plans(s, timed)]
  <2>1. problem.facts \in SUBSET Fact /\ problem.timed \in SUBSET FutureFact
    BY DEF TypeOK
  <2>2. Solved = {solved(s, timed) : s \in SUBSET Fact, timed \in SUBSET FutureFact}
    BY DEF Solved
  <2> HIDE DEF plans
  <2>3. \E q \in Solved : q.facts = problem.facts /\ q.timed = problem.timed
    <3>1. solved(problem.facts, problem.timed) \in Solved
      <4> HIDE DEF solved
      <4>1. \A s \in SUBSET Fact, timed \in SUBSET FutureFact : solved(s, timed) \in Solved
        BY <2>2
      <4>2. QED
        BY <2>1, <4>1
    <3>2. /\ solved(problem.facts, problem.timed).facts = problem.facts
          /\ solved(problem.facts, problem.timed).timed = problem.timed
      OBVIOUS
    <3> HIDE DEF solved
    <3>3. QED
      BY <3>1, <3>2
  <2>4. PICK q \in Solved : q.facts = problem.facts /\ q.timed = problem.timed /\ p \in q.plans
    <3>1. Solutions =
             (CHOOSE q \in Solved : q.facts = problem.facts /\ q.timed = problem.timed).plans
      BY DEF Solutions
    <3>2. QED
      BY <2>3, <3>1
  <2>5. q.plans = plans(problem.facts, problem.timed)
    BY <2>2, <2>4
  <2>6. QED
    BY <2>4, <2>5 DEF plans
<1>4. QED
  BY <1>1, <1>2, <1>3 DEF Torn

\* Going on with a plan keeps the types and the calls well-formed.
LEMMA ProceedIsTyped ==
    ASSUME TypeOK, CallsArePlanned, NEW p \in PlanSet, NEW atGoal \in BOOLEAN,
           ProceedWith(p, atGoal)
    PROVE  /\ call' \in [Thread -> Call]
           /\ CallsArePlanned'
           /\ pc' \in MainPC
           /\ cpState' \in {"Running", "FinishedNoPlanToGoal", "FinishedAtGoal"}
           /\ currentPlan' \in PlanSet
<1>1. CASE IsEmpty(p)
  BY <1>1 DEF ProceedWith, TypeOK, ExecutorTypeOK, CallsArePlanned, MainPC
<1>2. CASE ~IsEmpty(p)
  <2>1. /\ pc' = "executing" /\ currentPlan' = p /\ cpState' = cpState
        /\ call' = [call EXCEPT ![Main] = CallFor(p)]
    BY <1>2 DEF ProceedWith
  <2>2. QED
    BY <2>1, NewCall DEF TypeOK, ExecutorTypeOK, CallsArePlanned, MainPC
<1>3. QED
  BY <1>1, <1>2

\* The invariant that carries the types: what is left of a call must come from
\* its plan, or the action that is being tried would be no action.
TypeInv == TypeOK /\ CallsArePlanned

\* No call is on the stack at the start.
LEMMA TypeInvInit == Init => TypeInv
<1> SUFFICES ASSUME Init PROVE TypeInv
  OBVIOUS
<1>1. /\ IdleCall \in Call /\ IdleCall.todo = {} /\ IdleCall.stage = "idle"
      /\ EmptyPlan \in PlanSet
  BY NewCall, EmptyPlanIsEmpty
<1>2. ExecutorTypeOK /\ CallsArePlanned
  BY <1>1, ExecutorAssumption DEF Init, ExecutorTypeOK, CallsArePlanned
<1>3. /\ mode \in {"RUN", "PAUSE", "STEP"} /\ lastCommand \in {"RUN", "PAUSE", "STEP"}
      /\ commands \in 0..MaxCommands
  BY ExecutiveAssumption DEF Init
<1>4. /\ problem \in [facts : SUBSET Fact, timed : SUBSET FutureFact, overdue : BOOLEAN]
      /\ est \in [Thread -> {"no", "alone", "raced"}]
  BY DEF Init
<1>5. /\ pc \in MainPC /\ loopsSince \in 0..2
      /\ cpState \in {"Running", "FinishedNoPlanToGoal", "FinishedAtGoal"}
  BY DEF Init, MainPC, Loading
<1>6. /\ currentPlan \in PlanSet /\ toRemove \subseteq DurativeAction
      /\ pending \subseteq FutureFact /\ triggered \subseteq FutureFact
  BY <1>1 DEF Init
<1>7. forceReplan \in BOOLEAN /\ rosOk \in BOOLEAN /\ forcePending \in BOOLEAN
  BY DEF Init
<1>8. QED
  BY <1>2, <1>3, <1>4, <1>5, <1>6, <1>7, Zenon DEF TypeInv, TypeOK

\* The steps of main() keep the types.
LEMMA TypeInvMain == TypeInv /\ MainStep => TypeInv'
<1> SUFFICES ASSUME TypeOK, CallsArePlanned, MainStep
             PROVE  TypeOK' /\ CallsArePlanned'
  BY DEF TypeInv
<1> USE DEF executorVars, mainVars, sharedVars, eventVars, historyVars
<1>0. Main \in Thread /\ FutureFact \in SUBSET Fact /\ MaxFaults \in Nat
  BY ExecutorAssumption, ExecutiveAssumption
<1>1. CASE LoadPlugins \/ Startup
  <2>1. ASSUME NEW k, NEW n \in Loading \cup {"startup"}, Load(k, n)
        PROVE  TypeOK' /\ CallsArePlanned'
    BY <2>1, <1>0 DEF Load, Loading, TypeOK, ExecutorTypeOK, CallsArePlanned, MainPC
  <2>2. CASE LoadPlugins
    BY <2>1, <2>2 DEF LoadPlugins, LoadPlanner, LoadStateCreators, LoadGoalCreators,
                      LoadActionExecutors, Loading
  <2>3. CASE Startup
    BY <2>3, ExecutorAssumption
       DEF Startup, TypeOK, ExecutorTypeOK, CallsArePlanned, MainPC, Loading
  <2>4. QED
    BY <1>1, <2>2, <2>3
<1>2. CASE StartLoop
  BY <1>0, <1>2, EstimateBeginsTyped
     DEF StartLoop, TypeOK, ExecutorTypeOK, CallsArePlanned, MainPC
<1>3. CASE LeaveMainLoop
  BY <1>3 DEF LeaveMainLoop, TypeOK, ExecutorTypeOK, CallsArePlanned, MainPC
<1>4. CASE EndEstimation
  <2>1. /\ currentState' \in SUBSET Fact
        /\ est' \in [Thread -> {"no", "alone", "raced"}]
        /\ pending' \in SUBSET FutureFact
        /\ triggered' \in SUBSET FutureFact
        /\ faults' \in 0..MaxFaults
    BY <1>0, <1>4, EstimateIsTyped, Zenon DEF EndEstimation
  <2>2. QED
    BY <1>4, <2>1 DEF EndEstimation, TypeOK, ExecutorTypeOK, CallsArePlanned, MainPC
<1>5. CASE ForcedToReplan
  BY <1>5, ProblemIsTyped DEF ForcedToReplan, TypeOK, ExecutorTypeOK, CallsArePlanned, MainPC
<1>6. CASE StartMonitoring
  BY <1>6, ProblemIsTyped DEF StartMonitoring, TypeOK, ExecutorTypeOK, CallsArePlanned, MainPC
<1>7. CASE MonitorSucceeds
  <2>1. /\ call' \in [Thread -> Call] /\ CallsArePlanned' /\ pc' \in MainPC
        /\ cpState' \in {"Running", "FinishedNoPlanToGoal", "FinishedAtGoal"}
        /\ currentPlan' \in PlanSet
    BY <1>7, ProceedIsTyped DEF MonitorSucceeds, TypeOK, IsEmpty
  <2>2. QED
    BY <1>7, <2>1 DEF MonitorSucceeds, TypeOK, ExecutorTypeOK
<1>8. CASE MonitorFails
  <2>1. faults' \in 0..MaxFaults
    BY <1>0, <1>8 DEF MonitorFails, TypeOK, ExecutorTypeOK
  <2>2. QED
    BY <1>8, <2>1, ProblemIsTyped
       DEF MonitorFails, TypeOK, ExecutorTypeOK, CallsArePlanned, MainPC
<1>9. CASE PlannerReturns
  <2>1. PICK p \in Solutions \cup Torn \cup {EmptyPlan} :
           /\ faults' = faults \/ (faults < MaxFaults /\ faults' = faults + 1)
           /\ ProceedWith(p, FALSE)
    BY <1>9, Zenon DEF PlannerReturns
  <2>2. p \in PlanSet
    BY SolutionsArePlans, EmptyPlanIsEmpty
  <2>3. /\ call' \in [Thread -> Call] /\ CallsArePlanned' /\ pc' \in MainPC
        /\ cpState' \in {"Running", "FinishedNoPlanToGoal", "FinishedAtGoal"}
        /\ currentPlan' \in PlanSet
    BY <2>1, <2>2, ProceedIsTyped
  <2>4. faults' \in 0..MaxFaults
    BY <1>0, <2>1 DEF TypeOK, ExecutorTypeOK
  <2>5. QED
    BY <1>9, <2>3, <2>4 DEF PlannerReturns, TypeOK, ExecutorTypeOK
<1>10. CASE ExecutePlan
  <2>1. ExecutorTypeOK' /\ CallsArePlanned'
    BY <1>0, <1>10, ExecuteBlockingIsTyped DEF ExecutePlan, TypeOK
  <2>2. est' \in [Thread -> {"no", "alone", "raced"}]
    BY <1>10 DEF ExecutePlan, TypeOK, Disturbed
  <2>3. QED
    BY <1>10, <2>1, <2>2 DEF ExecutePlan, TypeOK, MainPC
<1>11. CASE FinishExecution
  <2>1. call[Main].executed \in SUBSET DurativeAction
    BY <1>0 DEF TypeOK, ExecutorTypeOK, Call
  <2>2. QED
    BY <1>11, <2>1 DEF FinishExecution, TypeOK, ExecutorTypeOK, CallsArePlanned, MainPC
<1>12. CASE RemoveExecuted
  <2>1. currentPlan' \in PlanSet /\ toRemove' \in SUBSET DurativeAction
    BY <1>12, RemoveActionIsPlan DEF RemoveExecuted, TypeOK
  <2>2. QED
    BY <1>12, <2>1 DEF RemoveExecuted, TypeOK, ExecutorTypeOK, CallsArePlanned
<1>13. CASE EndRemoval
  <2>1. /\ IdleCall \in Call /\ IdleCall.todo = {} /\ IdleCall.stage = "idle"
    BY NewCall, EmptyPlanIsEmpty
  <2>2. call' = [call EXCEPT ![Main] = IdleCall]
    BY <1>13 DEF EndRemoval
  <2>3. call' \in [Thread -> Call] /\ CallsArePlanned'
    BY <2>1, <2>2 DEF TypeOK, ExecutorTypeOK, CallsArePlanned
  <2>4. QED
    BY <1>13, <2>3 DEF EndRemoval, TypeOK, ExecutorTypeOK, MainPC
<1>14. CASE TestStepMode
  BY <1>14 DEF TestStepMode, TypeOK, ExecutorTypeOK, CallsArePlanned, MainPC
<1>15. CASE PauseAfterStep
  BY <1>15 DEF PauseAfterStep, TypeOK, ExecutorTypeOK, CallsArePlanned, MainPC
<1>16. QED
  BY <1>1, <1>2, <1>3, <1>4, <1>5, <1>6, <1>7, <1>8, <1>9, <1>10, <1>11, <1>12, <1>13,
     <1>14, <1>15 DEF MainStep

\* The handlers keep the types.
LEMMA TypeInvHandler ==
    ASSUME NEW t \in Handler, HandlerRequest(t) \/ HandlerWork(t), TypeInv
    PROVE  TypeInv'
<1> SUFFICES ASSUME TypeOK, CallsArePlanned
             PROVE  TypeOK' /\ CallsArePlanned'
  BY DEF TypeInv
<1> USE DEF executorVars, mainVars, sharedVars, eventVars, historyVars
<1>0. t \in Thread /\ MaxCommands \in Nat
  BY ExecutiveAssumption
<1>1. IdleCall \in Call /\ IdleCall.todo = {} /\ IdleCall.stage = "idle"
  BY NewCall, EmptyPlanIsEmpty
<1>2. ASSUME Accept(t)
      PROVE  commands' \in 0..MaxCommands
  BY <1>0, <1>2 DEF Accept, TypeOK
<1>3. ASSUME NEW c \in {"RUN", "PAUSE", "STEP"}, SetMode(t, c)
      PROVE  TypeOK' /\ CallsArePlanned'
  BY <1>2, <1>3 DEF SetMode, TypeOK, ExecutorTypeOK, CallsArePlanned
<1>4. CASE ForceReplanning(t)
  BY <1>2, <1>4 DEF ForceReplanning, TypeOK, ExecutorTypeOK, CallsArePlanned
<1>5. CASE ReestimateState(t)
  BY <1>0, <1>2, <1>5, EstimateBeginsTyped
     DEF ReestimateState, TypeOK, ExecutorTypeOK, CallsArePlanned
<1>6. ASSUME NEW a \in DirectActions, ExecuteActionDirectly(t, a)
      PROVE  TypeOK' /\ CallsArePlanned'
  <2> DEFINE c == [CallFor(JustThis(a)) EXCEPT !.stage = "prepared"]
  <2>1. JustThis(a) \in PlanSet
    BY ExecutiveAssumption DEF JustThis, PlanSet
  <2>2. /\ c \in Call /\ c.todo \subseteq Attempts(c.plan)
        /\ c.stage = "prepared"
    BY <2>1, NewCall DEF Call, Stage
  <2>3. call' = [call EXCEPT ![t] = c]
    BY <1>6 DEF ExecuteActionDirectly
  <2> HIDE DEF c
  <2>4. call' \in [Thread -> Call] /\ CallsArePlanned'
    BY <2>2, <2>3 DEF TypeOK, ExecutorTypeOK, CallsArePlanned
  <2>5. est' \in [Thread -> {"no", "alone", "raced"}]
    BY <1>0, <1>6, EstimateBeginsTyped DEF ExecuteActionDirectly
  <2>6. QED
    BY <1>2, <1>6, <2>4, <2>5 DEF ExecuteActionDirectly, TypeOK, ExecutorTypeOK
<1>7. CASE EndHandlerEstimate(t)
  <2>1. /\ currentState' \in SUBSET Fact
        /\ est' \in [Thread -> {"no", "alone", "raced"}]
        /\ pending' \in SUBSET FutureFact
        /\ triggered' \in SUBSET FutureFact
        /\ faults' \in 0..MaxFaults
    BY <1>0, <1>7, EstimateIsTyped, Zenon DEF EndHandlerEstimate
  <2>2. \/ call' = call
        \/ call[t].stage = "prepared" /\ call' = [call EXCEPT ![t].stage = "dispatch"]
        \/ call' = [call EXCEPT ![t] = IdleCall]
    BY <1>7 DEF EndHandlerEstimate
  <2>3. call' \in [Thread -> Call] /\ CallsArePlanned'
    BY <1>1, <2>2 DEF TypeOK, ExecutorTypeOK, CallsArePlanned, Call, Stage
  <2>4. QED
    BY <1>7, <2>1, <2>3 DEF EndHandlerEstimate, TypeOK, ExecutorTypeOK
<1>8. CASE ExecuteDirectly(t)
  <2>1. ExecutorTypeOK' /\ CallsArePlanned'
    BY <1>0, <1>8, ExecuteBlockingIsTyped DEF ExecuteDirectly, TypeOK
  <2>2. est' \in [Thread -> {"no", "alone", "raced"}]
    BY <1>8 DEF ExecuteDirectly, TypeOK, Disturbed
  <2>3. QED
    BY <1>8, <2>1, <2>2 DEF ExecuteDirectly, TypeOK
<1>9. CASE AnswerDirectly(t)
  <2>1. call' \in [Thread -> Call] /\ CallsArePlanned'
    BY <1>1, <1>9 DEF AnswerDirectly, TypeOK, ExecutorTypeOK, CallsArePlanned
  <2>2. QED
    BY <1>9, <2>1 DEF AnswerDirectly, TypeOK, ExecutorTypeOK
<1>10. QED
  BY <1>3, <1>4, <1>5, <1>6, <1>7, <1>8, <1>9 DEF HandlerRequest, HandlerWork

\* The signal handler, time and the world.
LEMMA TypeInvEnvironment ==
    TypeInv /\ (SignalHandler \/ FutureEventTriggers \/ WorldChanges) => TypeInv'
<1> SUFFICES ASSUME TypeOK, CallsArePlanned,
                    SignalHandler \/ FutureEventTriggers \/ WorldChanges
             PROVE  TypeOK' /\ CallsArePlanned'
  BY DEF TypeInv
<1> USE DEF executorVars, mainVars, sharedVars, eventVars, historyVars
<1>0. MaxCommands \in Nat /\ MaxFaults \in Nat /\ FutureFact \in SUBSET Fact
  BY ExecutorAssumption, ExecutiveAssumption
<1>1. CASE SignalHandler
  <2>1. call' \in [Thread -> Call] /\ CallsArePlanned'
    <3>1. call' = Cancelled
      BY <1>1 DEF SignalHandler
    <3>2. QED
      BY <3>1 DEF Cancelled, CancelAction, TypeOK, ExecutorTypeOK, CallsArePlanned, Call, Stage
  <2>2. commands' \in 0..MaxCommands
    BY <1>0, <1>1 DEF SignalHandler, TypeOK
  <2>3. QED
    BY <1>1, <2>1, <2>2 DEF SignalHandler, TypeOK, ExecutorTypeOK
<1>2. CASE FutureEventTriggers
  BY <1>0, <1>2 DEF FutureEventTriggers, TypeOK, ExecutorTypeOK, CallsArePlanned
<1>3. CASE WorldChanges
  <2>1. faults' \in 0..MaxFaults
    BY <1>0, <1>3 DEF WorldChanges, TypeOK, ExecutorTypeOK
  <2>2. world' \in SUBSET Fact
    BY <1>3 DEF WorldChanges, TypeOK, ExecutorTypeOK
  <2>3. QED
    BY <1>3, <2>1, <2>2 DEF WorldChanges, TypeOK, ExecutorTypeOK, CallsArePlanned
<1>4. QED
  BY <1>1, <1>2, <1>3

\* All steps keep the types.
LEMMA TypeInvStep == TypeInv /\ [Next]_vars => TypeInv'
<1>1. ASSUME TypeInv, UNCHANGED vars
      PROVE  TypeInv'
  BY <1>1 DEF TypeInv, TypeOK, ExecutorTypeOK, CallsArePlanned, vars, executorVars, mainVars,
              sharedVars, eventVars, historyVars
<1>2. QED
  BY <1>1, TypeInvMain, TypeInvHandler, TypeInvEnvironment, Zenon DEF Next, Resting

\* Every variable keeps its type under all interleavings of the loop, the
\* handler threads, the signal handler and the world.
THEOREM TypesAreKept == Spec => []TypeOK
<1>1. TypeInv => TypeOK
  BY DEF TypeInv
<1>2. QED
  BY <1>1, TypeInvInit, TypeInvStep, PTL DEF Spec

----------------------------------------------------------------------------
(* FinishedAtGoal is reported only at the goal                             *)

\* Only steps of main() change what the loop keeps.
LEMMA OthersLeaveTheLoop ==
    ASSUME [Next]_vars, ~MainStep
    PROVE  UNCHANGED mainVars
<1> USE DEF mainVars
<1>1. ASSUME NEW t \in Handler, HandlerRequest(t)
      PROVE  UNCHANGED mainVars
  BY <1>1 DEF HandlerRequest, SetMode, ForceReplanning, ReestimateState, ExecuteActionDirectly
<1>2. ASSUME NEW t \in Handler, HandlerWork(t)
      PROVE  UNCHANGED mainVars
  BY <1>2 DEF HandlerWork, EndHandlerEstimate, ExecuteDirectly, AnswerDirectly
<1>3. CASE SignalHandler \/ FutureEventTriggers \/ WorldChanges
  BY <1>3 DEF SignalHandler, FutureEventTriggers, WorldChanges
<1>4. CASE UNCHANGED vars
  BY <1>4 DEF vars
<1>5. QED
  BY <1>1, <1>2, <1>3, <1>4 DEF Next, Resting

\* loop() ends with FinishedAtGoal only from the test of a monitored plan, so
\* that a torn output file cannot make it do so.
GoalInv == (pc # "done" => cpState = "Running") /\ AtGoalIsSound

\* Every step keeps it.
LEMMA GoalInvStep ==
    ASSUME GoalInv, [Next]_vars
    PROVE  GoalInv'
<1> USE DEF mainVars
<1>1. CASE UNCHANGED mainVars
  BY <1>1 DEF GoalInv, AtGoalIsSound, IsEmpty, Steps
<1>2. CASE MonitorSucceeds
  <2>1. CASE IsEmpty(currentPlan)
    <3>1. Goal \subseteq problem.facts
      BY <1>2, <2>1, EmptyPlanLeadsNowhere DEF MonitorSucceeds, MonitorAccepts
    <3>2. pc' = "done" /\ UNCHANGED <<currentPlan, problem>>
      BY <1>2, <2>1 DEF MonitorSucceeds, ProceedWith
    <3>3. QED
      BY <2>1, <3>1, <3>2 DEF GoalInv, AtGoalIsSound, IsEmpty, Steps
  <2>2. CASE ~IsEmpty(currentPlan)
    BY <1>2, <2>2 DEF MonitorSucceeds, ProceedWith, GoalInv, AtGoalIsSound
  <2>3. QED
    BY <2>1, <2>2
<1>3. CASE PlannerReturns
  <2>1. PICK p \in Solutions \cup Torn \cup {EmptyPlan} : ProceedWith(p, FALSE)
    BY <1>3, Zenon DEF PlannerReturns
  <2>2. pc = "planning" /\ cpState = "Running"
    BY <1>3 DEF PlannerReturns, GoalInv
  <2>3. QED
    BY <2>1, <2>2 DEF ProceedWith, GoalInv, AtGoalIsSound
<1>4. CASE ExecutePlan
  BY <1>1, <1>4 DEF ExecutePlan
<1>5. CASE \/ LoadPlugins \/ Startup \/ StartLoop \/ LeaveMainLoop \/ EndEstimation
           \/ ForcedToReplan
           \/ StartMonitoring \/ MonitorFails \/ FinishExecution \/ RemoveExecuted
           \/ EndRemoval \/ TestStepMode \/ PauseAfterStep
  <2>1. pc # "done" /\ cpState' = cpState
    BY <1>5 DEF LoadPlugins, LoadPlanner, LoadStateCreators,
                LoadGoalCreators, LoadActionExecutors, Load, Startup, StartLoop, LeaveMainLoop,
                EndEstimation, ForcedToReplan,
                StartMonitoring, MonitorFails, FinishExecution, RemoveExecuted, EndRemoval,
                TestStepMode, PauseAfterStep
  <2>2. QED
    BY <2>1 DEF GoalInv, AtGoalIsSound
<1>6. QED
  BY <1>1, <1>2, <1>3, <1>4, <1>5, OthersLeaveTheLoop DEF MainStep

\* FinishedAtGoal means that the goal held in the problem file that was
\* monitored and that no step was left, whatever the planner's output file was.
THEOREM AtGoalIsReal == Spec => []AtGoalIsSound
<1>1. Init => GoalInv
  BY DEF Init, GoalInv, AtGoalIsSound
<1>2. GoalInv /\ [Next]_vars => GoalInv'
  BY GoalInvStep
<1>3. GoalInv => AtGoalIsSound
  BY DEF GoalInv
<1>4. QED
  BY <1>1, <1>2, <1>3, PTL DEF Spec

----------------------------------------------------------------------------
(* The executive implements the cycle                                      *)

\* The cycle speaks of the same plans.
LEMMA CyclePlans ==
    ASSUME NEW p
    PROVE  /\ Cycle!PlanSet = PlanSet
           /\ Cycle!EmptyPlan = EmptyPlan
           /\ Cycle!Steps(p) = Steps(p)
           /\ Cycle!IsEmpty(p) <=> IsEmpty(p)
           /\ \A s, timed : /\ Cycle!LeadsToGoal(s, p, timed) <=> LeadsToGoal(s, p, timed)
                            /\ Cycle!IsExecutable(s, p, timed) <=> IsExecutable(s, p, timed)
  BY Zenon DEF Cycle!PlanSet, PlanSet, Cycle!Step, Step, Cycle!DurativeAction, DurativeAction,
         Cycle!EmptyPlan, EmptyPlan, Cycle!Steps, Steps, Cycle!IsEmpty, IsEmpty,
         Cycle!LeadsToGoal, LeadsToGoal, Cycle!IsExecutable, IsExecutable, Cycle!Progress, Progress,
         Cycle!After, After, Cycle!Arrived, Arrived, Cycle!Late, Late, Cycle!EndsWait, EndsWait,
         Cycle!Apply, Apply, Cycle!ZeroTime, ZeroTime

\* What plan() answers with leads to the goal, or can at least be executed when
\* plan.best was cut short: the beginning of a plan meets the conditions that
\* the whole plan met.
LEMMA SolutionsArePromising ==
    ASSUME TypeOK, NEW p, p \in Solutions \/ (TornPlanFile /\ p \in Torn)
    PROVE  Cycle!Promising(p)
<1>1. CASE p \in Solutions
  BY <1>1, SolutionsArePlans, CyclePlans DEF Cycle!Promising, Assessed
<1>2. CASE TornPlanFile /\ p \in Torn
  <2>1. PICK q \in Solutions, n \in Step : p = Beginning(q, n)
    BY <1>2 DEF Torn
  <2>2. IsExecutable(problem.facts, q, problem.timed)
    BY <2>1, SolutionsArePlans DEF LeadsToGoal
  <2>3. IsExecutable(problem.facts, p, problem.timed)
    BY <2>1, <2>2, BeginningIsExecutable
  <2>4. QED
    BY <1>2, <2>3, CyclePlans DEF Cycle!Promising, Assessed
<1>3. QED
  BY <1>1, <1>2

\* The program starts where the cycle starts.
LEMMA CycleStarts == Init => Cycle!CycleInit
<1>1. Cycle!EmptyPlan = EmptyPlan
  BY CyclePlans
<1>2. QED
  BY <1>1 DEF Init, Cycle!CycleInit, Phase, Acting, Assessed

\* Every step of the executive is a step of the cycle or invisible to it.
LEMMA CycleSteps ==
    ASSUME TypeInv, TypeInv', GoalInv, [Next]_vars
    PROVE  [Cycle!CycleNext]_Cycle!cycleVars
<1> USE DEF mainVars
<1> DEFINE Invisible == UNCHANGED <<Phase, Assessed, currentPlan>>
<1>a. problem' = problem => Assessed' = Assessed
  BY DEF Assessed
<1>0. Invisible => UNCHANGED Cycle!cycleVars
  BY DEF Cycle!cycleVars
<1>1. CASE UNCHANGED mainVars
  <2>1. Invisible
    BY <1>1 DEF Phase, Acting, Assessed
  <2>2. QED
    BY <1>0, <2>1
<1>2. CASE ForcedToReplan \/ StartMonitoring \/ MonitorFails
  <2>1. /\ pc \in {"estimated", "monitoring"} /\ pc' \in {"planning", "monitoring"}
        /\ currentPlan' = currentPlan
    BY <1>2 DEF ForcedToReplan, StartMonitoring, MonitorFails
  <2>2. Phase = "assessing" /\ Phase' = "assessing"
    BY <2>1 DEF Phase, Acting
  <2>3. Assessed' \in [facts : SUBSET Fact, timed : SUBSET FutureFact]
    BY DEF TypeInv, TypeOK, Assessed
  <2>4. Cycle!Assess
    BY <2>1, <2>2, <2>3 DEF Cycle!Assess
  <2>5. QED
    BY <2>4 DEF Cycle!CycleNext
<1>3. ASSUME NEW p \in PlanSet, NEW atGoal \in BOOLEAN, ProceedWith(p, atGoal),
             problem' = problem, pc \in {"monitoring", "planning"},
             IsEmpty(p) /\ atGoal => p = currentPlan /\ Goal \subseteq problem.facts,
             ~IsEmpty(p) => Cycle!Promising(p)
      PROVE  Cycle!CycleNext
  <2>1. Phase = "assessing"
    BY <1>3 DEF Phase, Acting
  <2>2. CASE ~IsEmpty(p)
    <3>1. pc' = "executing" /\ currentPlan' = p
      BY <1>3, <2>2 DEF ProceedWith
    <3>2. Phase' = "acting"
      BY <3>1 DEF Phase, Acting
    <3>3. Cycle!Act
      BY <1>a, <1>3, <2>1, <2>2, <3>1, <3>2, CyclePlans DEF Cycle!Act, Cycle!Promising
    <3>4. QED
      BY <3>3 DEF Cycle!CycleNext
  <2>3. CASE IsEmpty(p)
    <3>1. /\ pc' = "done" /\ currentPlan' = currentPlan
          /\ cpState' = IF atGoal THEN "FinishedAtGoal" ELSE "FinishedNoPlanToGoal"
      BY <1>3, <2>3 DEF ProceedWith
    <3>2. Phase' = IF atGoal THEN "atGoal" ELSE "gaveUp"
      BY <3>1 DEF Phase, Acting
    <3>3. CASE atGoal
      <4>1. Cycle!ReachGoal
        BY <1>a, <1>3, <2>1, <2>3, <3>1, <3>2, <3>3, CyclePlans DEF Cycle!ReachGoal, Assessed
      <4>2. QED
        BY <4>1 DEF Cycle!CycleNext
    <3>4. CASE ~atGoal
      <4>1. Cycle!GiveUp
        BY <1>a, <1>3, <2>1, <3>1, <3>2, <3>4 DEF Cycle!GiveUp
      <4>2. QED
        BY <4>1 DEF Cycle!CycleNext
    <3>5. QED
      BY <3>3, <3>4
  <2>4. QED
    BY <2>2, <2>3
<1>4. CASE MonitorSucceeds
  <2>1. Cycle!Promising(currentPlan) /\ (IsEmpty(currentPlan) => Goal \subseteq problem.facts)
    BY <1>4, CyclePlans, EmptyPlanLeadsNowhere
       DEF MonitorSucceeds, MonitorAccepts, Cycle!Promising, Assessed
  <2>2. /\ ProceedWith(currentPlan, IsEmpty(currentPlan)) /\ problem' = problem
        /\ pc = "monitoring" /\ currentPlan \in PlanSet /\ IsEmpty(currentPlan) \in BOOLEAN
    BY <1>4 DEF MonitorSucceeds, TypeInv, TypeOK, IsEmpty
  <2>3. QED
    BY <1>3, <2>1, <2>2
<1>5. CASE PlannerReturns
  <2>1. PICK p : /\ p \in Solutions \/ (TornPlanFile /\ p \in Torn) \/ p = EmptyPlan
                 /\ ProceedWith(p, FALSE)
    BY <1>5, Zenon DEF PlannerReturns
  <2>2. pc = "planning" /\ problem' = problem
    BY <1>5 DEF PlannerReturns
  <2>3. p \in PlanSet /\ (~IsEmpty(p) => Cycle!Promising(p))
    BY <2>1, SolutionsArePlans, SolutionsArePromising, EmptyPlanIsEmpty DEF TypeInv
  <2>4. QED
    BY <1>3, <2>1, <2>2, <2>3
<1>6. CASE RemoveExecuted
  <2>1. PICK a : currentPlan' = RemoveAction(currentPlan, a)
    BY <1>6 DEF RemoveExecuted
  <2>2. currentPlan \in PlanSet
    BY DEF TypeInv, TypeOK
  <2>3. /\ currentPlan' \in PlanSet
        /\ Steps(currentPlan') \subseteq Steps(currentPlan)
        /\ \A k \in Steps(currentPlan') : currentPlan'[k].name = currentPlan[k].name
    BY <2>1, <2>2, RemoveActionIsPlan
  <2>4. Phase = "acting" /\ Phase' = "acting" /\ problem' = problem
    BY <1>6 DEF RemoveExecuted, Phase, Acting
  <2>5. Cycle!Drop
    BY <1>a, <2>3, <2>4, CyclePlans DEF Cycle!Drop
  <2>6. QED
    BY <2>5 DEF Cycle!CycleNext
<1>7. CASE EndRemoval
  <2>1. /\ Phase = "acting" /\ Phase' = "assessing"
        /\ UNCHANGED <<problem, currentPlan>>
    BY <1>7 DEF EndRemoval, Phase, Acting
  <2>2. QED
    BY <1>a, <2>1 DEF Cycle!Reassess, Cycle!CycleNext
<1>8. CASE FinishExecution
  <2>1. Invisible
    BY <1>a, <1>8 DEF FinishExecution, Phase, Acting
  <2>2. QED
    BY <1>0, <2>1
<1>9. CASE LoadPlugins \/ Startup \/ LeaveMainLoop
  <2>1. /\ pc \in Loading \cup {"startup", "idle"}
        /\ pc' \in Loading \cup {"startup", "idle", "done"}
        /\ UNCHANGED <<cpState, problem, currentPlan>> /\ cpState = "Running"
    BY <1>9 DEF LoadPlugins, LoadPlanner, LoadStateCreators, LoadGoalCreators,
                LoadActionExecutors, Load, Loading, Startup, LeaveMainLoop, GoalInv
  <2>2. Phase = "assessing" /\ Phase' \in {"assessing", "stopped"}
    BY <2>1 DEF Phase, Acting, Loading
  <2>3. Invisible \/ Cycle!GiveUp
    BY <1>a, <2>1, <2>2 DEF Cycle!GiveUp
  <2>4. QED
    BY <1>0, <2>3 DEF Cycle!CycleNext
<1>10. CASE StartLoop \/ EndEstimation \/ TestStepMode \/ PauseAfterStep
  <2>1. /\ pc \in {"idle", "estimating", "looped", "pausing"}
        /\ pc' \in {"estimating", "estimated", "looped", "pausing", "idle"}
        /\ UNCHANGED <<problem, currentPlan>>
    BY <1>10 DEF StartLoop, EndEstimation, TestStepMode, PauseAfterStep
  <2>2. Invisible
    BY <1>a, <2>1 DEF Phase, Acting
  <2>3. QED
    BY <1>0, <2>2
<1>11. CASE ExecutePlan
  BY <1>1, <1>11 DEF ExecutePlan
<1>12. QED
  BY <1>1, <1>2, <1>4, <1>5, <1>6, <1>7, <1>8, <1>9, <1>10, <1>11, OthersLeaveTheLoop
     DEF MainStep

\* Whatever the handler threads, the action executors and the world do, the
\* loop behaves like the cycle: assess, act on a plan that leads from there to
\* the goal (or on the beginning of one, where plan.best may be cut short), drop
\* steps, and declare the goal reached only where it holds.
THEOREM ExecutiveImplementsCycle == Spec => ImplementsCycle
<1>1. TypeInv /\ TypeInv' /\ GoalInv /\ [Next]_vars => [Cycle!CycleNext]_Cycle!cycleVars
  BY CycleSteps
<1>2. GoalInv /\ [Next]_vars => GoalInv'
  BY GoalInvStep
<1>3. Init => GoalInv
  BY DEF Init, GoalInv, AtGoalIsSound
<1>4. QED
  BY <1>1, <1>2, <1>3, TypeInvInit, TypeInvStep, CycleStarts, PTL
     DEF Spec, ImplementsCycle, Cycle!CycleSpec

----------------------------------------------------------------------------
(* PAUSE and STEP                                                          *)

\* After PAUSE the mode stays PAUSE; after STEP it becomes PAUSE at the latest
\* when the loop that STEP started is back in main() and was followed by the
\* test of the mode.
CommandInv ==
    /\ pc \in Loading \cup {"startup"} => loopsSince = 0
    /\ lastCommand = "PAUSE" => mode = "PAUSE" /\ loopsSince = 0
    /\ lastCommand = "STEP" =>
          /\ mode \in {"STEP", "PAUSE"}
          /\ loopsSince \in {0, 1}
          /\ loopsSince = 1 /\ pc = "idle" => mode = "PAUSE"

\* main() starts with RUN or PAUSE, and no loop was started.
LEMMA CommandInvInit == Init => CommandInv
  BY ExecutiveAssumption DEF Init, Loading, CommandInv

\* The mode and the loops since the last command stay in step.
LEMMA CommandInvStep == TypeInv /\ CommandInv /\ [Next]_vars => CommandInv'
<1> SUFFICES ASSUME TypeInv, CommandInv, [Next]_vars
             PROVE  CommandInv'
  OBVIOUS
<1> USE DEF executorVars, mainVars, sharedVars, eventVars, historyVars
<1>0. mode \in {"RUN", "PAUSE", "STEP"} /\ loopsSince \in 0..2
  BY DEF TypeInv, TypeOK
<1>1. CASE StartLoop
  BY <1>0, <1>1 DEF StartLoop, Loading, CommandInv
<1>2. CASE TestStepMode
  BY <1>0, <1>2 DEF TestStepMode, Loading, CommandInv
<1>3. CASE PauseAfterStep
  BY <1>0, <1>3 DEF PauseAfterStep, Loading, CommandInv
<1>4. CASE LoadPlugins \/ Startup
  BY <1>4 DEF LoadPlugins, LoadPlanner, LoadStateCreators, LoadGoalCreators,
              LoadActionExecutors, Load, Loading, Startup, CommandInv
<1>5. CASE \/ LeaveMainLoop \/ EndEstimation \/ ForcedToReplan \/ StartMonitoring
           \/ MonitorSucceeds \/ MonitorFails \/ PlannerReturns \/ ExecutePlan
           \/ FinishExecution \/ RemoveExecuted \/ EndRemoval
  <2>1. /\ UNCHANGED <<mode, lastCommand, loopsSince>>
        /\ pc' \notin Loading \cup {"startup", "idle"}
    BY <1>5 DEF Loading, LeaveMainLoop, EndEstimation, ForcedToReplan, StartMonitoring,
                MonitorSucceeds, MonitorFails, PlannerReturns, ExecutePlan, FinishExecution,
                RemoveExecuted, EndRemoval, ProceedWith
  <2>2. QED
    BY <2>1 DEF Loading, CommandInv
<1>6. ASSUME NEW t \in Handler, HandlerRequest(t)
      PROVE  CommandInv'
  <2>1. CASE \E c \in {"RUN", "PAUSE", "STEP"} : SetMode(t, c)
    BY <2>1 DEF SetMode, Accept, CommandInv
  <2>2. CASE UNCHANGED <<mode, pc, lastCommand, loopsSince>>
    BY <2>2 DEF CommandInv
  <2>3. QED
    BY <1>6, <2>1, <2>2
       DEF HandlerRequest, ForceReplanning, ReestimateState, ExecuteActionDirectly
<1>7. CASE \/ \E t \in Handler : HandlerWork(t)
           \/ SignalHandler \/ FutureEventTriggers \/ WorldChanges \/ UNCHANGED vars
  <2>1. UNCHANGED <<mode, pc, lastCommand, loopsSince>>
    BY <1>7 DEF HandlerWork, EndHandlerEstimate, ExecuteDirectly, AnswerDirectly,
                SignalHandler, FutureEventTriggers, WorldChanges, vars
  <2>2. QED
    BY <2>1 DEF CommandInv
<1>8. QED
  BY <1>1, <1>2, <1>3, <1>4, <1>5, <1>6, <1>7 DEF Next, MainStep, Resting

\* PAUSE lets no further loop() start and STEP at most one, for any number of
\* handler threads and requests.
THEOREM CommandsAreLimits == Spec => []CommandsLimitLoops
<1>1. CommandInv => CommandsLimitLoops
  BY DEF CommandInv, CommandsLimitLoops
<1>2. QED
  BY <1>1, TypeInvInit, TypeInvStep, CommandInvInit, CommandInvStep, PTL DEF Spec

----------------------------------------------------------------------------
(* Removing the executed actions                                           *)

\* One turn of the loop that removes executed actions moves all steps that are
\* left by the same time: no two of them change their distance.
LEMMA RemovalMovesTogether ==
    ASSUME TypeInv, [Next]_vars, pc = "removing"
    PROVE  \A j, k \in Steps(currentPlan') :
              currentPlan'[j].startTime - currentPlan'[k].startTime
                = currentPlan[j].startTime - currentPlan[k].startTime
<1> USE DEF mainVars
<1>1. CASE RemoveExecuted
  <2>1. PICK a : currentPlan' = RemoveAction(currentPlan, a)
    BY <1>1 DEF RemoveExecuted
  <2>2. QED
    BY <2>1, RemoveActionIsPlan DEF TypeInv, TypeOK
<1>2. CASE MainStep /\ ~RemoveExecuted
  <2>1. currentPlan' = currentPlan
    BY <1>2 DEF MainStep, LoadPlugins, LoadPlanner, LoadStateCreators,
                LoadGoalCreators, LoadActionExecutors, Load, Startup, StartLoop, LeaveMainLoop,
                EndEstimation, ForcedToReplan,
                StartMonitoring, MonitorSucceeds, MonitorFails, PlannerReturns, ExecutePlan,
                FinishExecution, EndRemoval, TestStepMode, PauseAfterStep
  <2>2. QED
    BY <2>1
<1>3. CASE ~MainStep
  BY <1>3, OthersLeaveTheLoop
<1>4. QED
  BY <1>1, <1>2, <1>3

\* Erasing executed actions keeps the schedule of all the others.
THEOREM RemovalIsAShift == Spec => RemovalKeepsSchedule
<1>1. TypeInv /\ [Next]_vars =>
        [pc = "removing" =>
          \A j, k \in Steps(currentPlan') :
              currentPlan'[j].startTime - currentPlan'[k].startTime
                = currentPlan[j].startTime - currentPlan[k].startTime]_vars
  BY RemovalMovesTogether
<1>2. QED
  BY <1>1, TypeInvInit, TypeInvStep, PTL DEF Spec, RemovalKeepsSchedule
----------------------------------------------------------------------------
(* Which steps are removed when the loop ends                              *)

\* The actions of the plan of main()'s call that have been tried so far.
TriedSoFar == {call[Main].plan[x[1]] : x \in Attempts(call[Main].plan) \ call[Main].todo}
AllTried == {call[Main].plan[k] : k \in TriedSteps}

\* Inside executeBlocking, executed is what was tried, and nothing is left to
\* try when it returns.
ExecutionInv ==
    pc = "executing" =>
        /\ call[Main].plan = currentPlan
        /\ call[Main].executed = TriedSoFar
        /\ call[Main].stage \in {"sleeping", "returned"} => call[Main].todo = {}

\* While executed actions are removed: the steps that are left have kept their
\* names and their distances and were moved towards 0; those that were started
\* at 0 and are left are still to be removed; and where no name starts again at
\* once, what was not tried or is still to be removed is left.
RemovalInv ==
    pc = "removing" =>
        /\ toRemove \subseteq AllTried
        /\ Steps(currentPlan) \subseteq Steps(call[Main].plan)
        /\ \A k \in Steps(currentPlan) :
              /\ currentPlan[k].name = call[Main].plan[k].name
              /\ currentPlan[k].startTime <= call[Main].plan[k].startTime
        /\ \A j, k \in Steps(currentPlan) :
              currentPlan[j].startTime - currentPlan[k].startTime
                = call[Main].plan[j].startTime - call[Main].plan[k].startTime
        /\ \A k \in TriedSteps \cap Steps(currentPlan) :
              call[Main].plan[k].startTime = 0 => call[Main].plan[k] \in toRemove
        /\ NamesStartApart(call[Main].plan) =>
              \A k \in Steps(call[Main].plan) :
                 k \notin TriedSteps \/ call[Main].plan[k] \in toRemove => k \in Steps(currentPlan)

ScheduleInv == ExecutionInv /\ RemovalInv

\* Nothing is executed or removed at the start.
LEMMA ScheduleInvInit == Init => ScheduleInv
  BY DEF Init, ScheduleInv, ExecutionInv, RemovalInv

\* Other threads leave main()'s call alone, but that SIGINT may cancel what it
\* is running.
LEMMA OthersLeaveTheCall ==
    ASSUME TypeInv, [Next]_vars, ~MainStep
    PROVE  /\ call'[Main].plan = call[Main].plan
           /\ call'[Main].todo = call[Main].todo
           /\ call'[Main].executed = call[Main].executed
           /\ call'[Main].stage \in {"sleeping", "returned"} => call'[Main].stage = call[Main].stage
<1>0. /\ call \in [Thread -> Call] /\ Main \in Thread
      /\ \A t \in Handler : t # Main /\ t \in Thread
  BY ExecutiveAssumption DEF TypeInv, TypeOK, ExecutorTypeOK
<1>1. ASSUME NEW t \in Handler, HandlerRequest(t)
      PROVE  call'[Main] = call[Main]
  BY <1>0, <1>1 DEF HandlerRequest, SetMode, ForceReplanning, ReestimateState, ExecuteActionDirectly,
                    executorVars
<1>2. ASSUME NEW t \in Handler, HandlerWork(t)
      PROVE  call'[Main] = call[Main]
  <2>1. CASE EndHandlerEstimate(t)
    BY <1>0, <2>1 DEF EndHandlerEstimate
  <2>2. CASE ExecuteDirectly(t)
    BY <1>0, <2>2 DEF ExecuteDirectly, ExecuteBlocking, Dispatch, ActionSucceeds, ActionFails, Tried,
                      EndDispatch, WakeUp
  <2>3. CASE AnswerDirectly(t)
    BY <1>0, <2>3 DEF AnswerDirectly
  <2>4. QED
    BY <1>2, <2>1, <2>2, <2>3 DEF HandlerWork
<1>3. CASE SignalHandler
  <2>1. call'[Main] = IF CancelAction(Main)
                      THEN [call[Main] EXCEPT !.stage = "cancelled"] ELSE call[Main]
    BY <1>0, <1>3 DEF SignalHandler, Cancelled
  <2>2. QED
    BY <1>0, <2>1 DEF Call
<1>4. CASE FutureEventTriggers \/ WorldChanges \/ UNCHANGED vars
  BY <1>4 DEF FutureEventTriggers, WorldChanges, vars, executorVars
<1>5. QED
  BY <1>1, <1>2, <1>3, <1>4 DEF Next, Resting

\* The loop over a set of executed actions has a first one to take.
LEMMA FirstToRemove ==
    ASSUME NEW S \in SUBSET DurativeAction, S # {}
    PROVE  \E b \in S : \A c \in S \ {b} : Before(b, c)
<1> DEFINE names == {b.name : b \in S}
           named == {b \in S : b.name = Minimum(names)}
           starts == {b.startTime : b \in named}
<1>1. \A b \in S : /\ b.name \in Nat /\ b.startTime \in Nat /\ b.name \in names
                   /\ b = [name |-> b.name, startTime |-> b.startTime]
  <2>1. \A b \in S : b.name \in names
    OBVIOUS
  <2> HIDE DEF names, named, starts
  <2>2. Name \subseteq Nat
    BY PlanAssumption
  <2>3. ASSUME NEW b \in S
        PROVE  b.name \in Nat /\ b.startTime \in Nat /\ b = [name |-> b.name, startTime |-> b.startTime]
    <3>1. b \in [name : Name, startTime : Nat]
      BY DEF DurativeAction
    <3>2. QED
      BY <2>2, <3>1
  <2>4. QED
    BY <2>1, <2>3
<1>2. Minimum(names) \in names /\ \A b \in S : Minimum(names) <= b.name
  <2>1. names \in SUBSET Nat /\ names # {}
    BY <1>1
  <2>2. Minimum(names) \in names /\ \A n \in names : Minimum(names) <= n
    <3> HIDE DEF names
    <3>1. QED
      BY <2>1, MinimumIsLeast
  <2>3. QED
    BY <1>1, <2>2
<1>3. named # {} /\ \A b \in named : b.startTime \in starts /\ b \in S
  BY <1>2
<1>4. Minimum(starts) \in starts /\ \A b \in named : Minimum(starts) <= b.startTime
  <2>1. starts \in SUBSET Nat /\ starts # {}
    BY <1>1, <1>3
  <2>2. Minimum(starts) \in starts /\ \A n \in starts : Minimum(starts) <= n
    <3> HIDE DEF starts
    <3>1. QED
      BY <2>1, MinimumIsLeast
  <2>3. QED
    BY <1>3, <2>2
<1>5. PICK b \in S : b.name = Minimum(names) /\ b.startTime = Minimum(starts)
  BY <1>4
<1>6. ASSUME NEW c \in S \ {b}
      PROVE  Before(b, c)
  <2>1. b.name <= c.name /\ (c.name = b.name => b.startTime <= c.startTime)
    BY <1>2, <1>4, <1>5
  <2>2. c.name = b.name => c.startTime # b.startTime
    BY <1>1, <1>6
  <2> HIDE DEF names, starts
  <2>3. QED
    BY <1>1, <2>1, <2>2 DEF Before
<1>7. QED
  BY <1>6

\* A plan that loop() goes on with is executed from the start.
LEMMA ScheduleInvProceed ==
    ASSUME TypeInv, ScheduleInv, NEW p \in PlanSet, NEW atGoal, ProceedWith(p, atGoal)
    PROVE  ScheduleInv'
<1>1. CASE IsEmpty(p)
  BY <1>1 DEF ProceedWith, ScheduleInv, ExecutionInv, RemovalInv
<1>2. CASE ~IsEmpty(p)
  <2>0. call \in [Thread -> Call] /\ Main \in Thread
    BY ExecutiveAssumption DEF TypeInv, TypeOK, ExecutorTypeOK
  <2>1. pc' = "executing" /\ currentPlan' = p /\ call'[Main] = CallFor(p)
    BY <1>2, <2>0 DEF ProceedWith
  <2>2. /\ CallFor(p).plan = p /\ CallFor(p).stage = "dispatch"
        /\ CallFor(p).todo = Attempts(p) /\ CallFor(p).executed = {}
    BY DEF CallFor, IdleCall
  <2>3. TriedSoFar' = {}
    BY <2>1, <2>2 DEF TriedSoFar
  <2>4. ExecutionInv'
    BY <2>1, <2>2, <2>3 DEF ExecutionInv
  <2>5. QED
    BY <2>1, <2>4 DEF ScheduleInv, RemovalInv
<1>3. QED
  BY <1>1, <1>2

\* The next try moves from what is left to what is executed.
LEMMA TriedIsExecuted ==
    ASSUME TypeInv, call[Main].stage \in {"running", "cancelled"},
           call[Main].executed = TriedSoFar, NEW n, call' = Tried(Main, n)
    PROVE  /\ call'[Main].plan = call[Main].plan
           /\ call'[Main].stage = "dispatch"
           /\ call'[Main].executed = TriedSoFar'
<1> DEFINE P == call[Main].plan
           todo == call[Main].todo
           x0 == NextAttempt(todo)
<1>1. call \in [Thread -> Call] /\ Main \in Thread /\ call[Main] \in Call
  BY ExecutiveAssumption DEF TypeInv, TypeOK, ExecutorTypeOK
<1>2. x0 \in todo /\ todo \subseteq Attempts(P)
  <2>1. todo # {} /\ todo \subseteq Attempts(P)
    BY <1>1 DEF TypeInv, CallsArePlanned
  <2>2. todo \in SUBSET (Step \X Executor)
    BY <1>1 DEF Call
  <2>3. QED
    BY <2>1, <2>2, NextAttemptIsLeft
<1>3. /\ call'[Main].plan = P
      /\ call'[Main].stage = "dispatch"
      /\ call'[Main].todo = todo \ {x0}
      /\ call'[Main].executed = call[Main].executed \cup {P[x0[1]]}
  BY <1>1 DEF Tried, Running, Call
<1> HIDE DEF x0, P, todo
<1>4. Attempts(P) \ (todo \ {x0}) = (Attempts(P) \ todo) \cup {x0}
  BY <1>2
<1>5. TriedSoFar = {P[x[1]] : x \in Attempts(P) \ todo}
  BY DEF TriedSoFar, P, todo
<1>6. TriedSoFar' = {P[x[1]] : x \in Attempts(P) \ (todo \ {x0})}
  BY <1>3 DEF TriedSoFar, Attempts, Steps
<1>7. QED
  BY <1>3, <1>4, <1>5, <1>6 DEF P

\* main() inside executeBlocking.
LEMMA ScheduleInvExecute ==
    ASSUME TypeInv, ScheduleInv, ExecutePlan
    PROVE  ScheduleInv'
<1>1. /\ pc = "executing" /\ pc' = "executing" /\ currentPlan' = currentPlan
      /\ call \in [Thread -> Call] /\ Main \in Thread
      /\ ExecuteBlocking(Main)
  BY ExecutiveAssumption DEF ExecutePlan, mainVars, TypeInv, TypeOK, ExecutorTypeOK
<1>2. /\ call[Main].plan = currentPlan
      /\ call[Main].executed = TriedSoFar
      /\ call[Main].stage \in {"sleeping", "returned"} => call[Main].todo = {}
  BY <1>1 DEF ScheduleInv, ExecutionInv
<1>3. ExecutionInv'
  <2>1. CASE Dispatch(Main) \/ EndDispatch(Main) \/ WakeUp(Main)
    <3>1. /\ call'[Main].plan = call[Main].plan
          /\ call'[Main].todo = call[Main].todo
          /\ call'[Main].executed = call[Main].executed
          /\ call'[Main].stage \in {"sleeping", "returned"} => call[Main].todo = {}
      BY <1>1, <1>2, <2>1 DEF Dispatch, EndDispatch, WakeUp, Call
    <3>2. TriedSoFar' = TriedSoFar
      BY <3>1 DEF TriedSoFar, Attempts, Steps
    <3>3. QED
      BY <1>1, <1>2, <3>1, <3>2 DEF ExecutionInv
  <2>2. CASE ActionSucceeds(Main) \/ ActionFails(Main)
    <3>1. PICK n : call' = Tried(Main, n) /\ call[Main].stage \in {"running", "cancelled"}
      BY <2>2 DEF ActionSucceeds, ActionFails
    <3>2. /\ call'[Main].plan = call[Main].plan
          /\ call'[Main].stage = "dispatch"
          /\ call'[Main].executed = TriedSoFar'
      BY <1>2, <3>1, TriedIsExecuted
    <3>3. QED
      BY <1>1, <1>2, <3>2 DEF ExecutionInv
  <2>3. QED
    BY <1>1, <2>1, <2>2 DEF ExecuteBlocking
<1>4. QED
  BY <1>1, <1>3 DEF ScheduleInv, RemovalInv

\* loop() takes over what was executed.
LEMMA ScheduleInvFinish ==
    ASSUME TypeInv, ScheduleInv, FinishExecution
    PROVE  ScheduleInv'
<1>1. /\ pc' = "removing" /\ currentPlan' = currentPlan /\ call' = call
      /\ toRemove' = call[Main].executed
  BY DEF FinishExecution, executorVars
<1>2. /\ call[Main].plan = currentPlan
      /\ call[Main].executed = TriedSoFar /\ call[Main].todo = {}
  BY DEF FinishExecution, ScheduleInv, ExecutionInv
<1>3. TriedSoFar = AllTried
  BY <1>2 DEF TriedSoFar, AllTried, TriedSteps
<1>4. AllTried' = AllTried /\ TriedSteps' = TriedSteps
  BY <1>1 DEF AllTried, TriedSteps, Attempts, Steps
<1>5. currentPlan' = call'[Main].plan /\ toRemove' = AllTried'
  BY <1>1, <1>2, <1>3, <1>4
<1>6. \A k \in Steps(currentPlan) : currentPlan[k].startTime \in Nat
  BY DEF TypeInv, TypeOK, PlanSet, Steps, DurativeAction
<1>7. \A k \in Steps(currentPlan)' : currentPlan'[k].startTime <= call'[Main].plan[k].startTime
  BY <1>1, <1>5, <1>6 DEF Steps
<1>8. \A k \in TriedSteps' : call'[Main].plan[k] \in AllTried'
  BY <1>1, <1>4 DEF AllTried
<1>9. RemovalInv'
  BY <1>5, <1>7, <1>8 DEF RemovalInv
<1>10. QED
  BY <1>1, <1>9 DEF ScheduleInv, ExecutionInv

\* One turn of the loop that removes.  A step that was started at 0 has not
\* moved, so that it is found; and a step that is not meant can only be found
\* if it moved by no more than the start time of the one that is.
LEMMA ScheduleInvRemove ==
    ASSUME TypeInv, ScheduleInv, RemoveExecuted
    PROVE  ScheduleInv'
<1> DEFINE P == call[Main].plan
           C == currentPlan
           a == CHOOSE b \in toRemove : \A c \in toRemove \ {b} : Before(b, c)
           q == RemoveAction(C, a)
<1>1. /\ pc = "removing" /\ pc' = "removing" /\ toRemove # {} /\ call' = call
      /\ currentPlan' = q /\ toRemove' = toRemove \ {a}
  BY DEF RemoveExecuted, executorVars
<1>2. a \in toRemove
  <2>1. toRemove \in SUBSET DurativeAction
    BY DEF TypeInv, TypeOK
  <2>2. \E b \in toRemove : \A c \in toRemove \ {b} : Before(b, c)
    BY <1>1, <2>1, FirstToRemove
  <2>3. QED
    BY <2>2
<1>3. C \in PlanSet /\ P \in PlanSet
  BY ExecutiveAssumption DEF TypeInv, TypeOK, ExecutorTypeOK, Call
<1>4. /\ toRemove \subseteq AllTried
      /\ Steps(C) \subseteq Steps(P)
      /\ \A k \in Steps(C) : C[k].name = P[k].name /\ C[k].startTime <= P[k].startTime
      /\ \A j, k \in Steps(C) : C[j].startTime - C[k].startTime = P[j].startTime - P[k].startTime
      /\ \A k \in TriedSteps \cap Steps(C) : P[k].startTime = 0 => P[k] \in toRemove
      /\ NamesStartApart(P) =>
            \A k \in Steps(P) : k \notin TriedSteps \/ P[k] \in toRemove => k \in Steps(C)
  BY <1>1 DEF ScheduleInv, RemovalInv
<1> HIDE DEF P, C, a
<1>5. /\ q \in PlanSet
      /\ Steps(q) = {k \in Steps(C) : C[k] # a}
      /\ \A k \in Steps(q) : q[k].name = C[k].name
      /\ \A j, k \in Steps(q) : q[j].startTime - q[k].startTime = C[j].startTime - C[k].startTime
      /\ \A k \in Steps(q) : \E j \in Steps(q) : q[k].startTime = C[k].startTime - C[j].startTime
  BY <1>3, RemoveActionIsPlan, RemoveActionErases
<1> HIDE DEF q
<1>6. /\ \A k \in Steps(C) : C[k] \in DurativeAction /\ C[k].startTime \in Nat
      /\ \A k \in Steps(P) : P[k] \in DurativeAction /\ P[k].startTime \in Nat
      /\ \A k \in Steps(q) : q[k].startTime \in Nat
  BY <1>3, <1>5 DEF Steps, PlanSet, DurativeAction
<1>7. Steps(q) \subseteq Steps(C) /\ Steps(q) \subseteq Steps(P)
  BY <1>4, <1>5
<1>8. \A k \in Steps(q) : q[k].name = P[k].name /\ q[k].startTime <= P[k].startTime
  <2> SUFFICES ASSUME NEW k \in Steps(q)
               PROVE  q[k].name = P[k].name /\ q[k].startTime <= P[k].startTime
    OBVIOUS
  <2>1. PICK j \in Steps(q) : q[k].startTime = C[k].startTime - C[j].startTime
    BY <1>5
  <2>2. /\ C[k].startTime \in Nat /\ C[j].startTime \in Nat /\ P[k].startTime \in Nat
        /\ C[k].startTime <= P[k].startTime
    BY <1>4, <1>6, <1>7
  <2>3. q[k].startTime <= P[k].startTime
    BY <2>1, <2>2
  <2>4. QED
    BY <1>4, <1>5, <1>7, <2>3
<1>9. \A j, k \in Steps(q) : q[j].startTime - q[k].startTime = P[j].startTime - P[k].startTime
  BY <1>4, <1>5, <1>7
<1>10. \A k \in TriedSteps \cap Steps(q) : P[k].startTime = 0 => P[k] \in toRemove \ {a}
  <2> SUFFICES ASSUME NEW k \in TriedSteps \cap Steps(q), P[k].startTime = 0
               PROVE  P[k] # a
    BY <1>4, <1>7
  <2>1. /\ C[k] \in DurativeAction /\ P[k] \in DurativeAction /\ C[k].name = P[k].name
        /\ C[k].startTime \in Nat /\ C[k].startTime <= 0
    BY <1>4, <1>6, <1>7
  <2>2. C[k].startTime = 0
    BY <2>1
  <2>3. C[k] = P[k]
    BY <2>1, <2>2 DEF DurativeAction
  <2>4. QED
    BY <1>5, <2>3
<1>11. ASSUME NamesStartApart(P), NEW k \in Steps(P),
              k \notin TriedSteps \/ P[k] \in toRemove \ {a}
       PROVE  k \in Steps(q)
  <2>1. k \in Steps(C)
    BY <1>4, <1>11
  <2>2. PICK j \in TriedSteps : a = P[j]
    BY <1>2, <1>4 DEF AllTried, P
  <2>3. j \in Steps(P) /\ P[j].startTime <= ZeroTime
    BY <2>2 DEF TriedSteps, Attempts, P
  <2>4. j # k /\ j \in Steps(C)
    BY <1>2, <1>4, <1>11, <2>2, <2>3
  <2>5. ASSUME C[k] = a
        PROVE  FALSE
    <3>1. C[k].name = P[j].name /\ C[k].startTime = P[j].startTime
      BY <2>2, <2>5
    <3>2. P[k].name = P[j].name
      BY <1>4, <2>1, <3>1
    <3>3. /\ C[k].startTime \in Nat /\ C[j].startTime \in Nat
          /\ P[k].startTime \in Nat /\ P[j].startTime \in Nat
          /\ C[j].startTime <= P[j].startTime
          /\ C[k].startTime - C[j].startTime = P[k].startTime - P[j].startTime
      BY <1>4, <1>6, <2>1, <2>3, <2>4
    <3>4. P[j].startTime <= P[k].startTime /\ P[k].startTime - P[j].startTime <= ZeroTime
      BY <2>3, <3>1, <3>3 DEF ZeroTime
    <3>5. P[k].startTime - P[j].startTime > ZeroTime
      BY <1>11, <2>3, <2>4, <3>2, <3>4 DEF NamesStartApart
    <3>6. QED
      BY <3>3, <3>4, <3>5 DEF ZeroTime
  <2>6. QED
    BY <1>5, <2>1, <2>5
<1>12. /\ AllTried' = AllTried /\ TriedSteps' = TriedSteps /\ P' = P
       /\ Steps(currentPlan)' = Steps(q) /\ Steps(P)' = Steps(P)
       /\ NamesStartApart(P)' = NamesStartApart(P)
  BY <1>1 DEF AllTried, TriedSteps, Attempts, Steps, NamesStartApart, P
<1>13. toRemove' \subseteq AllTried'
  BY <1>1, <1>4, <1>12
<1>14. RemovalInv'
  BY <1>1, <1>7, <1>8, <1>9, <1>10, <1>11, <1>12, <1>13 DEF RemovalInv, P
<1>15. QED
  BY <1>1, <1>14 DEF ScheduleInv, ExecutionInv

\* Every step keeps what was tried, what is to be removed and what is left in
\* the plan in agreement.
LEMMA ScheduleInvStep ==
    ASSUME TypeInv, ScheduleInv, [Next]_vars
    PROVE  ScheduleInv'
<1>1. CASE MonitorSucceeds
  <2>1. ProceedWith(currentPlan, IsEmpty(currentPlan)) /\ currentPlan \in PlanSet
    BY <1>1 DEF MonitorSucceeds, TypeInv, TypeOK
  <2>2. QED
    BY <2>1, ScheduleInvProceed
<1>2. CASE PlannerReturns
  <2>1. PICK p \in Solutions \cup Torn \cup {EmptyPlan} : ProceedWith(p, FALSE)
    BY <1>2, Zenon DEF PlannerReturns
  <2>2. p \in PlanSet
    BY SolutionsArePlans, EmptyPlanIsEmpty DEF TypeInv
  <2>3. QED
    BY <2>1, <2>2, ScheduleInvProceed
<1>3. CASE ExecutePlan
  BY <1>3, ScheduleInvExecute
<1>4. CASE FinishExecution
  BY <1>4, ScheduleInvFinish
<1>5. CASE RemoveExecuted
  BY <1>5, ScheduleInvRemove
<1>6. CASE \/ LoadPlugins \/ Startup \/ StartLoop \/ LeaveMainLoop \/ EndEstimation
           \/ ForcedToReplan
           \/ StartMonitoring \/ MonitorFails \/ EndRemoval \/ TestStepMode \/ PauseAfterStep
  <2>1. pc' \notin {"executing", "removing"}
    BY <1>6 DEF LoadPlugins, LoadPlanner, LoadStateCreators,
                LoadGoalCreators, LoadActionExecutors, Load, Startup, StartLoop, LeaveMainLoop,
                EndEstimation, ForcedToReplan,
                StartMonitoring, MonitorFails, EndRemoval, TestStepMode, PauseAfterStep
  <2>2. QED
    BY <2>1 DEF ScheduleInv, ExecutionInv, RemovalInv
<1>7. CASE ~MainStep
  <2>1. /\ pc' = pc /\ currentPlan' = currentPlan /\ toRemove' = toRemove
    BY <1>7, OthersLeaveTheLoop DEF mainVars
  <2>2. /\ call'[Main].plan = call[Main].plan
        /\ call'[Main].todo = call[Main].todo
        /\ call'[Main].executed = call[Main].executed
        /\ call'[Main].stage \in {"sleeping", "returned"} => call'[Main].stage = call[Main].stage
    BY <1>7, OthersLeaveTheCall
  <2>3. /\ TriedSoFar' = TriedSoFar /\ AllTried' = AllTried /\ TriedSteps' = TriedSteps
        /\ NamesStartApart(call[Main].plan)' = NamesStartApart(call[Main].plan)
        /\ Steps(currentPlan)' = Steps(currentPlan)
        /\ Steps(call[Main].plan)' = Steps(call[Main].plan)
    BY <2>1, <2>2 DEF TriedSoFar, AllTried, TriedSteps, Attempts, Steps, NamesStartApart
  <2>4. ExecutionInv'
    BY <2>1, <2>2, <2>3 DEF ScheduleInv, ExecutionInv
  <2>5. RemovalInv'
    BY <2>1, <2>2, <2>3 DEF ScheduleInv, RemovalInv
  <2>6. QED
    BY <2>4, <2>5 DEF ScheduleInv
<1>8. QED
  BY <1>1, <1>2, <1>3, <1>4, <1>5, <1>6, <1>7 DEF MainStep

\* Whatever start times the planner gives, and although actions are found by
\* start times that are moved while actions are removed, no step that was
\* started at 0 is left in the plan when the removal ends.
THEOREM StartedAreGone == Spec => []StartedStepsAreRemoved
<1>1. ScheduleInv => StartedStepsAreRemoved
  BY DEF ScheduleInv, RemovalInv, StartedStepsAreRemoved
<1>2. TypeInv /\ ScheduleInv /\ [Next]_vars => ScheduleInv'
  BY ScheduleInvStep
<1>3. QED
  BY <1>1, <1>2, TypeInvInit, TypeInvStep, ScheduleInvInit, PTL DEF Spec

\* No step that was not tried is lost when executed actions are removed, unless
\* the plan starts a name again so soon that both starts count as at once.
THEOREM UntriedAreKept == Spec => []UntriedStepsStay
<1>1. ScheduleInv => UntriedStepsStay
  BY DEF ScheduleInv, RemovalInv, UntriedStepsStay
<1>2. TypeInv /\ ScheduleInv /\ [Next]_vars => ScheduleInv'
  BY ScheduleInvStep
<1>3. QED
  BY <1>1, <1>2, TypeInvInit, TypeInvStep, ScheduleInvInit, PTL DEF Spec
=============================================================================
