--------------------------- MODULE LocalProblems ---------------------------
(***************************************************************************)
(* The local problems of the cyclic causal graph heuristic                 *)
(* (downward/search/cyclic_cg_heuristic.cpp).  Problem <<v, s>> is to      *)
(* change variable v from value s, <<0, 0>> to reach the goal.  Node       *)
(* <<v, s, x>> of it is that v has value x, transition <<v, s, x, k>> the  *)
(* k-th one from there.  A comparison has the values 0 (true) and 1.       *)
(*                                                                         *)
(* An evaluation is a record h: base_priority of each problem (-1 if it is *)
(* not initialized), the data of nodes and transitions, open_nodes, the    *)
(* waiting time and the assertion that failed.  Costs are in tenths.       *)
(***************************************************************************)
EXTENDS SearchGraphs

LOCAL INSTANCE SequencesExt

CONSTANTS
    ZeroCostWaiting,   \* cg_heuristic_zero_cost_waiting_transitions
    ModuleCost,        \* what the cost modules answer
    Eps,               \* epsSchedulingGapTime and epsTimeComparison
    Name(_, _)         \* of an operator of a task; parts of one action share it

VARIABLES
    file,     \* the task
    types,    \* g_variable_types
    graphs,   \* g_transition_graphs
    state     \* values, scheduled_effects and operators of the state that is evaluated

ASSUME HeuristicAssumption == ZeroCostWaiting \in BOOLEAN /\ ModuleCost \in Int /\ Eps \in Nat

QuiteALot == 100000000
None == <<>>

GoalConds == file.goal.goals

\* build_nodes_for_goal: one transition, under all the goals.
GoalLabel ==
    [target |-> 1, duration |-> 0, effect |-> <<>>, op |-> 0,
     precond |-> [i \in DOMAIN GoalConds |->
                     [local |-> i, var |-> GoalConds[i][1], value |-> GoalConds[i][2]]]]

\* get_local_problem: a problem for every value a variable may have.
Values(v) == IF v = 0 \/ types[v] = "comparison" THEN 0..1 ELSE 0..(file.variables[v].range - 1)
Problems ==
    {<<0, 0>>} \cup UNION {{v} \X Values(v) : v \in {w \in DOMAIN types : types[w] \in {"logical", "comparison"}}}
ProblemNodes(p) == {<<p[1], p[2], x>> : x \in Values(p[1])}
Problem(id) == <<id[1], id[2]>>

Parents(p) == IF p[1] = 0 THEN [i \in DOMAIN GoalConds |-> GoalConds[i][1]] ELSE graphs[p[1]].parents

\* The transitions that start at a node; at a comparison's, only in its start value.
Labels(n) ==
    IF n[1] = 0 THEN (IF n[3] = 0 THEN <<GoalLabel>> ELSE <<>>)
    ELSE IF types[n[1]] = "logical" THEN graphs[n[1]].outgoing[n[3]]
    ELSE IF n[3] = n[2] THEN graphs[n[1]].transitions ELSE <<>>
Transitions(n) == {<<n[1], n[2], n[3], k>> : k \in DOMAIN Labels(n)}

Source(t) == <<t[1], t[2], t[3]>>
Label(t) == Labels(Source(t))[t[4]]
IsComp(n) == n[1] # 0 /\ types[n[1]] = "comparison"

\* nodes[the_start_value - 1] is outside of the vector if the comparison is true
\* and has to become false, which no condition asks for.
Target(t) == <<t[1], t[2], IF IsComp(t) THEN t[2] - 1 ELSE Label(t).target>>

Zeros(p) == [i \in DOMAIN Parents(p) |-> 0]
FreshNode(p) ==
    [cost |-> -1, expanded |-> FALSE, opened |-> FALSE, waitFor |-> -1, reachedBy |-> None,
     pred |-> None, best |-> None, waiting |-> <<>>, context |-> Zeros(p)]
FreshTransition(t) ==
    [cost |-> 0, unreached |-> 0, satisfied |-> [i \in DOMAIN Label(t).precond |-> FALSE]]

\* CyclicCGHeuristic::initialize.
NoProblemInitialized ==
    LET nodes == UNION {ProblemNodes(p) : p \in Problems}
    IN  [base |-> [p \in Problems |-> -1], node |-> [n \in nodes |-> FreshNode(Problem(n))],
         trans |-> [t \in UNION {Transitions(n) : n \in nodes} |-> FreshTransition(t)],
         queue |-> <<>>, waiting |-> -1, abort |-> ""]

Later(a, b) == IF a < b THEN b ELSE a

\* An assertion of the code.
Check(h, holds, name) == IF holds \/ h.abort # "" THEN h ELSE [h EXCEPT !.abort = name]

\* set_waiting_time(max(get_waiting_time(), ...)).
WaitUntil(h, increment) == [h EXCEPT !.waiting = Later(@, increment - Eps)]

----------------------------------------------------------------------------
(* open_nodes: a heap of the C++ library.  Its keys change while nodes are *)
(* in it, so that the order in which they leave it depends on the heap.    *)

Priority(h, n) == h.node[n].cost + h.base[Problem(n)]

\* n moves up from the hole.
RECURSIVE SiftUp(_, _, _, _)
SiftUp(h, heap, hole, n) ==
    LET parent == hole \div 2
    IN  IF hole > 1 /\ Priority(h, n) < Priority(h, heap[parent])
        THEN SiftUp(h, [heap EXCEPT ![hole] = heap[parent]], parent, n)
        ELSE [heap EXCEPT ![hole] = n]

\* The hole moves to a leaf, then n moves up from there.
RECURSIVE SiftDown(_, _, _, _)
SiftDown(h, heap, hole, n) ==
    LET left == 2 * hole
        right == left + 1
        child == IF right <= Len(heap) /\ Priority(h, heap[right]) <= Priority(h, heap[left]) THEN right ELSE left
    IN  IF left > Len(heap) THEN SiftUp(h, heap, hole, n)
        ELSE SiftDown(h, [heap EXCEPT ![hole] = heap[child]], child, n)

AddToQueue(h, n) == [h EXCEPT !.queue = SiftUp(h, Append(@, n), Len(@) + 1, n)]

RemoveFromQueue(h) ==
    LET rest == Front(h.queue)
    IN  [h EXCEPT !.queue = IF rest = <<>> THEN rest ELSE SiftDown(h, rest, 1, Last(h.queue))]

----------------------------------------------------------------------------
(* Numbers in a context.                                                   *)

\* buildDependingVars: the terms and comparisons of the context a number is in.
DependingVars(p, i) ==
    LET successors == file.causalGraph[Parents(p)[i]]
        depending == SelectSeq(successors, LAMBDA w : types[w] \in {"comparison", "subterm"} /\ Contains(Parents(p), w))
    IN  [j \in DOMAIN depending |-> Local(Parents(p), depending[j])]

\* children_in_cg: the operands and the operator of a term or comparison.
Expression(p, i) ==
    LET v == Parents(p)[i]
    IN  [left |-> Local(Parents(p), graphs[v].left), right |-> Local(Parents(p), graphs[v].right),
         op |-> IF types[v] = "comparison" THEN graphs[v].op[1] ELSE graphs[v].op]

\* updateSubtermNumericVariables; quotients are whole numbers here.
Computed(op, left, right) ==
    CASE op = 0 -> left + right
      [] op = 1 -> left - right
      [] op = 2 -> left * right
      [] op = 3 -> IF right = 0 THEN (IF left < 0 THEN QuiteALot ELSE -QuiteALot) ELSE left \div right

\* updateComparisonVariables: with its tolerance, > is >= for whole numbers, and
\* >= always holds.  There is no # here (its case falls into an assertion).
Compared(op, left, right) ==
    LET holds == CASE op = 4 -> left < right
                   [] op = 5 -> left <= right
                   [] op = 6 -> left = right
                   [] op = 7 -> TRUE
                   [] op = 8 -> left >= right
    IN  IF holds THEN 0 ELSE 1

\* updateNumericVariablesRec: everything that depends on local variable i.
RECURSIVE UpdateNumericVariables(_, _, _)
UpdateNumericVariables(p, context, depending) ==
    IF depending = <<>> THEN context
    ELSE LET i == Head(depending)
             e == Expression(p, i)
             value == IF types[Parents(p)[i]] = "subterm" THEN Computed(e.op, context[e.left], context[e.right])
                      ELSE Compared(e.op, context[e.left], context[e.right])
         IN  UpdateNumericVariables(p,
                 IF e.left = 0 \/ e.right = 0 THEN context
                 ELSE UpdateNumericVariables(p, [context EXCEPT ![i] = value], DependingVars(p, i)),
                 Tail(depending))

\* updatePrimitiveNumericVariable.
Assigned(fop, old, operand) ==
    CASE fop = 0 -> operand
      [] fop = 1 -> old * operand
      [] fop = 2 -> IF operand = 0 THEN (IF old < 0 THEN QuiteALot ELSE -QuiteALot) ELSE old \div operand
      [] fop = 3 -> old + operand
      [] fop = 4 -> old - operand

UpdatePrimitive(p, context, fop, i, operand) ==
    UpdateNumericVariables(p, [context EXCEPT ![i] = Assigned(fop, @, context[operand])], DependingVars(p, i))

----------------------------------------------------------------------------
\* is_running, which also waits for the first of the operators of that name.
Namesakes(op) == {i \in DOMAIN state.operators : Name(file, state.operators[i].op) = Name(file, op)}
Running(op) == op # 0 /\ Namesakes(op) # {}
WaitForOperator(h, op) == WaitUntil(h, state.operators[Min(Namesakes(op))].increment)

\* The duration of transition t.  In the labels of comparisons the number of the
\* variable is a local one, of which the type is looked up as if it were global.
Duration(h, t) ==
    LET label == Label(t)
        local == IF IsComp(t) THEN label.duration ELSE Local(Parents(Problem(t)), label.duration)
    IN  IF label.duration = 0 THEN 0
        ELSE IF types[label.duration] = "costmodule" THEN ModuleCost
        ELSE 10 * h.node[Source(t)].context[local]
DirectCost(h, t) ==
    LET duration == Duration(h, t)
    IN  IF Label(t).duration # 0 /\ types[Label(t).duration] = "costmodule" THEN duration ELSE Later(0, duration)

\* Mutant: a target that is in the queue is not queued again.
TryToFireOnce(h, t) ==
    LET reached == [h EXCEPT !.node[Target(t)].cost = h.trans[t].cost,
                             !.node[Target(t)].reachedBy = t, !.node[Target(t)].pred = t]
    IN  IF h.trans[t].unreached # 0 \/ h.trans[t].cost >= h.node[Target(t)].cost THEN h
        ELSE IF Contains(h.queue, Target(t)) THEN reached ELSE AddToQueue(reached, Target(t))

\* try_to_fire.  The target may be in the queue, or expanded, already.
TryToFire(h, t) ==
    IF h.trans[t].unreached # 0 \/ h.trans[t].cost >= h.node[Target(t)].cost THEN h
    ELSE AddToQueue([h EXCEPT !.node[Target(t)].cost = h.trans[t].cost,
                              !.node[Target(t)].reachedBy = t, !.node[Target(t)].pred = t], Target(t))

\* A comparison's transition t makes it true, at this cost.
Open(h, t) ==
    [h EXCEPT !.node[Target(t)].cost = h.trans[t].cost, !.node[Target(t)].best = t,
              !.node[Target(t)].opened = TRUE, !.node[Source(t)].best = t]

\* LocalTransitionComp::on_condition_reached.  The cost may be worse than one found before.
CompConditionReached(h, t, i, cost) ==
    LET source == h.node[Source(t)]
        reached == [h EXCEPT !.trans[t].cost = @ + cost, !.trans[t].satisfied[i] = TRUE]
        paid == [reached EXCEPT !.trans[t].cost = @ + DirectCost(h, t)]
    IN  IF ~source.opened \/ source.expanded \/ h.trans[t].satisfied[i] THEN h
        ELSE IF \E j \in DOMAIN reached.trans[t].satisfied : ~reached.trans[t].satisfied[j] THEN reached
        ELSE AddToQueue(Open(paid, t), Target(t))

\* on_condition_reached: condition i of transition t has been reached at this cost.
ConditionReached(h, t, i, cost) ==
    IF IsComp(t) THEN CompConditionReached(h, t, i, cost)
    ELSE TryToFire([Check(h, h.trans[t].unreached # 0, "unreached_conditions")
                       EXCEPT !.trans[t].unreached = @ - 1, !.trans[t].cost = @ + cost], t)

\* All that wait for a node are told its cost.
RECURSIVE Tell(_, _, _)
Tell(h, waiting, n) ==
    IF waiting = <<>> THEN h
    ELSE Tell(ConditionReached(h, Head(waiting)[1], Head(waiting)[2], h.node[n].cost), Tail(waiting), n)
TellWaiting(h, n) == Tell([h EXCEPT !.node[n].waiting = <<>>], h.node[n].waiting, n)

\* The context of node n, from that of the node it was reached from.
SetConditions(context, precond) ==
    [i \in DOMAIN context |->
        IF \E k \in DOMAIN precond : precond[k].local = i
        THEN precond[Max({k \in DOMAIN precond : precond[k].local = i})].value ELSE context[i]]

RECURSIVE SetEffects(_, _, _)
SetEffects(p, context, effects) ==
    IF effects = <<>> THEN context
    ELSE LET e == Head(effects)
         IN  SetEffects(p,
                 IF types[e.var] = "logical" THEN [context EXCEPT ![e.local] = e.value]
                 ELSE UpdatePrimitive(p, context, e.fop, e.local, e.operand),
                 Tail(effects))

Reached(h, n) ==
    LET t == h.node[n].reachedBy
        parent == h.node[Source(t)]
    IN  IF t = None THEN h
        ELSE [h EXCEPT
                !.node[n].context = SetEffects(Problem(n), SetConditions(parent.context, Label(t).precond), Label(t).effect),
                !.node[n].reachedBy = IF parent.reachedBy = None THEN @ ELSE parent.reachedBy]

----------------------------------------------------------------------------
RECURSIVE InitializeProblem(_, _, _)

\* The node of the problem that condition c of a transition from n asks for, in
\* the problem that starts at the value in the context of n.
CondNode(h, n, c) == <<c.var, h.node[n].context[c.local], c.value>>
EnsureInitialized(h, p, priority) == IF h.base[p] # -1 THEN h ELSE InitializeProblem(h, p, priority)

Subscribe(h, n, t, i) == [h EXCEPT !.node[n].waiting = <<<<t, i>>>> \o @]

\* LocalTransitionDiscrete::on_source_expanded, condition i, which node n is
\* about; the problem of n is initialized.  A transition that costs too much is
\* given up.
CheckCondition(h, t, i, n) ==
    LET cond == h.node[n]
        cost == h.trans[t].cost + cond.cost
        cheap == Check(h, ~ZeroCostWaiting \/ cond.cost = 0, "waiting costs")
    IN  IF cond.waitFor # -1 THEN [h |-> WaitUntil(cheap, cond.waitFor), goOn |-> TRUE]
        ELSE IF ~cond.expanded
        THEN [h |-> Subscribe([h EXCEPT !.trans[t].unreached = @ + 1], n, t, i), goOn |-> TRUE]
        ELSE [h |-> [h EXCEPT !.trans[t].cost = cost], goOn |-> h.node[Target(t)].cost > cost]

\* From condition i on.
RECURSIVE CheckConditions(_, _, _)
CheckConditions(s, t, i) ==
    IF ~s.goOn THEN s.h
    ELSE IF i > Len(Label(t).precond) THEN TryToFire(s.h, t)
    ELSE LET c == Label(t).precond[i]
             n == CondNode(s.h, Source(t), c)
         IN  CheckConditions(
                 IF types[c.var] = "module" \/ s.h.node[Source(t)].context[c.local] = c.value THEN s
                 ELSE CheckCondition(EnsureInitialized(s.h, Problem(n), Priority(s.h, Source(t))), t, i, n),
                 t, i + 1)

SourceExpanded(h, t) ==
    LET source == h.node[Source(t)]
        sane == Check(h, source.cost >= 0 /\ source.cost < QuiteALot, "source cost")
        cost == source.cost + DirectCost(h, t)
        started == [sane EXCEPT !.trans[t].unreached = 0, !.trans[t].cost = cost]
    IN  IF Running(Label(t).op)
        THEN TryToFire(WaitForOperator([sane EXCEPT !.trans[t].unreached = 0, !.trans[t].cost = 0], Label(t).op), t)
        ELSE IF h.node[Target(t)].cost <= cost THEN started
        ELSE CheckConditions([h |-> started, goOn |-> TRUE], t, 1)

RECURSIVE SourceExpandedAll(_, _, _)
SourceExpandedAll(h, n, k) ==
    IF k > Len(Labels(n)) THEN h ELSE SourceExpandedAll(SourceExpanded(h, n \o <<k>>), n, k + 1)

ExpandDiscrete(h, n) ==
    SourceExpandedAll(TellWaiting(Reached([h EXCEPT !.node[n].expanded = TRUE], n), n), n, 1)

\* LocalProblemNodeComp::is_satiesfied, condition i, which node n is about; the
\* problem of n is initialized.  What has not been reached is subscribed to later.
SetSatisfied(h, t, i) ==
    [Check(h, ~h.trans[t].satisfied[i], "conds_satiesfied") EXCEPT !.trans[t].satisfied[i] = TRUE]
SatisfyCondition(s, t, i, n) ==
    LET cond == s.h.node[n]
    IN  IF cond.waitFor # -1 THEN [s EXCEPT !.h = SetSatisfied(WaitUntil(@, cond.waitFor), t, i)]
        ELSE IF cond.expanded
        THEN [s EXCEPT !.h = SetSatisfied([s.h EXCEPT !.trans[t].cost = @ + cond.cost], t, i)]
        ELSE [s EXCEPT !.subscribe = Append(@, <<n, t, i>>)]

\* From condition i on; conditions on modules are passed over.
RECURSIVE IsSatisfied(_, _, _)
IsSatisfied(s, t, i) ==
    IF i > Len(Label(t).precond) THEN s
    ELSE LET c == Label(t).precond[i]
             n == CondNode(s.h, Source(t), c)
         IN  IsSatisfied(
                 IF types[c.var] = "module" THEN s
                 ELSE IF s.h.node[Source(t)].context[c.local] = c.value THEN [s EXCEPT !.h = SetSatisfied(@, t, i)]
                 ELSE SatisfyCondition(
                          [s EXCEPT !.h = EnsureInitialized(@, Problem(n), Priority(@, Source(t)))], t, i, n),
                 t, i + 1)

\* check_progress_of_transition: the left side, which is the first variable of
\* the context, moves in the right direction.
MakesProgress(h, t) ==
    LET n == Source(t)
        old == h.node[n].context
        new == UpdatePrimitive(Problem(n), old, Label(t).fop, Label(t).start, Label(t).influencing)
        size(x) == Later(x, -x)
        op == graphs[n[1]].op[n[3]]
    IN  CASE op \in {4, 5} -> new[1] < old[1]
          [] op \in {7, 8} -> new[1] > old[1]
          [] op = 6 -> size(new[1]) < size(old[1])
          [] op = 9 -> new[1] # 0

\* Transition t is ready if it waits for nothing, or if its operator runs.
AddTransition(found, t, one) ==
    LET subscribed == [found EXCEPT !.h = one.h, !.subscribe = @ \o one.subscribe]
    IN  IF one.subscribe = <<>> THEN [subscribed EXCEPT !.ready = Append(@, t)]
        ELSE IF Running(Label(t).op)
        THEN [subscribed EXCEPT !.h = WaitForOperator(@, Label(t).op), !.ready = Append(@, t)]
        ELSE subscribed

\* The transitions from k on: those that are ready, and what the others wait for.
RECURSIVE ReadyTransitions(_, _, _)
ReadyTransitions(found, n, k) ==
    IF k > Len(Labels(n)) THEN found
    ELSE LET t == n \o <<k>>
         IN  ReadyTransitions(
                 IF ~MakesProgress(found.h, t) THEN found
                 ELSE AddTransition(found, t, IsSatisfied([h |-> found.h, subscribe |-> <<>>], t, 1)),
                 n, k + 1)

RECURSIVE Fire(_, _)
Fire(h, ready) ==
    IF ready = <<>> THEN h
    ELSE LET t == Head(ready)
             paid == [h EXCEPT !.trans[t].cost = @ + DirectCost(h, t)]
         IN  Fire(IF paid.trans[t].cost < h.node[Target(t)].cost THEN Open(paid, t) ELSE paid, Tail(ready))

RECURSIVE SubscribeAll(_, _)
SubscribeAll(h, list) ==
    IF list = <<>> THEN h
    ELSE SubscribeAll(Subscribe(h, Head(list)[1], Head(list)[2], Head(list)[3]), Tail(list))

\* LocalProblemNodeComp::expand: the comparison has become true by transition t.
ExpandTarget(h, t) ==
    TellWaiting([h EXCEPT !.node[Source(t)].expanded = TRUE, !.node[Target(t)].expanded = TRUE,
                          !.node[Target(t)].reachedBy = t, !.node[Target(t)].pred = t], Target(t))

\* What is ready fires, and the best transition is queued.
QueueBest(h, n) == AddToQueue(Check(h, h.node[n].best # None, "bestTransition"), Target(h.node[n].best))
FireReady(found, n) ==
    SubscribeAll(IF found.ready = <<>> THEN found.h ELSE QueueBest(Fire(found.h, found.ready), n), found.subscribe)

ExpandComp(h, n) ==
    IF ~h.node[n].opened
    THEN FireReady(ReadyTransitions([h |-> [h EXCEPT !.node[n].opened = TRUE], ready |-> <<>>, subscribe |-> <<>>],
                                    n, 1), n)
    ELSE IF h.node[n].best = None THEN h ELSE ExpandTarget(h, h.node[n].best)

OnExpand(h, n) == IF IsComp(n) THEN ExpandComp(h, n) ELSE ExpandDiscrete(h, n)

----------------------------------------------------------------------------
StateContext(p) == [i \in DOMAIN Parents(p) |-> state.value[Parents(p)[i]]]

\* Mutant: waiting costs the time until the effect.
RECURSIVE ExpandScheduledAtCost(_, _, _)
ExpandScheduledAtCost(h, p, i) ==
    IF i > Len(state.effects) THEN h
    ELSE LET e == state.effects[i]
             n == <<p[1], p[2], e.post>>
         IN  ExpandScheduledAtCost(
                 IF e.var # p[1] THEN h
                 ELSE ExpandDiscrete([h EXCEPT !.node[n].cost = e.increment,
                                               !.node[n].waitFor = e.increment, !.node[n].context = StateContext(p)], n),
                 p, i + 1)

\* The effects that are scheduled on the variable of problem p, from the i-th on:
\* their values will be reached by waiting, and are expanded at once.
RECURSIVE ExpandScheduled(_, _, _)
ExpandScheduled(h, p, i) ==
    IF i > Len(state.effects) THEN h
    ELSE LET e == state.effects[i]
             n == <<p[1], p[2], e.post>>
         IN  ExpandScheduled(
                 IF e.var # p[1] THEN h
                 ELSE ExpandDiscrete([h EXCEPT !.node[n].cost = IF ZeroCostWaiting THEN 0 ELSE e.increment,
                                               !.node[n].waitFor = e.increment, !.node[n].context = StateContext(p)], n),
                 p, i + 1)

\* Mutant: the waiting lists are not cleared.
ResetNodesKeepWaiting(h, p) ==
    [n \in DOMAIN h.node |->
        IF Problem(n) # p THEN h.node[n]
        ELSE [FreshNode(p) EXCEPT !.cost = IF n[3] = p[2] THEN 0 ELSE QuiteALot,
                                  !.waiting = h.node[n].waiting,
                                  !.context = IF n[3] = p[2] THEN StateContext(p) ELSE h.node[n].context]]

\* The nodes of a problem when it starts: all but the first cost too much.  Those
\* of a logical variable that is not the start keep the context of an earlier
\* evaluation, as does the other node of a comparison.
ResetNodes(h, p) ==
    [n \in DOMAIN h.node |->
        IF Problem(n) # p THEN h.node[n]
        ELSE [FreshNode(p) EXCEPT !.cost = IF n[3] = p[2] THEN 0 ELSE QuiteALot,
                                  !.context = IF n[3] = p[2] THEN StateContext(p) ELSE h.node[n].context]]

ResetTransitions(h, p) ==
    [t \in DOMAIN h.trans |-> IF Problem(t) = p /\ IsComp(t) THEN FreshTransition(t) ELSE h.trans[t]]

\* initialize, of both kinds of problems.
InitializeProblem(h, p, priority) ==
    LET start == p \o <<p[2]>>
        reset == [h EXCEPT !.base[p] = priority, !.node = ResetNodes(h, p), !.trans = ResetTransitions(h, p)]
    IN  IF IsComp(p) THEN AddToQueue(reset, start) ELSE ExpandScheduled(AddToQueue(reset, start), p, 1)
=============================================================================
