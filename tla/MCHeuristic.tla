---------------------------- MODULE MCHeuristic ----------------------------
(***************************************************************************)
(* The robot's tasks as preprocess writes them, and states in which up to  *)
(* two operators run.                                                      *)
(***************************************************************************)
EXTENDS CyclicCGHeuristic

LOCAL INSTANCE SequencesExt
Robot == INSTANCE RobotTasks
Pre == INSTANCE PreprocessOutput
Task == INSTANCE PreprocessTask

Preprocessed(sas) ==
    LET read == Task!ReadProblem(sas)
        weights == Pre!WeightedGraph(read)
        necessary == Pre!ImportantVars(read, weights)
        ordering == Pre!Ordering(read, necessary, TRUE)
        task == Task!Strip(read, Pre!Levels(read, ordering))
    IN  Pre!Output(task, ordering, weights, Pre!BuildDTGs(task, ordering, necessary),
                   Pre!BuildGenerator(task, ordering))

\* With derived variables 12 and 13 that hold for each other, but also unless
\* the robot is ready.
Extended(sas) ==
    [sas EXCEPT !.variables = @ \o <<[range |-> 2, layer |-> 3], [range |-> 2, layer |-> 3]>>,
                !.initial = @ \o <<0, 0>>,
                !.rules = <<[conditions |-> <<<<4, 0>>, <<3, 1>>>>, effect |-> 12, old |-> 0, new |-> 1],
                            [conditions |-> <<<<12, 1>>>>, effect |-> 13, old |-> 0, new |-> 1],
                            [conditions |-> <<<<13, 1>>>>, effect |-> 12, old |-> 0, new |-> 1]>> \o @]

MCTask(numbers, goal) == Preprocessed(Extended(Robot!File(Robot!Chosen(numbers), goal)))

\* The door may be forced, or unlatched and slid, which is faster: the cost of a value
\* falls while it is in the queue.  There are two operators for the robot's return.
Force == Robot!Operator(6, <<>>, <<>>, <<>>, <<>>, <<Robot!Set(2, 1, 0)>>)
Unlatch == Robot!Operator(7, <<>>, <<>>, <<>>, <<>>, <<Robot!Set(2, 1, 2)>>)
Slide == Robot!Operator(7, <<>>, <<>>, <<>>, <<>>, <<Robot!Set(2, 2, 0)>>)
MCTwoWays ==
    Preprocessed(Extended(Robot!File(Robot!Chosen({2, 3}) \o <<Force, Unlatch, Slide>>, <<<<2, 0>>, <<1, 0>>>>)))

\* Operators that take as long and change the same are parts of one action.
MCName(task, o) ==
    LET op == task.operators[o]
    IN  <<op.duration, {<<e.var, e.post>> : e \in ToSet(op.start.prePost \o op.end.prePost)}>>

MCTasks ==
    {MCTwoWays, MCTask({1, 3, 5}, <<<<1, 1>>>>), MCTask({1, 4, 5, 7}, <<<<4, 1>>, <<1, 0>>>>),
     MCTask({2, 5, 6}, <<<<13, 1>>, <<1, 0>>>>), MCTask({1, 2, 7}, <<<<3, 1>>, <<1, 0>>>>)}
MCNoModules ==
    {MCTask({2, 5, 6}, <<<<13, 1>>, <<1, 0>>>>), MCTask({4, 5, 7}, <<<<4, 1>>, <<1, 0>>>>),
     MCTask({3, 5, 7}, <<<<3, 1>>, <<1, 0>>>>), MCTask({4, 6, 7}, <<<<3, 1>>, <<2, 1>>>>)}

MCConfigurations == (MCTasks \X {"CEA"}) \cup (MCNoModules \X {"SUFFIX_MAKESPAN"})

----------------------------------------------------------------------------
Complete(task, value) == EvaluateAxioms(task, VariableTypes(task), value)

\* Values of the variables operators change; numbers as they are, or 1 or 4 less.
BaseValues(task, x) ==
    LET type == VariableTypes(task)[x]
        initial == task.state[x]
        changed == \E o \in ToSet(task.operators) :
                      \E e \in ToSet(o.start.numerical \o o.end.numerical) : e.var = x
    IN  IF type = "logical" /\ task.variables[x].layer = -1 THEN 0..(task.variables[x].range - 1)
        ELSE IF changed THEN {initial, initial - 1, initial - 4} ELSE {initial}

RECURSIVE Combined(_, _)
Combined(task, value) ==
    LET x == Len(value) + 1
    IN  IF x > Len(task.variables) THEN {value}
        ELSE UNION {Combined(task, Append(value, w)) : w \in BaseValues(task, x)}

MCStates(task) == {[value |-> Complete(task, value), operators |-> <<>>, effects |-> <<>>] : value \in Combined(task, <<>>)}

Startable(task, s, o) ==
    /\ \A c \in ToSet(task.operators[o].prevailStart) :
          VariableTypes(task)[c[1]] = "module" \/ s.value[c[1]] = c[2]
    /\ \A e \in ToSet(task.operators[o].start.prePost) : e.pre \in {-1, s.value[e.var]}
    /\ \A r \in ToSet(s.operators) : MCName(task, r.op) # MCName(task, o)

Earlier(a, b) == a.increment < b.increment \/ (a.increment = b.increment /\ a.var < b.var)

\* s when operator o has run for some time.
Started(task, s, o, elapsed) ==
    LET op == task.operators[o]
        time == (IF VariableTypes(task)[op.duration] = "costmodule" THEN ModuleCost ELSE 10 * s.value[op.duration]) - elapsed
        first(x) == {e \in ToSet(op.start.prePost) : e.var = x}
        value == [x \in DOMAIN s.value |-> IF first(x) = {} THEN s.value[x] ELSE (CHOOSE e \in first(x) : TRUE).post]
        effects == [i \in DOMAIN op.end.prePost |->
                       [var |-> op.end.prePost[i].var, post |-> op.end.prePost[i].post, increment |-> time]]
    IN  [value |-> Complete(task, value), operators |-> Append(s.operators, [op |-> o, increment |-> time]),
         effects |-> SortSeq(s.effects \o effects, Earlier)]

\* s when time has passed to the next end of an operator.
Passed(task, s) ==
    LET dt == Min({r.increment : r \in ToSet(s.operators)})
        due(x) == {i \in DOMAIN s.effects : s.effects[i].increment <= dt /\ s.effects[i].var = x}
        value == [x \in DOMAIN s.value |-> IF due(x) = {} THEN s.value[x] ELSE s.effects[Max(due(x))].post]
        later(list) == SelectSeq([i \in DOMAIN list |-> [list[i] EXCEPT !.increment = @ - dt]],
                                 LAMBDA y : y.increment > 0)
    IN  [value |-> Complete(task, value), operators |-> later(s.operators), effects |-> later(s.effects)]

MCSuccessors(task, s) ==
    {Started(task, s, o, elapsed) : o \in {p \in DOMAIN task.operators : Len(s.operators) < 2 /\ Startable(task, s, p)},
                                    elapsed \in {0, 5}}
        \cup (IF s.operators = <<>> THEN {} ELSE {Passed(task, s)})
=============================================================================
