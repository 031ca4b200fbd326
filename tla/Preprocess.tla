----------------------------- MODULE Preprocess -----------------------------
(***************************************************************************)
(* preprocess (downward/preprocess/planner.cpp): from the task of the      *)
(* translator it makes the input of the search, the causal graph, domain   *)
(* transition graphs and successor generator included.                     *)
(***************************************************************************)
EXTENDS PreprocessOutput

CONSTANT Files   \* the outputs of the translator

ASSUME FilesAssumption == \A sas \in Files : WellFormed(sas)

VARIABLES
    stage,       \* what main() has done
    task,        \* variables, operators, axioms, goals, initial_state
    prune,       \* not g_do_not_prune_variables
    graph,       \* the weights of causal_graph
    necessary,   \* the variables that matter
    ordering,    \* the variables that are kept, in order
    graphs,      \* transition_graphs
    generator,   \* successor_generator
    output       \* what the search reads

vars == <<stage, task, prune, graph, necessary, ordering, graphs, generator, output>>

Init ==
    /\ stage = "read"
    /\ task \in {ReadProblem(sas) : sas \in Files}
    /\ prune \in BOOLEAN
    /\ graph = <<>>
    /\ necessary = {}
    /\ ordering = <<>>
    /\ graphs = <<>>
    /\ generator = <<>>
    /\ output = <<>>

BuildCausalGraph ==
    /\ stage = "read"
    /\ stage' = "causal graph"
    /\ graph' = WeightedGraph(task)
    /\ necessary' = ImportantVars(task, graph')
    /\ ordering' = Ordering(task, necessary', prune)
    /\ UNCHANGED <<task, prune, graphs, generator, output>>

Level == Levels(task, ordering)

StripTask ==
    /\ stage = "causal graph"
    /\ stage' = "stripped"
    /\ task' = Strip(task, Level)
    /\ UNCHANGED <<prune, graph, necessary, ordering, graphs, generator, output>>

BuildTransitionGraphs ==
    /\ stage = "stripped"
    /\ stage' = "transition graphs"
    /\ graphs' = BuildDTGs(task, ordering, necessary)
    /\ UNCHANGED <<task, prune, graph, necessary, ordering, generator, output>>

BuildSuccessorGenerator ==
    /\ stage = "transition graphs"
    /\ stage' = "generator"
    /\ generator' = BuildGenerator(task, ordering)
    /\ UNCHANGED <<task, prune, graph, necessary, ordering, graphs, output>>

----------------------------------------------------------------------------
Prevails(o) == o.prevail.start \o o.prevail.overall \o o.prevail.end

\* The assertion in write_prevails.
PrevailsAreKept == \A o \in ToSet(task.operators) : \A c \in ToSet(Prevails(o)) : Level[c[1]] # 0

\* The expression of a variable that nothing needs was never set, if that
\* variable is kept all the same: its operands are wild pointers.
RelationsAreSet == \A k \in DOMAIN graphs : graphs[k].kind = "subterm" => graphs[k].relation # <<>>

\* The output is written.
WriteOutput ==
    /\ stage = "generator"
    /\ PrevailsAreKept
    /\ stage' = "written"
    /\ output' = Output(task, ordering, graph, graphs, generator)
    /\ UNCHANGED <<task, prune, graph, necessary, ordering, graphs, generator>>

\* Half of the output is written when an assertion fails or a wild pointer is followed.
Abort ==
    /\ stage = "generator"
    /\ ~PrevailsAreKept \/ ~RelationsAreSet
    /\ stage' = "aborted"
    /\ UNCHANGED <<task, prune, graph, necessary, ordering, graphs, generator, output>>

Next == BuildCausalGraph \/ StripTask \/ BuildTransitionGraphs \/ BuildSuccessorGenerator
            \/ WriteOutput \/ Abort

Spec == Init /\ [][Next]_vars

----------------------------------------------------------------------------
(* Properties.                                                             *)

Effects(o) == o.start.prePost \o o.end.prePost
NumEffects(o) == o.start.numerical \o o.end.numerical
WhenVars(e) == ToSet(VarsOf(e.when.start) \o VarsOf(e.when.overall) \o VarsOf(e.when.end))
Kept == ToSet(ordering)
Stripped == stage \notin {"read", "causal graph"}

\* What is left of the task speaks of kept variables only (calculate_important_vars,
\* strip_operators): the operators that still change a variable ask for, and
\* change, kept variables under conditions on kept ones; nothing that can change
\* a kept variable has been thrown away with its condition.  The search would
\* read the variable number -1.
PruningIsClosed ==
    Stripped =>
        /\ \A o \in ToSet(task.operators) :
              /\ o.duration \in Kept
              /\ Effects(o) # <<>> \/ NumEffects(o) # <<>> =>
                    ToSet(VarsOf(Prevails(o))) \subseteq Kept
              /\ \A e \in ToSet(Effects(o)) : {e.var} \cup WhenVars(e) \subseteq Kept
              /\ \A e \in ToSet(NumEffects(o)) : {e.var, e.operand} \cup WhenVars(e) \subseteq Kept
        /\ \A a \in ToSet(task.relational) : {a.effect} \cup ToSet(VarsOf(a.conditions)) \subseteq Kept
        /\ \A a \in ToSet(task.functional) : {a.effect, a.left, a.right} \subseteq Kept
        /\ \A g \in ToSet(task.goal) : g[1] \in Kept

\* Operator o changes variable x at most once at start and once at end.
ChangesOnce(o, x) ==
    \A effects \in {o.start.prePost, o.end.prePost} : \A i, j \in DOMAIN effects :
        effects[i].var = x /\ effects[j].var = x => i = j

\* What such an operator can do to x: pairs of an old and a new value.
Possible(o, x) ==
    LET start == {e \in ToSet(o.start.prePost) : e.var = x}
        end == {e \in ToSet(o.end.prePost) : e.var = x}
        values == 0..(task.variables[x].range - 1)
        from(e) == IF e.pre = AnyValue THEN values ELSE {e.pre}
        first == IF start # {} THEN start ELSE end
        last == IF end # {} THEN end ELSE start
    IN  {p \in values \X values : /\ p[1] # p[2]
                                  /\ \E e \in first : p[1] \in from(e)
                                  /\ \E e \in last : p[2] = e.post}

\* The facts a transition of x by operator o may ask for.
Grounds(o, x) ==
    LET effects == ToSet(Effects(o))
    IN  ToSet(Prevails(o))
           \cup {<<e.var, e.pre>> : e \in {f \in effects : f.var # x}}
           \cup UNION {ToSet(e.when.start \o e.when.overall \o e.when.end) : e \in {f \in effects : f.var = x}}

\* No change is lost (build_DTGs, finalize): whatever an operator can do to a
\* symbolic variable with one effect at start and one at end, the graph has a
\* transition from the same value to the same value, of the same duration, that
\* asks for nothing the operator does not ask for, although the two effects were
\* compressed into one and dominated transitions left out.
EveryChangeHasATransition ==
    graphs # <<>> =>
    \A k \in DOMAIN ordering : graphs[k].kind = "symbolic" =>
        \A o \in {q \in ToSet(task.operators) : ChangesOnce(q, ordering[k])} :
        \A change \in Possible(o, ordering[k]) :
            \E a \in ToSet(graphs[k].vertices[change[1] + 1]) :
                /\ a.target = change[2]
                /\ a.duration = o.duration
                /\ CondSet(a) \subseteq Grounds(o, ordering[k])

Switchable(x) == ~task.variables[x].functional /\ ~task.variables[x].module

\* The values of the variables; 0 and 1 will do, as far as a variable has them.
Assignments == {value \in [DOMAIN task.variables -> 0..1] :
                   \A x \in DOMAIN value : Switchable(x) => value[x] < task.variables[x].range}
Holds(conds, value) == \A c \in ToSet(conds) : value[c[1]] = c[2]

\* The conditions at start of operator o.
AtStart(o) ==
    LET changes == OnlyAt(o.start.prePost, {i \in DOMAIN o.start.prePost : o.start.prePost[i].pre # AnyValue})
    IN  o.prevail.start \o [i \in DOMAIN changes |-> <<changes[i].var, changes[i].pre>>]

\* In a state with these values the decision tree yields each operator whose
\* conditions at start hold, none twice, and, where all of those are on kept
\* variables that can be switched on and on no variable twice, no other one.
FindsApplicable(value) ==
    LET found == GenerateApplicableOps(generator, value)
    IN  /\ IsInjective(found)
        /\ \A i \in DOMAIN task.operators :
              LET conds == AtStart(task.operators[i])
              IN  /\ Holds(conds, value) => i \in ToSet(found)
                  /\ /\ \A c \in ToSet(conds) : Switchable(c[1]) /\ c[1] \in Kept
                     /\ IsInjective(VarsOf(conds))
                     => (i \in ToSet(found) => Holds(conds, value))

\* The decision tree finds the operators that can start (construct_recursive),
\* in every state.
GeneratorFindsApplicable ==
    stage \in {"generator", "written"} => \A value \in Assignments : FindsApplicable(value)

\* The assertion of write_prevails, operator.cpp:350: whatever is left of the
\* operators has conditions on kept variables only.
NothingAborts == prune => stage # "aborted"
=============================================================================
