SPECIFICATION Spec
CONSTANTS
    Main = Main
    Handler = {}
    Thread = {Main}
    None = None
    Name = {1, 2, 3}
    MaxSteps = 3
    Fact = {"prepared", "delivered", "possible"}
    Goal = {"delivered"}
    Pre <- MCPre
    Add <- MCAdd
    Del <- MCDel
    StartTimes = {0, 1, 5000}
    FutureFact = {"possible"}
    Executor = {1, 2}
    CanExecute <- MCCanExecuteSome
    ServiceExecutor = {}
    Modes = {"RUN"}
    DirectActions = {}
    MaxCommands = 0
    MaxFaults = 1
    TornPlanFile = TRUE
INVARIANT AtGoalIsSound
INVARIANT StartedStepsAreRemoved
INVARIANT UntriedStepsStay
PROPERTY Termination
PROPERTY ReachesGoal
