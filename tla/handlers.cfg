SPECIFICATION Spec
CONSTANTS
    Main = Main
    Handler = {h1}
    Thread = {Main, h1}
    None = None
    h1 = h1
    Name = {1, 2}
    MaxSteps = 2
    Fact = {"prepared", "delivered"}
    Goal = {"delivered"}
    Pre <- MCPre
    Add <- MCAdd
    Del <- MCDel
    StartTimes = {0}
    FutureFact = {}
    Executor = {1, 2}
    CanExecute <- MCCanExecuteSome
    ServiceExecutor = {2}
    Modes = {"RUN", "PAUSE"}
    DirectActions <- MCDirectActions
    MaxCommands = 2
    MaxFaults = 1
    TornPlanFile = TRUE
INVARIANT CommandsLimitLoops
PROPERTY ImplementsCycle
PROPERTY ShutdownEnds
