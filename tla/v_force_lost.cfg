SPECIFICATION Spec
CONSTANTS
    Main = Main
    Handler = {h1}
    Thread = {Main, h1}
    None = None
    h1 = h1
    Name = {1, 2}
    MaxSteps = 2
    Fact = {"prepared", "delivered"}
    Goal = {"delivered"}
    Pre <- MCPre
    Add <- MCAdd
    Del <- MCDel
    StartTimes = {0}
    FutureFact = {}
    Executor = {1}
    CanExecute <- MCCanExecuteAll
    ServiceExecutor = {}
    Modes = {"RUN"}
    DirectActions = {}
    MaxCommands = 1
    MaxFaults = 0
    TornPlanFile = FALSE
PROPERTY ForceIsHonoured
