SPECIFICATION PlanFilesSpec
CONSTANTS
    Var = {1, 2, 3, 4, 5}
    Val = {0, 1, 2}
    Op = {"light", "mend", "walk", "leave", "hurry", "timed_initial"}
    Duration <- MCDuration
    PrevailStart <- MCPrevailStart
    PrevailOverall <- MCPrevailOverall
    PrevailEnd <- MCPrevailEnd
    EffectStart <- MCEffectStart
    EffectEnd <- MCEffectEnd
    ModuleEffectEnd <- MCModuleEffectEnd
    Axiom <- MCAxiom
    InitialValue <- MCInitialValue
    Goal <- MCGoal
    Name <- MCName
    Gap = 0
    DisallowConcurrent = FALSE
    INF = 1000000000
    Eps = 300
    MaxStarts = 5
    None = None
    TimedInitial = {"timed_initial"}
    EpsilonizeExternally = TRUE
    KeepOriginalPlans = TRUE
    MaxPlans = 3
    MaxFaults = 2
    DecimalPlaces = {10000, 1000, 100}
    PowersOfTen = {1, 10}
CHECK_DEADLOCK FALSE
INVARIANT DistancesAreShortest
INVARIANT OrderIsKept
INVARIANT RescheduledIsExecutable
INVARIANT BestIsLast
INVARIANT WrittenInOrder
PROPERTY PrecedenceIsKept
