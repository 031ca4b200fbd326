SPECIFICATION Spec
CONSTANTS
    Var = {1, 2, 3, 4, 5}
    Val = {0, 1}
    Op = {"light", "mend", "walk"}
    Duration <- MCDuration
    PrevailStart <- MCPrevailStart
    PrevailOverall <- MCPrevailOverall
    PrevailEnd <- MCPrevailEnd
    EffectStart <- MCEffectStart
    EffectEnd <- MCEffectEnd
    ModuleEffectEnd <- MCModuleEffectEnd
    Axiom <- MCAxiom
    InitialValue <- MCInitialValue
    Goal <- MCGoal
    Name <- MCName
    Gap = 0
    DisallowConcurrent = FALSE
    MaxTime = 12
CHECK_DEADLOCK FALSE
INVARIANT OverAllIsKept
INVARIANT CanBeCompleted
INVARIANT OperatorsKeepPending
INVARIANT PendingFollowsOperators
INVARIANT MonitorConfirmsSearch
PROPERTY ImplementsActions
