SPECIFICATION Spec
CONSTANTS
    Var = {1, 2, 3}
    Val = {0, 1, 2}
    Op = {"walk", "ride", "announce", "deliver"}
    Duration <- MCDuration
    PrevailStart <- MCPrevailStart
    PrevailOverall <- MCPrevailOverall
    PrevailEnd <- MCPrevailEnd
    EffectStart <- MCEffectStart
    EffectEnd <- MCEffectEnd
    ModuleEffectEnd <- MCModuleEffectEnd
    Axiom <- MCAxiom
    InitialValue <- MCInitialValue
    Goal <- MCGoal
    Name <- MCName
    Gap = 0
    DisallowConcurrent = FALSE
    None = None
    TimePass = TimePass
    Anytime = TRUE
    PassOnlyWhenRunning = FALSE
    HasTimeout = TRUE
    IsDeadEnd <- MCIsDeadEnd
CHECK_DEADLOCK FALSE
INVARIANT PlanIsExecutable
INVARIANT AnswerIsFounded
INVARIANT NothingIsMissed
PROPERTY Termination
