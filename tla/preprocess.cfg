SPECIFICATION Spec
CONSTANTS
    Files <- MCFiles
CHECK_DEADLOCK FALSE
INVARIANT PruningIsClosed
INVARIANT EveryChangeHasATransition
INVARIANT GeneratorFindsApplicable
