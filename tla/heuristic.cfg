SPECIFICATION Spec
CONSTANTS
    ZeroCostWaiting = TRUE
    ModuleCost = 20
    Eps = 1
    Name <- MCName
    Configurations <- MCConfigurations
    States <- MCStates
    Successors <- MCSuccessors
    Rounds = 3
CHECK_DEADLOCK FALSE
INVARIANT DerivedValuesAreFounded
INVARIANT NothingAborts
PROPERTY CostsAreFinal
