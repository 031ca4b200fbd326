SPECIFICATION Spec
CONSTANT Tasks <- MCTasks
CHECK_DEADLOCK FALSE
INVARIANT ModelIsComplete
INVARIANT DerivedAsDefined
INVARIANT OperatorsAsDefined
INVARIANT EndsAsConstrained
