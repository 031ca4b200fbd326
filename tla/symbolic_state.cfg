SPECIFICATION Spec
CONSTANTS
    Type = {a, b, c}
    a = a
    b = b
    c = c
    Object = {o1, o2}
    o1 = o1
    o2 = o2
    None = None
    Predicate = {"on", "cost"}
    Numerical = {"cost"}
    Fluent = {"at"}
    Parameters <- MCParameters
    Value = {true, false}
    true = true
    False = false
    Number = {1234564, 1234567, 1234580}
    Goals <- MCGoals
    Event = {"e"}
    EventSets <- MCEventSets
    EventAssigns <- MCEventAssigns
    MaxDeclared = 2
    MaxAdded = 2
    MaxSaid = 2
INVARIANT SuperTypesAreClosure
INVARIANT ObjectsFollowTypes
INVARIANT ProblemDeclaresObjects
INVARIANT GoalCheckIsSound
INVARIANT OnlyLeftBehindAreUnknown
PROPERTY CallsReturn
