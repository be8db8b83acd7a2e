SPECIFICATION MCFairSpec
CONSTANTS
    r1 = r1
    r2 = r2
    i1 = i1
    i2 = i2
    Items = 3
    RouteOrder <- MCRouteOrder
    Unnamed = {}
    Workers = 2
    Slots = 1
    MaxRetries = 1
    MaxReasks = 1
    Cap = 2
    Usages = {1}
    Inputs = {i1, i2}
    NoInputs = NoInputs
    MaxRestarts = 1
INVARIANTS TypeOK FailsAsSequential OvershootBounded StepsAreCurrent
PROPERTIES BatchEnds
CHECK_DEADLOCK FALSE
