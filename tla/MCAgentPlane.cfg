CONSTANTS
    None = None
    Turns = {t1}
    MaxIterations = 2
    MaxCalls = 1
SPECIFICATION Spec
INVARIANT ActionPlaneNeverFailsTurn
