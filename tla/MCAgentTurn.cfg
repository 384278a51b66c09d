CONSTANTS
    None = None
    Turns = {t1, t2}
    MaxIterations = 3
    MaxCalls = 2
SPECIFICATION Spec
VIEW View
INVARIANTS TypeOK RequestsWellFormed ToolsReported StatusSettles
PROPERTIES StatusTruthful EveryTurnEnds
