CONSTANTS
    None = None
    Signals = {s1, s2}
    Clients = {c1}
SPECIFICATION Spec
INVARIANTS TypeOK StopNotForgotten
PROPERTIES EarlyStopNeverServes StopHonoured StoppersEnd ReadRequestsAnswered
