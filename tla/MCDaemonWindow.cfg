CONSTANTS
    None = None
    Signals = {s1}
    Clients = {c1}
SPECIFICATION Spec
PROPERTY StopAlwaysHonoured
