CONSTANTS
    None = None
    Clients = {c1, c2}
    Names = {n1, n2}
    Ids = {i1, i2}
    Keys = {k1}
    Planes = {p1}
SPECIFICATION SpecOfSuccess
INVARIANT StoredWhenQuiet
