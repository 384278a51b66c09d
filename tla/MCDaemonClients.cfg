CONSTANTS
    None = None
    Users = {u1, u2}
    Keys = {k1}
    Types = {p}
    Threads = {t1, t2}
    Programs = {}
SPECIFICATION Spec
SYMMETRY Symmetry
VIEW SpawnView
CONSTRAINT SomethingAtStake
INVARIANTS TypeOK SpawnReported
