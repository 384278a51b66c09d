CONSTANTS
    None = None
    Users = {u1}
    Keys = {k1}
    Types = {p, q}
    Threads = {t1, t2}
    Programs = {"talk", "ui"}
SPECIFICATION FairSpec
VIEW KeysView
INVARIANT ChosenTypeUsed
PROPERTY CallsReturn
