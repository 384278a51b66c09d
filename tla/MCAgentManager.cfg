CONSTANTS
    None = None
    Clients = {c1, c2}
    Names = {n1, n2}
    Ids = {i1, i2}
    Keys = {k1}
    Planes = {p1}
SPECIFICATION Spec
SYMMETRY Symmetry
CONSTRAINT SomeDocumentUndisturbed
INVARIANTS TypeOK AgentsAgree KeysAgree RefusesOnlyForCause
PROPERTY NoReplacement
