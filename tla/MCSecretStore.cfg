CONSTANTS
    None = None
    Clients = {c1, c2}
    Keys = {k1, k2}
    Secrets = {s1, s2}
SPECIFICATION Spec
SYMMETRY Symmetry
INVARIANTS TypeOK FileIntact  
 
