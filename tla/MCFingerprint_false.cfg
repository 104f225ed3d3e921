\* Every pair of calls over one atom.
SPECIFICATION Spec
CONSTANTS
    f1 = f1  g1 = g1  v1 = v1  v2 = v2  a1 = a1  a2 = a2
    Function = {f1, g1}
    Keyed = {g1}
    Version = {v1, v2}
    Atom = {a1}
    NoCall = NoCall
INVARIANTS
    NoFalseHit
CHECK_DEADLOCK FALSE
