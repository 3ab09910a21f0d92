SPECIFICATION Spec
CONSTANTS
    Procs = {p1, p2, p3}
    Healths = {h1}
    Cycles = {c1, c2}
SYMMETRY Symmetry
INVARIANTS
    AtMostOnce
    ChainValid
