SPECIFICATION Spec
CONSTANTS
    Procs = {p1, p2}
    Projects = {r1}
    Dockerfiles = {d1, d2}
    StaleAfter = 0
    Horizon = 2
SYMMETRY Symmetry
INVARIANTS TypeOK CacheSound ResultBuilt
CHECK_DEADLOCK FALSE
