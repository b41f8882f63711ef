SPECIFICATION FairSpec
CONSTANTS
    Procs = {p1, p2}
    Projects = {r1}
    Dockerfiles = {d1}
    StaleAfter = 0
    Horizon = 2
PROPERTIES WaitEnds
CHECK_DEADLOCK FALSE
