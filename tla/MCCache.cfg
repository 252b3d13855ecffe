CONSTANTS
    Keys = {k1, k2}
    Threads = {t1, t2}
    Timeout = 2
    Delay = 1
    MaxTime = 5
    Absent = Absent
SPECIFICATION Spec
SYMMETRY Symmetry
INVARIANTS TypeOK ListMatchesMap HitsAreFresh
CHECK_DEADLOCK FALSE
