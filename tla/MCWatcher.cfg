CONSTANTS
    p1 = p1
    p2 = p2
    Names = {n1}
    Hosts = {h1, h2}
    Ports = {t1, t2}
    Procs <- MCProcs
    Version <- MCVersion
    Absent = Absent
SPECIFICATION FairSpec
INVARIANTS TypeOK InstallStopsRegistered AskedOncePerVersion
PROPERTY ConvergesOnServing
CHECK_DEADLOCK FALSE
