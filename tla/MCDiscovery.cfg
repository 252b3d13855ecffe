CONSTANTS
    Names = {n1}
    Addrs = {a1, a2}
    Procs = {p1, p2}
    Absent = Absent
SPECIFICATION FairSpec
INVARIANTS TypeOK TableOK AgreesWithEtcd
PROPERTY Converges
CHECK_DEADLOCK FALSE
