CONSTANTS
    Names = {n1, n2}
    Addrs = {a1, a2}
    Procs = {p1, p2, p3}
    Absent = Absent
SPECIFICATION FairSpec
INVARIANTS TypeOK KeysAreLeased RenewedIsRegistered
PROPERTY StoppedLeaves
CHECK_DEADLOCK FALSE
