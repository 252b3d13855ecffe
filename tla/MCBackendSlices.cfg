CONSTANTS
    Names = {n1}
    Addrs = {a1, a2, a3}
    Requests = {r1}
    Arrays = {h1, h2, h3}
    MaxLen = 3
    Absent = Absent
SPECIFICATION Spec
SYMMETRY Symmetry
INVARIANT TypeOK
INVARIANT SliceInv
PROPERTY ImplementsTable
