CONSTANTS
    Clients = {c1, c2}
    Users = {u1}
    Names = {n1, n2}
    Paths = {p1}
    MaxRole = 2
    MaxResource = 1
    None = None
SPECIFICATION Spec
SYMMETRY Symmetry
INVARIANTS TypeOK ServicesAreOwned
PROPERTY OwnArguments
