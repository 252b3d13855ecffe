CONSTANTS
    Tasks = {t1, t2}
    p1 = p1
    Project <- SameProject
    Nodes = 2
    Home = Home
    Nowhere = Nowhere
    Nobody = Nobody
SPECIFICATION TaskSpec
SYMMETRY Symmetry
INVARIANT SuccessMeansInstalled
CHECK_DEADLOCK FALSE
