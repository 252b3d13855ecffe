CONSTANTS
    Clients = {c1, run}
    Run = run
    Conns = {g1, g2, g3, g4, g5}
    maxRetry = 3
    Nil = Nil
SPECIFICATION FairSpec
INVARIANTS DBTypeOK Coherent SteadyCallsSucceed
PROPERTIES CallsReturn Recovers
