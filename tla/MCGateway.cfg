CONSTANTS
    r1 = r1
    r2 = r2
    r3 = r3
    e1 = e1
    Requests <- MCRequests
    Entries <- MCEntries
    EntryOf <- MCEntryOf
    NoEntry = NoEntry
    Modulus = 4
    MaxCalls = 2
    maxRetry = 2
    MayDie = TRUE
SPECIFICATION GatewayFair
INVARIANTS TypeOK GatewayTypeOK Conserved LaterRequestsDiffer CountedOnce
PROPERTY Flushed
