SPECIFICATION TxSpec
CONSTANTS
    RunIds = {r1}
    NoRun = NoRun
    Clients = {c1, c2}
    NoClient = NoClient
    MaxTime = 1
    MaxSeq = 5
    MaxTokens = 1
SYMMETRY Symmetry
INVARIANTS TxInv AuditChain
PROPERTIES ImplementsRuns WallClockFixed
CHECK_DEADLOCK FALSE
