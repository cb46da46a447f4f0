SPECIFICATION SagaSpec
CONSTANTS
    r1 = r1
    r2 = r2
    k1 = k1
    k2 = k2
    NoRun = NoRun
    RunIds <- MCRunIds
    Keys <- MCKeys
    Worktrees <- MCWorktrees
    Retried = {r1}
    Ttl = 1
    Calls = {c1, c2}
    MaxFaults = 1
    MaxOthers = 2
SYMMETRY Symmetry
INVARIANTS SagaInv ReadyIsProvisioned FailedIsWalkedBack
PROPERTIES ReturnSettles
CHECK_DEADLOCK FALSE
VIEW View
