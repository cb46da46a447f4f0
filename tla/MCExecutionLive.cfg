SPECIFICATION Spec
CONSTANTS
    r1 = r1
    b1 = b1
    b2 = b2
    r2 = r2
    NoRun = NoRun
    NoBinding = NoBinding
    NoExecutor = NoExecutor
    RunIds <- MCRunIds
    Bindings <- MCBindings
    Owner <- MCOwner
    WriteGrants <- MCWriteGrants
    WallLimit <- MCWallLimit
    MaxTtl = 3
    MaxEpoch = 9
    Wide = TRUE
    ProvisionTtl = 2
    Executors = {e1}
    LeaseTtl = 3
    RenewEvery = 1
    SetupBound = 1
    MaxOps = 2
    MaxCrashes = 1
    MaxOutOfBand = 0
INVARIANT PromptKeepsLease
PROPERTIES LeaseLossHandled WallBudgetEnforced
