SPECIFICATION Spec
CONSTANTS
    r1 = r1
    b1 = b1
    b2 = b2
    r2 = r2
    NoRun = NoRun
    NoBinding = NoBinding
    NoExecutor = NoExecutor
    RunIds <- MCRunIds
    Bindings <- MCBindings
    Owner <- MCOwner
    WriteGrants <- MCWriteGrants
    WallLimit <- MCWallLimit
    MaxTtl = 3
    MaxEpoch = 9
    Wide = FALSE
    ProvisionTtl = 1
    Executors = {e1, e2}
    LeaseTtl = 1
    RenewEvery = 1
    SetupBound = 0
    MaxOps = 1
    MaxCrashes = 0
    MaxOutOfBand = 1
SYMMETRY Symmetry
INVARIANT ExecutionInv
PROPERTIES ImplementsLeases
