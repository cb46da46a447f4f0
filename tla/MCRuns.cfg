SPECIFICATION Spec
CONSTANTS
    RunIds = {r1, r2, r3}
    NoRun = NoRun
    MaxTime = 1
    MaxSeq = 2
    MaxTokens = 1
SYMMETRY Symmetry
INVARIANTS TypeOK DepthTerminates
CHECK_DEADLOCK FALSE
