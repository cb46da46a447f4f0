SPECIFICATION EvidenceSpec
CONSTANTS
    Writers = {stdout, stderr, main}
    MaxChunks = 2
    MaxFailures = 1
INVARIANTS EvidenceInv ReaderMissesNothing
PROPERTY EverythingShown
CHECK_DEADLOCK FALSE
