SPECIFICATION LiveSpec
CONSTANTS
    Executors = {e1, e2}
    Writers = {w1}
    Keys = {1, 2}
    OldKeys = {1}
    MaxRetries = 2
    MaxFaults = 2
CHECK_DEADLOCK FALSE
INVARIANTS DeletionInv DestructionIsFinal NothingLeftBehind
PROPERTIES FrozenStays ClaimsEnd
