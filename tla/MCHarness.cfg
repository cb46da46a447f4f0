SPECIFICATION Spec
CONSTANTS
    c1 = c1
    a1 = a1
    a2 = a2
    Channels = {c1}
    Agents = {a1, a2}
    Events <- MCEvents
    CreatedAt <- MCCreatedAt
    ChannelOf <- SameChannel
    MaxPending = 1
    MaxBatch = 1
    MaxRetries = 1
    Threshold = 2
    Handlings = {"steer", "owner-interrupt"}
    Dedups = {"queue", "drop"}
    Leavable = {c1}
    MaxFaults = 3
    NoEvent = NoEvent
    NoTask = NoTask
    Heartbeat = Heartbeat
INVARIANTS HarnessInv OnlyMergedLost DeliveredOnce RetryBudget SlotsExclusive
SYMMETRY Slots
