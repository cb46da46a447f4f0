SPECIFICATION LiveSpec
CONSTANTS
    c1 = c1
    a1 = a1
    a2 = a2
    Channels = {c1}
    Agents = {a1}
    Events <- MCEvents
    CreatedAt <- MCCreatedAt
    ChannelOf <- SameChannel
    MaxPending = 2
    MaxBatch = 2
    MaxRetries = 1
    Threshold = 2
    Handlings = {"steer"}
    Dedups = {"queue"}
    Leavable = {}
    MaxFaults = 1
    NoEvent = NoEvent
    NoTask = NoTask
    Heartbeat = Heartbeat
 
PROPERTY EventuallySettled
