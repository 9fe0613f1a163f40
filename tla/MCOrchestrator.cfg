CONSTANTS
    a1 = a1
    a2 = a2
    a3 = a3
    NoAgent = NoAgent
    Agents = {a1, a2}
    AgentOrder <- MCAgentOrder
    MaxMsgs = 3
    MaxSched = 2
    MaxStarts = 2
    MaxBcasts = 1

SPECIFICATION Spec

INVARIANTS
    TypeOK
    MessageConservation
    RunningMeansExecuting
    StoppedIsQuiescent

PROPERTIES
    FailedNeverRedispatched
    MessagesEventuallyHandled
    ScheduleEventuallyPopped
