\* Shutdown() racing a dispatch: is COMPLETED terminal?
CONSTANTS
    a1 = a1
    a2 = a2
    a3 = a3
    NoAgent = NoAgent
    Agents = {a1}
    AgentOrder <- MCAgentOrder1
    MaxMsgs = 0
    MaxSched = 1
    MaxStarts = 1
    MaxBcasts = 0

SPECIFICATION Spec

PROPERTIES
    CompletedIsTerminal
