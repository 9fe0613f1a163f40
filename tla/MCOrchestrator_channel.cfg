CONSTANTS
    a1 = a1
    a2 = a2
    a3 = a3
    NoAgent = NoAgent
    Agents = {a1, a2, a3}
    AgentOrder <- MCAgentOrder3
    MaxMsgs = 5
    MaxSched = 0
    MaxStarts = 2
    MaxBcasts = 2

SPECIFICATION Spec

PROPERTIES
    ChannelRefinement
