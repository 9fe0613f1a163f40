CONSTANTS
    t1 = t1
    t2 = t2
    ty = ty
    Tenants <- MCTenants
    AgentTypes <- MCAgentTypes
    MaxStores = 3
    MaxAgents = 2
    MaxIsolates = 2
    MaxHandles = 2
SPECIFICATION Spec
PROPERTY
    ContextResetOnLiveIsolate
