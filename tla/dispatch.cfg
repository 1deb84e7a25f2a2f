SPECIFICATION FairSpec
CONSTANTS
    t1 = t1
    t2 = t2
    Tasks <- MCTasks
    Teams <- MCTeams
    Lesions = {"fetch"}
    Capability <- MCCapability
    McpCapability <- MCMcpCapability
    Policies <- MCPolicies
    Caps <- MCCaps
    max_rounds = 1
    max_retries = 2
    max_calls = 3
    max_usd = 3
    Projected = 1
    Costs <- MCCosts
    MaxBatch = 2
    MaxStages = 2
    MaxDrives = 2
INVARIANTS
    RunLatch
    CeilingsHold
PROPERTIES
    TasksEnd
