SPECIFICATION FairSpec
CONSTANTS
    MAX_CYCLES = 3
    Theses <- MCTheses
    Setups <- MCSetups
    Costs <- MCCosts
    Projected = 1
    max_usd = 13
    Cycle_usd = 2
    max_attempts = 2
    MaxFaults = 2
INVARIANTS
    HonestConclusion
    EvidenceAgrees
PROPERTIES
    Concludes
CHECK_DEADLOCK FALSE
