SPECIFICATION Spec
CONSTANTS
    u1 = u1
    u2 = u2
    ChannelOrder <- MCOrder
    Ranking <- MCRanking
    Similar <- MCSimilar
    k = 2
    k_rrf = 60
    Count <- MCCount
    Callers <- MCCallers
    Requests <- MCRequests
    Claims <- MCClaims
    Episodes <- MCEpisodes
    Latents <- MCLatents
    returns_status = TRUE
    hot_first = TRUE
    hot_capacity = 1
    min_per_kind = 1
    token_budget = 8
    MaxChanges = 2
SYMMETRY Symmetric
CHECK_DEADLOCK FALSE
INVARIANTS
    WithinBudget
    DefeatedLeftOut
    UsesCounted
