SPECIFICATION Spec
CONSTANTS
    r1 = r1
    r2 = r2
    u1 = u1
    u2 = u2
    Runs <- MCRuns
    Stages <- MCStages
    ProblemTypes <- MCTypes
    Projectors <- MCProjectors
    Deployments <- SameCode
    min_trials = 2
    Threshold <- MCThreshold
    Quantile <- MCQuantile
    limit = 1
    batch_limit = 2
    MaxLog = 3
    MaxStrays = 1
SYMMETRY Symmetric
CHECK_DEADLOCK FALSE
INVARIANTS
    PosteriorIsJournal
    Parity
