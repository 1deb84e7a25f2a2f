SPECIFICATION FairSpec
CONSTANTS
    Runs <- MCRuns
    MaxStep = 1
    Legacy <- MCLegacy
    Relevant <- MCRelevant
    Poisons <- MCPoisons
    Collations <- MCCollations
    Kinds <- MCKinds
    Tickers = {t1, t2}
    Solo <- MCSolo
    batch_limit = 1
    MaxAborts = 1
INVARIANTS
    NothingSkipped
    CountedOnce
    MirrorAfterClaims
    PoisonStops
PROPERTIES
    CursorAdvances
    AllProjected
