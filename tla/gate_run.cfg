SPECIFICATION Spec
CONSTANTS
    converter_families = {"f3", "f4"}
    ArmLabels <- MCLabels
    n_clean_planned = 80
    R = 1
    spec_variance = 28
    look_budget_max = 2
    MaxStratum = 4
    ModelArms <- MCModelArms
    Scenarios <- MCScenarios
    Answers <- MCAnswers
    Leaky = {"s3"}
    MaxCalls = 4
CHECK_DEADLOCK FALSE
INVARIANTS
    KillsCostTwo
    LooksBounded
    PassIsEarned
    CorpusSound
PROPERTIES
    RerunReplays
    RunsEnd
