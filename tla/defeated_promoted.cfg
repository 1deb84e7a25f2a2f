SPECIFICATION Spec
CONSTANTS
    alice = alice
    a = a
    b = b
    c = c
    s1 = s1
    s2 = s2
    nobody = nobody
    Subjects <- MCSubjects
    Contents <- MCContents
    Sources = {s1, s2}
    Nobody = nobody
    Statements <- MCStatements
    Comparable <- MCComparable
    OnePredicate <- MCOnePredicate
    Since <- MCSince
    Level0 <- MCLevel0
    Ruled <- MCRuled
    min_sources = 2
    Configs <- MCConfigs
    MaxWrites = 4
    MaxFailures = 0
INVARIANTS
    OnlyActivePromoted
CHECK_DEADLOCK FALSE
