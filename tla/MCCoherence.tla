---------------------------- MODULE MCCoherence -----------------------------
(* A small instance of Coherence: three claims an agent may make of one    *)
(* subject, any two of which may contradict each other.                    *)
EXTENDS Coherence

CONSTANTS alice, a, b, c, s1, s2, nobody

MCSubjects == {alice}
MCContents == {a, b, c}
MCComparable == {{a, b}, {b, c}, {a, c}}
MCOnePredicate == {{a, b}}
\* b updates a
MCSince == [x \in MCContents |-> IF x = b THEN 1 ELSE 0]
MCLevel0 == [x \in MCContents |-> IF x = a THEN 1 ELSE 0]
MCRuled == {a}


Agent(x) == [key |-> [scope |-> "agent", subject |-> alice], content |-> x]
World(x) == [key |-> [scope |-> "world", subject |-> alice], content |-> x]
MCStatements ==
    {[claim |-> Agent(x), source |-> s1] : x \in MCContents}
        \cup {[claim |-> Agent(a), source |-> s2], [claim |-> World(a), source |-> s2]}

Setup(store, conflicts, batch, claimed, muses, attempts) ==
    [store |-> store, conflicts |-> conflicts, batch_limit |-> batch,
     max_claims |-> claimed, max_mus |-> muses, max_attempts |-> attempts]

Pairs == {{a, b}, {b, c}}
MCConfigs == {Setup("neo4j", Pairs, 2, 3, 2, 2),
              Setup("memory", Pairs, 2, 3, 2, 2),
              \* the rounds run out before the conflicts do
              Setup("memory", Pairs, 2, 3, 1, 2),
              \* one claim contradicts itself; a subject may be too large
              Setup("neo4j", {{a, b}, {c}}, 1, 2, 1, 1),
              \* three claims, any two of which agree
              Setup("memory", {{a, b, c}}, 1, 3, 2, 2)}

=============================================================================
