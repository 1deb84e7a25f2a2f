---------------------------- MODULE MCProcedural ----------------------------
(* Small instances of Procedural: two stages that may be tried on two      *)
(* problem types, and two processes that project.                          *)
EXTENDS Procedural, TLC

CONSTANTS r1, r2, u1, u2

MCRuns == {r1, r2}
MCProjectors == {u1, u2}
MCStages == {1, 2}
MCTypes == {1, 2}

\* both processes run the same code: stage 1 is declared, stage 2 is not
SameCode == {[u \in MCProjectors |-> {<<1, 1>>}]}
\* a policy whose bound one success clears, so that the floor of two decides; two
\* successes clear it against one failure
MCThreshold == <<4, 10>>
MCQuantile == <<1, 4>>

Symmetric == Permutations(MCRuns) \cup Permutations(MCProjectors)

=============================================================================
