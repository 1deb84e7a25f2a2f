---------------------------- MODULE MCProjection ----------------------------
(* Small instances of Projection: two runs, one of them with rows from     *)
(* before the commit_xid migration.                                        *)
EXTENDS Projection

R(i, s) == [run |-> i, step |-> s]

MCRuns == {1, 2}
\* run 2 wrote a control step and a result, run 1 a result, before the migration
MCLegacy == {R(1, 0), R(2, 0)}
MCRelevant == {R(1, 1), R(2, 0)}
MCPoisons == {{}, {R(1, 1)}}
\* an ICU collation may order "a" before "B", which bytes do not
Swapped == [r \in MCRuns |-> 3 - r]
MCCollations == {Bytewise, Swapped}
MCKinds == {"trials", "episodes", "claims", "evidence"}
MCSolo == {"claims", "evidence"}

=============================================================================
