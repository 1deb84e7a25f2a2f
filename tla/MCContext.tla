------------------------------ MODULE MCContext -----------------------------
(* Small instances of Context: two calls over two claims, an episode and   *)
(* two latent rows.                                                        *)
EXTENDS Context, TLC

CONSTANTS u1, u2

MCCallers == {u1, u2}
MCClaims == {1, 2}
MCEpisodes == {1}
MCLatents == {1, 2}
MCOrder == <<"dense.claims", "bm25.claims", "graph.claims", "temporal.episodes", "dense.latent">>
MCRanking == [c \in ToSet(MCOrder) |-> CASE c = "dense.claims" -> <<1, 2>>
                                         [] c = "temporal.episodes" -> <<1>>
                                         [] c = "dense.latent" -> <<2, 1>>
                                         [] OTHER -> <<2, 1>>]
MCSimilar == {2}

\* lengths in characters; a quarter of them is the number of tokens, at least one
Size(p) == CASE p.of \in {"memory:start", "memory:end"} -> 2
             [] p.of = "chunk" -> 8
             [] p.of = "personality" -> 6
             [] OTHER -> 4
MCCount(text) ==
    LET n == FoldLeft(LAMBDA a, p : a + Size(p) + 1, 0, text)
    IN  IF n < 8 THEN 1 ELSE n \div 4

Ask(sections, tools, serves, budget) ==
    [sections |-> sections, tools |-> tools, serves |-> serves, total_budget |-> budget]

MCRequests == {
    Ask({"rules", "instructions"}, <<>>, {"dense.claims", "dense.latent"}, 12),
    Ask({"rules", "personality"}, <<"t1", "t2">>, {"bm25.claims", "graph.claims"}, 11),
    Ask({"rules"}, <<>>, {"temporal.episodes"}, 6),
    Ask({"rules"}, <<"t1">>, {}, 2)}

Symmetric == Permutations(MCCallers)

=============================================================================
