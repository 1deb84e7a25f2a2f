---------------------------- MODULE MCDialectic ----------------------------
(* A small instance of Dialectic: theses of one and of two tokens, one of  *)
(* them without a claim, and every way an oracle is resolved.              *)
EXTENDS Dialectic

MCTheses == {[text |-> {"a"}, claim |-> "c1"], [text |-> {"a", "b"}, claim |-> "c2"],
             [text |-> {"b"}, claim |-> None]}
MCSetups == {[exact |-> "code", wildcard |-> "judge", sandboxed |-> FALSE],
             [exact |-> None, wildcard |-> "code", sandboxed |-> TRUE],
             [exact |-> None, wildcard |-> None, sandboxed |-> FALSE]}
MCCosts == {1}

=============================================================================
