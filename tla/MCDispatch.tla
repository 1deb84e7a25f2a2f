----------------------------- MODULE MCDispatch -----------------------------
(* A small instance of Dispatch: one capability of every kind the gate     *)
(* tells apart, two of them native, one from an MCP server.                *)
EXTENDS Dispatch

Kind(tier, untrusted, irreversible) ==
    [tier |-> tier, untrusted |-> untrusted, trusted |-> FALSE, irreversible |-> irreversible]

MCCapability == [fetch |-> Kind("read", TRUE, FALSE), wipe |-> Kind("write", FALSE, TRUE)]
MCMcpCapability == [send |-> Kind("external", TRUE, FALSE)]
MCPolicies == {[tiers |-> Tiers, drops |-> TRUE], [tiers |-> {"read", "write"}, drops |-> TRUE]}
MCCaps == [structured : {FALSE}, tools : BOOLEAN]
MCCosts == {1, 2}

CONSTANTS t1, t2
MCTasks == {t1, t2}
Both(a, b) == [t \in MCTasks |-> IF t = t1 THEN a ELSE b]
MCTeams == [{t1} -> {"loop", "structured", "approved"}]
               \cup {Both("loop", "dispatch"), Both("structured", "structured")}

=============================================================================
