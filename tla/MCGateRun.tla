----------------------------- MODULE MCGateRun ------------------------------
(* Small instances of GateRun.                                             *)
EXTENDS GateRun

Roster(mode, planter, panel, adversary, d_prime) ==
    [mode |-> mode, arm |-> "f1", planter |-> planter, panel |-> panel,
     adversary |-> adversary, d_prime |-> d_prime]
OneFamily == Roster("bring-up", "", <<>>, "", "")
OneFamilyBinding == Roster("binding", "", <<>>, "", "")
Clashing == Roster("binding", "f2", <<"f3", "f3">>, "f4", "f5")
Sound == Roster("binding", "f2", <<"f3">>, "f4", "f5")

BringUp(seed, settings) == [seed |-> seed, audited |-> FALSE, settings |-> settings]
Audited(seed) == [seed |-> seed, audited |-> TRUE, settings |-> Sound]

Planted(id, sibling, isError, stamp, verdict, votes, regime) ==
    [id |-> id, sibling |-> sibling, isError |-> isError, stamp |-> stamp, family |-> "f2",
     probe |-> stamp = "operators" /\ verdict # "caught", claim |-> FALSE, verdict |-> verdict, tests |-> <<>>,
     votes |-> votes, breaker |-> "error", regime |-> regime, derived |-> "r1",
     audit |-> "confirm"]
Err(id, sibling, stamp, verdict, regime) ==
    Planted(id, sibling, TRUE, stamp, verdict, <<"error", "error">>, regime)
Clean(id, sibling, verdict, votes) ==
    Planted(id, sibling, FALSE, "operators", verdict, votes, "")
Agreed == <<"clean", "clean">>

\* Four errors the oracle does not see; two lose their clean siblings.
Genuine == {Err(1, 11, "llm", "holds", "r1"), Err(2, 12, "llm", "noise", "r2"),
            Err(3, 13, "llm", "holds", "r3"), Err(4, 14, "llm", "holds", "r4"),
            Clean(11, 1, "holds", Agreed), Clean(12, 2, "noise", Agreed),
            Clean(13, 3, "caught", Agreed), Clean(14, 4, "noise", <<"clean", "error">>)}

\* One such error, one that was converted and missed later, two probes.
Candidate == [onError |-> "caught", onClean |-> "holds", stable |-> TRUE, later |-> "holds"]
Mixed == {Err(5, 15, "llm", "holds", "r1"),
          [Err(6, 16, "llm", "caught", "r2") EXCEPT
              !.tests = <<[Candidate EXCEPT !.stable = FALSE], Candidate>>],
          Err(7, 17, "operators", "holds", "r3"), Err(8, 18, "operators", "noise", "r4"),
          Clean(15, 5, "holds", Agreed), Clean(16, 6, "holds", Agreed),
          Clean(17, 7, "noise", <<"clean", "abstain">>), Clean(18, 8, "caught", Agreed)}

\* One pair.
Pair == {Err(21, 22, "operators", "holds", "r1"), Clean(22, 21, "holds", Agreed)}

\* Pairs for the labels alone: every stratum, vote and verdict; then every
\* audit and conversion.
Labelled(stamp, v, w, r, votes, b, audit, tests) ==
    {[Err(31, 32, stamp, v, r) EXCEPT !.votes = votes, !.audit = audit, !.tests = tests],
     [Clean(32, 31, w, votes) EXCEPT !.breaker = b]}
Stamps == {"operators", "llm"}
Verdicts == {"caught", "holds", "noise"}
Kept == <<"error", "error">>
AnyPair ==
    {Labelled(stamp, v, w, "r1", votes, b, "confirm", <<>>) :
        stamp \in Stamps, v \in Verdicts, w \in Verdicts, b \in {"clean", "abstain"},
        votes \in {Kept, <<"clean", "error">>, Agreed, <<"error", "abstain">>}}
    \cup
    {Labelled(stamp, v, "holds", r, Kept, "clean", audit, tests) :
        stamp \in Stamps, v \in Verdicts, r \in {"r1", "r2"},
        audit \in {"confirm", "abstain", "r3"},
        tests \in {<<>>, <<Candidate>>, <<[Candidate EXCEPT !.later = "caught"]>>}}
    \cup
    {{[i EXCEPT !.claim = TRUE] : i \in Pair}, {[i EXCEPT !.votes = <<"error">>] : i \in Pair}}

Scenario(items, designs, max_usd, most) ==
    [items |-> items, designs |-> designs, max_usd |-> max_usd, kills |-> most]
MCScenarios ==
    {Scenario(Pair, {BringUp("s1", OneFamily)}, 4, 2),
     Scenario(Genuine, {Audited("s1"), Audited("s2")}, 20, 0),
     Scenario(Mixed, {Audited("s1"), Audited("s3")}, 20, 0),
     Scenario(Pair, {BringUp("s1", OneFamily), BringUp("s1", Sound), BringUp("s2", Clashing), BringUp("s3", OneFamilyBinding)}, 6, 0)}
    \cup {Scenario(p, {Audited("s1"), BringUp("s1", OneFamily)}, 0, 0) : p \in AnyPair}

\* B flags nothing, C the even clean items; what is left open is what the
\* verdict turns on.
MCAnswers(arm, id) ==
    CASE arm = "B" -> {FALSE}
      [] arm = "C" -> IF id \in {5, 21} THEN BOOLEAN ELSE {id \in {12, 16}}
      [] OTHER -> IF id \in {1, 5, 11, 21} THEN BOOLEAN ELSE {id < 10}

MCLabels == <<"A", "B", "C", "D", "PC">>
MCModelArms == <<"D", "C", "B">>

=============================================================================
