------------------------------ MODULE Scoring -------------------------------
(***************************************************************************)
(* The verdict of the gate over a locked corpus and its cells: the         *)
(* instruments of eval/lock.py, the binding pool and the tiers of          *)
(* score_gate.                                                             *)
(*                                                                         *)
(* `cells` says of every <<item id, arm>> whether the arm flagged the      *)
(* item, in one trial.  The ends of a bootstrap interval are those of the  *)
(* resampling distribution itself, over every draw, which the code samples *)
(* n_outer times.  The permutation test is abstracted to whether it        *)
(* refuses.  Fractions are compared by multiplying out.                    *)
(***************************************************************************)
EXTENDS Integers, FiniteSets, SequencesExt

CONSTANTS
    ArmLabels,          \* the arms of the artifact, in the order of their labels
    n_clean_planned, R, \* the planning constants
    spec_variance,      \* sigma_sq_b_spec_planning, in thousandths
    look_budget_max,
    MaxStratum          \* bound: the items of a stratum

Of(corpus, stratum) == {i \in corpus : i.stratum = stratum}
Flagged(cells, items, arm) == {i \in items : cells[<<i.id, arm>>]}

-----------------------------------------------------------------------------
(* The instruments. *)

arm_a_floor(corpus, cells) ==
    LET K == Of(corpus, "K")
        clean == Of(corpus, "clean")
        false == Cardinality(Flagged(cells, clean, "A"))
    IN  /\ K # {} /\ clean # {}
        /\ Flagged(cells, K, "A") = {}
        /\ false * R * n_clean_planned <= 2 * Cardinality(clean)

spec_ceiling(corpus, cells) ==
    LET n == Cardinality(Of(corpus, "clean"))
        false == Cardinality(Flagged(cells, Of(corpus, "clean"), "C"))
    IN  /\ n > 0
        /\ false * R * n_clean_planned > 2 * n
        /\ 2000 * false * (n - false) >= spec_variance * n * n

\* The arm that catches most of the error stratum, the first label on a tie.
arm_a_of_error(corpus, cells) ==
    LET sens(n) == Cardinality(Flagged(cells, Of(corpus, "K"), ArmLabels[n]))
    IN  ArmLabels[CHOOSE n \in DOMAIN ArmLabels :
                    \A m \in DOMAIN ArmLabels :
                        sens(m) < sens(n) \/ (sens(m) = sens(n) /\ n <= m)]

\* No regime carries more than 30 % of what `arm` catches.
spread(corpus, cells, arm) ==
    LET named == {i \in Of(corpus, "K") : i.regime # ""}
        caught == Flagged(cells, named, arm)
    IN  /\ caught # {}
        /\ \A r \in {i.regime : i \in caught} :
              100 * Cardinality({i \in caught : i.regime = r}) <= 30 * Cardinality(caught)

regime_contribution(corpus, cells) ==
    LET K == Of(corpus, "K")
    IN  /\ K # {}
        /\ 100 * Cardinality({i \in K : i.regime = ""}) <= 15 * Cardinality(K)
        /\ spread(corpus, cells, arm_a_of_error(corpus, cells))

-----------------------------------------------------------------------------
(* The binding comparison. *)

\* Fault: the converted and the probe items count.
WholeKPool(corpus) == Of(corpus, "K")

binding_k_pool(corpus) == {i \in Of(corpus, "K") : ~i.converted /\ ~i.detk}

\* The draws of n items out of n, with replacement.
Draws(n) == [1..n -> 1..n]

\* What a draw comes to when the first g items gain and the last l lose.
total(d, n, g, l) == Cardinality({x \in 1..n : d[x] <= g}) - Cardinality({x \in 1..n : d[x] > n - l})

\* How many draws come to k.
resampled ==
    [n \in 0..MaxStratum |-> [g \in 0..n |-> [l \in 0..n |-> [k \in -n..n |->
        Cardinality({d \in Draws(n) : k = total(d, n, g, l)})]]]]

\* f[-n] + ... + f[n].
Mass(f, n) ==
    LET upTo[m \in 0..2 * n + 1] == IF m = 0 THEN 0 ELSE upTo[m - 1] + f[m - 1 - n]
    IN  upTo[2 * n + 1]

\* The lower end of the interval of J(a) - J(b) is above num / den: at most one
\* draw in forty is at or below it.  Items are drawn with replacement, errors
\* and clean ones apart; an empty stratum counts for nothing.
lower_end_above(corpus, cells, a, b, num, den) ==
    LET only(items, x, y) == Cardinality(Flagged(cells, items, x) \ Flagged(cells, items, y))
        draws(items) == resampled[Cardinality(items)][only(items, a, b)][only(items, b, a)]
        size(n) == IF n = 0 THEN 1 ELSE n
        errors == binding_k_pool(corpus)
        clean == Of(corpus, "clean")
        E == Cardinality(errors)
        C == Cardinality(clean)
        onErrors == draws(errors)
        onClean == draws(clean)
        below(k, j) == den * (k * size(C) - j * size(E)) <= num * size(E) * size(C)
        low == Mass([k \in -E..E |->
                        onErrors[k] * Mass([j \in -C..C |-> IF below(k, j) THEN onClean[j] ELSE 0], C)], E)
    IN  40 * low <= Cardinality(Draws(E)) * Cardinality(Draws(C))

controls_pass(corpus, cells) ==
    /\ lower_end_above(corpus, cells, "PC", "A", 8, 10)
    /\ ~lower_end_above(corpus, cells, "B", "A", 0, 1)

instruments_pass(corpus, cells, shuffle_ok) ==
    /\ arm_a_floor(corpus, cells)
    /\ spec_ceiling(corpus, cells)
    /\ regime_contribution(corpus, cells)
    /\ shuffle_ok

score_gate(audited, corpus, cells, shuffle_ok, looks) ==
    IF ~audited \/ ~instruments_pass(corpus, cells, shuffle_ok) \/ ~controls_pass(corpus, cells)
        THEN "INSTRUMENT_INVALID"
    ELSE IF looks >= look_budget_max THEN "BUDGET_EXHAUSTED"
    ELSE IF /\ lower_end_above(corpus, cells, "D", "A", 0, 1)
            /\ lower_end_above(corpus, cells, "D", "C", 0, 1)
        THEN "PASS" ELSE "FAIL"

=============================================================================
