------------------------------ MODULE Labeling ------------------------------
(***************************************************************************)
(* How a planted item becomes an item of the gate corpus: the converter of *)
(* the K pool, the labeller that lets the frozen oracle decide the stratum *)
(* and people everything the oracle cannot see, the re-validation of the   *)
(* matched pairs, the lock and the loader's guards.                        *)
(*                                                                         *)
(* A planted item carries what the world answers about it: `verdict`, what *)
(* the frozen test says of its solution ("caught" by an executable, valid  *)
(* check; "holds"; "noise" when the check did not execute or was not       *)
(* valid), the votes of the adjudicators, the second author's `audit` of   *)
(* its regime, and `tests`, the candidate tests an adversary would write.  *)
(* `claim` says that its thesis carries a verifiable claim.  Zero stands   *)
(* for no sibling, the empty string for no regime.  Every item is of the   *)
(* measurement split and has a test exactly if it is code: both are the    *)
(* planter's, and no step here changes them.                               *)
(***************************************************************************)
EXTENDS Naturals, FiniteSets, SequencesExt

CONSTANT converter_families     \* of the converter's panel and adversary

Verdict == {"caught", "holds", "noise"}
Vote == {"clean", "error", "abstain"}
Candidates == [onError : Verdict, onClean : Verdict, stable : BOOLEAN, later : Verdict]
PlantedItem ==
    [id : Nat \ {0}, sibling : Nat, isError : BOOLEAN, stamp : {"operators", "llm"},
     family : STRING, probe : BOOLEAN, claim : BOOLEAN, verdict : Verdict, tests : Seq(Candidates),
     votes : Seq(Vote), breaker : Vote, regime : STRING, derived : STRING, audit : STRING]

is_detk(i) == i.stamp = "operators" /\ i.probe
is_o_catch(v) == v = "caught"
oracle_reachable(i) == i.verdict # "noise"

ById(items, id) == CHOOSE i \in items : i.id = id
Ids(items) == {i.id : i \in items}

-----------------------------------------------------------------------------
(* The converter: a candidate test must catch the error, pass the clean    *)
(* sibling and say so twice, and the author's own test must agree.         *)

convertible(i) ==
    i.isError /\ ~is_detk(i) /\ i.stamp = "llm" /\ i.family \notin converter_families

gate(i, sibling, t) ==
    /\ is_o_catch(t.onError) /\ t.onClean = "holds"
    /\ is_o_catch(i.verdict) /\ sibling.verdict = "holds"

\* The rounds stop at the first candidate that clears the gate and is stable.
attempt_convert(i, sibling) ==
    LET won == {n \in DOMAIN i.tests : gate(i, sibling, i.tests[n]) /\ i.tests[n].stable}
        t == i.tests[CHOOSE n \in won : \A m \in won : n <= m]
    IN  IF won = {} THEN i ELSE [i EXCEPT !.stamp = "converted", !.verdict = t.later]

convert_k_pool(items) ==
    {IF convertible(i) /\ i.sibling # 0 THEN attempt_convert(i, ById(items, i.sibling)) ELSE i :
        i \in items}

-----------------------------------------------------------------------------
(* The labeller. *)

\* Fault: a check that was not valid counts as a catch.
NoiseCatches(i) ==
    IF ~i.isError THEN "clean" ELSE IF i.verdict # "holds" THEN "O" ELSE "K"

\* The stratum is the oracle's, never the planter's and never a person's.
assign_stratum(i) ==
    IF ~i.isError THEN "clean" ELSE IF is_o_catch(i.verdict) THEN "O" ELSE "K"

\* One abstention drops the item, a split goes to the tie-breaker.
resolve_existence(i) ==
    IF Contains(i.votes, "abstain") THEN "abstain"
    ELSE IF Cardinality(ToSet(i.votes)) = 1 THEN i.votes[1] ELSE i.breaker

regime_audit(i) ==
    CASE i.audit = "confirm" -> i.regime
      [] i.audit = "abstain" -> ""
      [] OTHER -> i.audit

\* A clean item the oracle reaches is labelled by the verdict already in hand,
\* one it does not reach by people; neither stamp, no label.
reverify_clean(i) ==
    IF oracle_reachable(i) THEN (IF i.verdict = "holds" THEN "oracle" ELSE "dropped")
    ELSE IF resolve_existence(i) = "clean" THEN "human" ELSE "dropped"

label_source(i) ==
    CASE assign_stratum(i) = "clean" -> reverify_clean(i)
      [] assign_stratum(i) = "O" -> "oracle"
      [] OTHER -> IF resolve_existence(i) = "error" THEN "human" ELSE "dropped"

\* People decide what the oracle cannot: two of them at least, independently.
asks_people(i) == assign_stratum(i) = "K" \/ (~i.isError /\ ~oracle_reachable(i))
too_few_people(i) == asks_people(i) /\ Len(i.votes) < 2

error_regime(i) ==
    CASE ~i.isError -> ""
      [] i.stamp = "converted" \/ (assign_stratum(i) = "K" /\ ~is_detk(i)) -> regime_audit(i)
      [] OTHER -> i.regime

corpus_item(i) ==
    [id |-> i.id, sibling |-> i.sibling, stratum |-> assign_stratum(i),
     regime |-> error_regime(i), source |-> label_source(i), isError |-> i.isError,
     detk |-> is_detk(i), converted |-> i.stamp = "converted", verdict |-> i.verdict,
     claim |-> i.claim, locked |-> FALSE]

\* An O item must come from operators, and name the regime they derive.
regime_mismatch(i) ==
    /\ i.isError /\ assign_stratum(i) = "O" /\ i.stamp # "converted"
    /\ i.stamp # "operators" \/ i.regime # i.derived

promote_corpus(items) == {corpus_item(i) : i \in {x \in items : label_source(x) # "dropped"}}
dropped_ids(items) == {i.id : i \in {x \in items : label_source(x) = "dropped"}}

-----------------------------------------------------------------------------
(* Pairs, lock and load. *)

\* A pair with one survivor is dissolved: the survivor keeps its stratum.  An
\* item that never had a sibling is in neither part.
revalidate_bijection(items, dropped) ==
    LET had == {i \in items : i.sibling # 0}
    IN  [paired |-> {i \in had : i.sibling \notin dropped},
         demoted |-> {[i EXCEPT !.sibling = 0] : i \in {j \in had : j.sibling \in dropped}}]

bijection_refused(items, dropped) ==
    \/ Ids(items) \cap dropped # {}
    \/ \E i \in items :
          /\ i.sibling # 0 /\ i.sibling \notin dropped
          /\ i.sibling \notin Ids(items) \/ ById(items, i.sibling).sibling # i.id

lock_refused(items) == \E i \in items : i.claim

lock_corpus(items) == {[i EXCEPT !.locked = TRUE] : i \in items}

is_clean(i) == i.stratum = "clean" \/ ~i.isError

\* The loader of a measurement: unique ids, a label of the oracle or of people,
\* the lock, no verifiable claim, and siblings that name each other across sides.
load_refused(items) ==
    \/ \E i, j \in items : i # j /\ i.id = j.id
    \/ \E i \in items : ~i.locked \/ i.claim \/ i.source \notin {"oracle", "human"}
    \/ \E i \in items :
          /\ i.sibling # 0
          /\ \/ i.sibling \notin Ids(items)
             \/ ById(items, i.sibling).sibling # i.id
             \/ is_clean(ById(items, i.sibling)) = is_clean(i)

=============================================================================
