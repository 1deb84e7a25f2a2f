--------------------------- MODULE GateRunProofs ----------------------------
(***************************************************************************)
(* What holds of the evaluation gate for every corpus, design and kill:    *)
(* the labeller and the oracle arm agree on what is scored, the loader     *)
(* accepts what was locked, the looks that get an answer stay below the    *)
(* budget, a kill costs two answers, a rerun replays, a PASS is earned.    *)
(***************************************************************************)
EXTENDS GateRun, FiniteSetTheorems, WellFoundedInduction, TLAPS

-----------------------------------------------------------------------------
(* The labels. *)

(* A kept item has the oracle's catch exactly when its stratum is O: a     *)
(* clean item that the test catches is dropped, not labelled.              *)
LEMMA KeptLabel ==
    ASSUME NEW x, x.isError \in BOOLEAN, label_source(x) # "dropped"
    PROVE  /\ is_o_catch(x.verdict) <=> assign_stratum(x) = "O"
           /\ assign_stratum(x) = "clean" <=> ~x.isError
           /\ label_source(x) \in {"oracle", "human"}
<1>1. CASE x.isError
  BY <1>1 DEF label_source, assign_stratum, is_o_catch
<1>2. CASE ~x.isError
  BY <1>2 DEF label_source, assign_stratum, is_o_catch, reverify_clean, oracle_reachable
<1> QED BY <1>1, <1>2

(* The converter keeps the identity of an item: its id, side and sibling.  *)
LEMMA ConvertKeeps ==
    ASSUME NEW i \in PlantedItem, NEW sibling
    PROVE  /\ attempt_convert(i, sibling).id = i.id
           /\ attempt_convert(i, sibling).isError = i.isError
           /\ attempt_convert(i, sibling).sibling = i.sibling
BY DEF attempt_convert, PlantedItem

LEMMA ConvertedPaired ==
    ASSUME NEW items \in SUBSET PlantedItem, paired(items)
    PROVE  /\ paired(convert_k_pool(items))
           /\ \A x \in convert_k_pool(items) : x.isError \in BOOLEAN
<1> DEFINE c(i) == IF convertible(i) /\ i.sibling # 0 THEN attempt_convert(i, ById(items, i.sibling)) ELSE i
<1>1. \A i \in items : c(i).id = i.id /\ c(i).isError = i.isError /\ c(i).sibling = i.sibling
  BY ConvertKeeps
<1>2. convert_k_pool(items) = {c(i) : i \in items}
  BY DEF convert_k_pool
<1> HIDE DEF c
<1>3. ASSUME NEW x \in convert_k_pool(items), NEW y \in convert_k_pool(items)
      PROVE  /\ x.id = y.id => x = y
             /\ x.sibling # 0 /\ x.sibling = y.id => x.isError # y.isError
  <2>1. PICK i \in items : x = c(i)
    BY <1>2
  <2>2. PICK j \in items : y = c(j)
    BY <1>2
  <2>3. /\ i.id = j.id => i = j
        /\ i.sibling # 0 /\ i.sibling = j.id => i.isError # j.isError
    BY DEF paired
  <2> QED BY <1>1, <2>1, <2>2, <2>3
<1>4. ASSUME NEW x \in convert_k_pool(items) PROVE x.isError \in BOOLEAN
  <2>1. PICK i \in items : x = c(i)
    BY <1>2
  <2> QED BY <1>1, <2>1 DEF PlantedItem
<1> QED BY <1>3, <1>4 DEF paired

LEMMA PlantedPaired ==
    ASSUME GateAssumption, world \in Scenarios, NEW d
    PROVE  paired(planted(d)) /\ \A x \in planted(d) : x.isError \in BOOLEAN
<1>1. world.items \in SUBSET PlantedItem /\ paired(world.items)
  BY DEF GateAssumption
<1>2. \A x \in world.items : x.isError \in BOOLEAN
  BY <1>1 DEF PlantedItem
<1>3. CASE d.audited
  BY <1>1, <1>3, ConvertedPaired DEF planted
<1>4. CASE ~d.audited
  BY <1>1, <1>2, <1>4 DEF planted
<1> QED BY <1>3, <1>4

-----------------------------------------------------------------------------
(* The lock. *)

(* The locked form of a planted item: without its sibling, if that was     *)
(* dropped and the pair dissolved.                                         *)
Kept(d) == {x \in planted(d) : label_source(x) # "dropped"}
Dissolved(d, x) ==
    d.audited /\ corpus_item(x).sibling # 0 /\ corpus_item(x).sibling \in dropped_ids(planted(d))
Final(d, x) ==
    [(IF Dissolved(d, x) THEN [corpus_item(x) EXCEPT !.sibling = 0] ELSE corpus_item(x))
        EXCEPT !.locked = TRUE]

LEMMA CorpusItem ==
    ASSUME NEW x
    PROVE  /\ corpus_item(x).id = x.id /\ corpus_item(x).sibling = x.sibling
           /\ corpus_item(x).isError = x.isError /\ corpus_item(x).claim = x.claim
BY DEF corpus_item

LEMMA FinalItem ==
    ASSUME NEW d, NEW x
    PROVE  /\ Final(d, x).id = x.id /\ Final(d, x).isError = x.isError
           /\ Final(d, x).verdict = x.verdict /\ Final(d, x).locked
           /\ Final(d, x).stratum = assign_stratum(x) /\ Final(d, x).source = label_source(x)
           /\ Final(d, x).claim = x.claim
           /\ Final(d, x).sibling = IF Dissolved(d, x) THEN 0 ELSE x.sibling
<1>1. CASE Dissolved(d, x)
  BY <1>1 DEF Final, corpus_item
<1>2. CASE ~Dissolved(d, x)
  BY <1>2 DEF Final, corpus_item
<1> QED BY <1>1, <1>2

LEMMA LockedIs == ASSUME NEW d PROVE locked(d) = {Final(d, x) : x \in Kept(d)}
<1> DEFINE dropped == dropped_ids(planted(d))
           r(a) == IF a.sibling # 0 /\ a.sibling \in dropped THEN [a EXCEPT !.sibling = 0] ELSE a
           kept == promote_corpus(planted(d))
<1>1. kept = {corpus_item(x) : x \in Kept(d)}
  BY DEF promote_corpus, Kept
<1>2. CASE d.audited
  <2>1. locked(d) = {[b EXCEPT !.locked = TRUE] : b \in {r(a) : a \in kept}}
    <3> DEFINE had == {a \in kept : a.sibling # 0}
               paired_ == {a \in had : a.sibling \notin dropped}
               demoted_ == {[a EXCEPT !.sibling = 0] : a \in {b \in had : b.sibling \in dropped}}
               whole == paired_ \cup demoted_ \cup {a \in kept : a.sibling = 0}
    <3> HIDE DEF kept
    <3>1. locked(d) = {[b EXCEPT !.locked = TRUE] : b \in whole}
      BY <1>2 DEF locked, lock_corpus, revalidate_bijection, kept
    <3> HIDE DEF dropped
    <3>2. whole = {r(a) : a \in kept}
      OBVIOUS
    <3> QED BY <3>1, <3>2
  <2>2. \A x : Final(d, x) = [r(corpus_item(x)) EXCEPT !.locked = TRUE]
    BY <1>2 DEF Final, Dissolved
  <2> HIDE DEF r, kept
  <2>3. \A x \in Kept(d) : Final(d, x) \in locked(d)
    BY <1>1, <2>1, <2>2
  <2>4. ASSUME NEW i \in locked(d) PROVE \E x \in Kept(d) : i = Final(d, x)
    <3>1. PICK a \in kept : i = [r(a) EXCEPT !.locked = TRUE]
      BY <2>1
    <3>2. PICK x \in Kept(d) : a = corpus_item(x)
      BY <1>1
    <3> QED BY <2>2, <3>1, <3>2
  <2> QED BY <2>3, <2>4
<1>3. CASE ~d.audited
  <2>1. locked(d) = {[a EXCEPT !.locked = TRUE] : a \in kept}
    BY <1>3 DEF locked, lock_corpus
  <2>2. \A x : Final(d, x) = [corpus_item(x) EXCEPT !.locked = TRUE]
    BY <1>3 DEF Final, Dissolved
  <2> HIDE DEF kept
  <2>3. \A x \in Kept(d) : Final(d, x) \in locked(d)
    BY <1>1, <2>1, <2>2
  <2>4. ASSUME NEW i \in locked(d) PROVE \E x \in Kept(d) : i = Final(d, x)
    <3>1. PICK a \in kept : i = [a EXCEPT !.locked = TRUE]
      BY <2>1
    <3>2. PICK x \in Kept(d) : a = corpus_item(x)
      BY <1>1
    <3> QED BY <2>2, <3>1, <3>2
  <2> QED BY <2>3, <2>4
<1> QED BY <1>2, <1>3

LEMMA FloorHolds ==
    ASSUME GateAssumption, world \in Scenarios, NEW d, NEW i \in locked(d)
    PROVE  arm_a_flags(i) <=> i.stratum = "O"
<1>1. PICK x \in Kept(d) : i = Final(d, x)
  BY LockedIs
<1>2. is_o_catch(x.verdict) <=> assign_stratum(x) = "O"
  BY PlantedPaired, KeptLabel DEF Kept
<1> QED BY <1>1, <1>2, FinalItem DEF arm_a_flags

LEMMA LoadHolds ==
    ASSUME GateAssumption, world \in Scenarios, NEW d, d.audited, ~corpus_refused(d)
    PROVE  ~load_refused(locked(d))
<1> DEFINE P == planted(d)
           dropped == dropped_ids(P)
           F == locked(d)
           kept == promote_corpus(P)
<1>1. F = {Final(d, x) : x \in Kept(d)} /\ Kept(d) \subseteq P
  BY LockedIs DEF Kept
<1>2. /\ \A x, y \in P : x.id = y.id => x = y
      /\ \A x, y \in P : x.sibling # 0 /\ x.sibling = y.id => x.isError # y.isError
  <2>1. paired(P)
    BY PlantedPaired
  <2> HIDE DEF P
  <2> QED BY <2>1 DEF paired
<1>3. \A x \in P : x.isError \in BOOLEAN
  BY PlantedPaired
<1>4. ~bijection_refused(kept, dropped)
  BY DEF corpus_refused
<1>5. kept = {corpus_item(x) : x \in Kept(d)}
  BY DEF promote_corpus, Kept
<1> HIDE DEF P
\* an item is the only one with its id, before the lock and after it
<1>6. \A x, y \in Kept(d) : Final(d, x).id = Final(d, y).id => x = y
  <2> TAKE x, y \in Kept(d)
  <2>1. x \in P /\ y \in P /\ Final(d, x).id = x.id /\ Final(d, y).id = y.id
    BY <1>1, FinalItem
  <2> QED BY <1>2, <2>1
<1>7. \A x \in Kept(d) : ById(kept, x.id) = corpus_item(x) /\ ById(F, x.id) = Final(d, x)
  <2> SUFFICES ASSUME NEW x \in Kept(d) PROVE ById(kept, x.id) = corpus_item(x) /\ ById(F, x.id) = Final(d, x)
    OBVIOUS
  <2>1. corpus_item(x) \in kept /\ corpus_item(x).id = x.id
    BY <1>5, CorpusItem
  <2>2. \A a \in kept : a.id = x.id => a = corpus_item(x)
    <3> SUFFICES ASSUME NEW y \in Kept(d), corpus_item(y).id = x.id PROVE y = x
      BY <1>5
    <3>1. x \in P /\ y \in P /\ y.id = x.id
      BY <1>1, CorpusItem
    <3> QED BY <1>2, <3>1
  <2>3. Final(d, x) \in F /\ Final(d, x).id = x.id
    BY <1>1, FinalItem
  <2>4. \A i \in F : i.id = x.id => i = Final(d, x)
    BY <1>1, <1>6, FinalItem
  <2> HIDE DEF kept, F
  <2> QED BY <2>1, <2>2, <2>3, <2>4 DEF ById
<1>8. \A x \in Kept(d) : is_clean(Final(d, x)) <=> ~x.isError
  BY <1>1, <1>3, FinalItem, KeptLabel DEF is_clean, Kept
<1>9. \A i, j \in F : i.id = j.id => i = j
  BY <1>1, <1>6
<1>10. \A i \in F : i.locked /\ i.source \in {"oracle", "human"}
  BY <1>1, <1>3, FinalItem, KeptLabel DEF Kept
<1>13. \A i \in F : ~i.claim
  <2>1. \A a \in kept : ~a.claim
    BY DEF corpus_refused, lock_refused, P
  <2>2. \A x \in Kept(d) : ~x.claim
    BY <1>5, <2>1, CorpusItem
  <2> QED BY <1>1, <2>2, FinalItem
<1>11. ASSUME NEW i \in F, i.sibling # 0
       PROVE  /\ i.sibling \in Ids(F) /\ ById(F, i.sibling).sibling = i.id
              /\ is_clean(ById(F, i.sibling)) # is_clean(i)
  <2>1. PICK x \in Kept(d) : i = Final(d, x)
    BY <1>1
  <2>2. ~Dissolved(d, x) /\ i.sibling = x.sibling /\ x.sibling # 0 /\ i.id = x.id
    BY <1>11, <2>1, FinalItem
  <2>3. corpus_item(x) \in kept /\ x.sibling \notin dropped
    BY <1>5, <2>2, CorpusItem DEF Dissolved, P
  <2>4. x.sibling \in Ids(kept) /\ ById(kept, x.sibling).sibling = x.id /\ Ids(kept) \cap dropped = {}
    BY <1>4, <2>2, <2>3, CorpusItem DEF bijection_refused
  <2>5. PICK y \in Kept(d) : y.id = x.sibling
    BY <1>5, <2>4, CorpusItem DEF Ids
  <2>6. y.sibling = x.id
    BY <1>7, <2>4, <2>5, CorpusItem
  <2>7. x.id \notin dropped
    BY <2>3, <2>4, CorpusItem DEF Ids
  <2>8. ById(F, i.sibling) = Final(d, y) /\ Final(d, y) \in F /\ Final(d, y).id = i.sibling
    BY <1>1, <1>7, <2>2, <2>5, FinalItem
  <2>9. Final(d, y).sibling = x.id
    BY <2>6, <2>7, FinalItem, CorpusItem DEF Dissolved, P
  <2>10. x.isError # y.isError
    <3>1. x \in P /\ y \in P /\ x.sibling # 0 /\ x.sibling = y.id
      BY <1>1, <2>2, <2>5
    <3> QED BY <1>2, <3>1
  <2>11. is_clean(Final(d, y)) # is_clean(i)
    BY <1>1, <1>3, <1>8, <2>1, <2>10 DEF is_clean
  <2>12. i.sibling \in Ids(F)
    BY <2>8 DEF Ids
  <2> QED BY <2>2, <2>8, <2>9, <2>11, <2>12
<1>12. ~load_refused(F)
  <2> HIDE DEF F
  <2> QED BY <1>9, <1>10, <1>11, <1>13 DEF load_refused
<1> QED BY <1>12

-----------------------------------------------------------------------------
(* The run.  The corpus that is scored is the locked form of the scenario; *)
(* a look is in the ledger before it is counted, so that the looks that    *)
(* got an answer are fewer than those that the last answer counted.        *)

Fields == {"phase", "design", "corpus", "answered", "spent", "cells", "verdict"}

Prepared ==
    Running => /\ DOMAIN run = Fields /\ run.corpus = locked(run.design)
               /\ ~corpus_refused(run.design)

Under(looks, c) == {x \in looks : x.config = c}

Charged ==
    /\ decided \subseteq ledger /\ IsFiniteSet(ledger)
    /\ run.phase = "score" => a_look(run.design) \in ledger
    /\ \A c : Cardinality(Under(decided, c)) < look_budget_max

Inv == world \in Scenarios /\ Prepared /\ Charged

LEMMA NoDecision ==
    IsFiniteSet({}) /\ \A c : Cardinality(Under({}, c)) < look_budget_max
<1>1. \A c : Under({}, c) = {}
  BY DEF Under
<1>2. Cardinality({}) = 0 /\ IsFiniteSet({}) /\ 0 < look_budget_max
  BY FS_EmptySet, GateAssumption DEF GateAssumption
<1> QED
  <2> SUFFICES ASSUME NEW c PROVE Cardinality(Under({}, c)) < look_budget_max
    BY <1>2
  <2>1. Under({}, c) = {}
    BY <1>1
  <2> QED BY <1>2, <2>1

(* A step that stays in the run, and leaves its design and corpus, keeps   *)
(* them prepared; one that ends the run has nothing to keep.               *)
LEMMA SameCorpus ==
    ASSUME Inv, world' = world
    PROVE  /\ \A d : locked(d)' = locked(d) /\ (corpus_refused(d)' <=> corpus_refused(d))
           /\ world' \in Scenarios
BY DEF Inv, locked, corpus_refused, planted

LEMMA StillPrepared ==
    ASSUME Inv, world' = world, Running, DOMAIN run' = Fields,
           run'.design = run.design, run'.corpus = run.corpus
    PROVE  Prepared'
<1>1. PICK d : d = run.design
  OBVIOUS
<1>2. run.corpus = locked(d) /\ ~corpus_refused(d)
  BY <1>1 DEF Inv, Prepared
<1>3. run'.corpus = locked(d)' /\ ~corpus_refused(d)' /\ run'.design = d
  BY <1>1, <1>2, SameCorpus
<1> QED BY <1>3 DEF Prepared

LEMMA Stopped == ASSUME Inv, Dies PROVE Inv'
<1>1. ~Running' /\ run'.phase # "score"
  BY DEF Dies, Down, Running
<1> QED BY <1>1, NoDecision DEF Dies, Inv, Prepared, Charged

LEMMA InitInv == Init => Inv
<1> SUFFICES ASSUME Init PROVE Inv
  OBVIOUS
<1>1. ~Running /\ run.phase # "score"
  BY DEF Init, Down, Running
<1> QED BY <1>1, NoDecision DEF Init, Inv, Prepared, Charged

LEMMA StartInv == ASSUME Inv, NEW d \in world.designs, StartRun(d) PROVE Inv'
<1>1. PICK e : e = d
  OBVIOUS
<1>2. run'.phase = "arms" /\ DOMAIN run' = Fields /\ run'.design = e /\ run'.corpus = locked(e)
  BY <1>1 DEF StartRun, Fields
<1>3. UNCHANGED <<world, ledger, decided>> /\ ~corpus_refused(e)
  BY <1>1 DEF StartRun
<1>4. run'.corpus = locked(e)' /\ ~corpus_refused(e)' /\ run'.design = e
  BY <1>2, <1>3, SameCorpus
<1>5. Prepared'
  BY <1>2, <1>4 DEF Prepared
<1>6. Charged'
  BY <1>2, <1>3 DEF Inv, Charged
<1> QED BY <1>3, <1>5, <1>6 DEF Inv

LEMMA AnswerInv == ASSUME Inv, AnswerCell PROVE Inv'
<1>1. Running /\ run.phase = "arms" /\ DOMAIN run = Fields
  BY DEF AnswerCell, Running, Inv, Prepared
<1>2. PICK a, n : run' = [run EXCEPT !.answered = a, !.spent = n]
  BY DEF AnswerCell
<1>3. run'.phase = "arms" /\ DOMAIN run' = Fields /\ run'.design = run.design /\ run'.corpus = run.corpus
  BY <1>1, <1>2 DEF Fields
<1>4. UNCHANGED <<world, ledger, decided>>
  BY DEF AnswerCell
<1> QED BY <1>1, <1>3, <1>4, StillPrepared DEF Inv, Charged

LEMMA LookInv == ASSUME Inv, AppendLook PROVE Inv'
<1>1. Running /\ DOMAIN run = Fields
  BY DEF AppendLook, Running, Inv, Prepared
<1>2. DOMAIN run' = Fields /\ run'.design = run.design /\ run'.corpus = run.corpus
  BY <1>1 DEF AppendLook, Fields
<1>3. ledger' = ledger \cup {a_look(run.design)} /\ UNCHANGED <<world, decided>>
  BY DEF AppendLook, look
<1>4. Charged'
  BY <1>2, <1>3, FS_AddElement DEF Inv, Charged
<1> QED BY <1>1, <1>2, <1>3, <1>4, StillPrepared DEF Inv

LEMMA ScoreInv == ASSUME Inv, ScoreGate PROVE Inv'
<1>1. Running /\ DOMAIN run = Fields /\ run.phase = "score"
  BY DEF ScoreGate, Running, Inv, Prepared
<1>9. PICK d : d = run.design
  OBVIOUS
<1>2. PICK v : /\ v = score_gate(d.audited, run.corpus, run.cells, d.seed \notin Leaky, looks_taken(d))
               /\ run' = [run EXCEPT !.phase = "cells", !.verdict = v]
               /\ decided' = IF v \in {"PASS", "FAIL"} THEN decided \cup {a_look(d)} ELSE decided
  BY <1>9 DEF ScoreGate
<1>3. /\ DOMAIN run' = Fields /\ run'.design = run.design /\ run'.corpus = run.corpus
      /\ run'.phase = "cells"
  BY <1>1, <1>2 DEF Fields
<1>4. UNCHANGED <<world, ledger>>
  BY DEF ScoreGate
<1>5. v \in {"PASS", "FAIL"} => ~(looks_taken(d) >= look_budget_max)
  BY <1>2 DEF score_gate
<1>6. decided' \subseteq ledger /\ \A c : Cardinality(Under(decided', c)) < look_budget_max
  <2>1. CASE v \in {"PASS", "FAIL"}
    <3>1. decided' \subseteq ledger
      BY <1>1, <1>2, <1>9, <2>1 DEF Inv, Charged
    <3>2. ASSUME NEW c PROVE Cardinality(Under(decided', c)) < look_budget_max
      <4>1. CASE c = config_hash(d)
        \* the looks of the run's own configuration were counted
        <5>1. Under(ledger, c) = {x \in ledger : x.config = config_hash(d)}
          BY <4>1 DEF Under
        <5>2. Under(decided', c) \subseteq Under(ledger, c) /\ IsFiniteSet(Under(ledger, c))
          BY <3>1, FS_Subset DEF Inv, Charged, Under
        <5>3. /\ Cardinality(Under(decided', c)) <= Cardinality(Under(ledger, c))
              /\ Cardinality(Under(ledger, c)) \in Nat /\ Cardinality(Under(decided', c)) \in Nat
          BY <5>2, FS_Subset, FS_CardinalityType
        <5> QED BY <1>5, <2>1, <5>1, <5>3, GateAssumption DEF GateAssumption, looks_taken
      <4>2. CASE c # config_hash(d)
        \* those of another are what they were
        <5>1. Under(decided', c) = Under(decided, c)
          BY <1>2, <4>2 DEF Under, a_look
        <5> QED BY <5>1 DEF Inv, Charged
      <4> QED BY <4>1, <4>2
    <3> QED BY <3>1, <3>2
  <2>2. CASE v \notin {"PASS", "FAIL"}
    <3>1. decided' = decided
      BY <1>2, <2>2
    <3> QED BY <3>1 DEF Inv, Charged
  <2> QED BY <2>1, <2>2
<1>7. Charged'
  BY <1>3, <1>4, <1>6 DEF Inv, Charged
<1> QED BY <1>1, <1>3, <1>4, <1>7, StillPrepared DEF Inv

LEMMA WriteInv == ASSUME Inv, WriteCells \/ WriteManifest PROVE Inv'
<1>1. UNCHANGED <<world, ledger, decided>>
  BY DEF WriteCells, WriteManifest
<1>2. CASE WriteCells
  <2>1. Running /\ DOMAIN run = Fields
    BY <1>2 DEF WriteCells, Running, Inv, Prepared
  <2>2. /\ DOMAIN run' = Fields /\ run'.design = run.design /\ run'.corpus = run.corpus
        /\ run'.phase = "manifest"
    BY <1>2, <2>1 DEF WriteCells, Fields
  <2> QED BY <1>1, <2>1, <2>2, StillPrepared DEF Inv, Charged
<1>3. CASE WriteManifest
  <2>1. ~Running' /\ run'.phase # "score"
    BY <1>3 DEF WriteManifest, Idle, Running
  <2> QED BY <1>1, <2>1 DEF Inv, Prepared, Charged
<1> QED BY <1>2, <1>3

LEMMA InvStep == Inv /\ [Next]_vars => Inv'
<1> SUFFICES ASSUME Inv, [Next]_vars PROVE Inv'
  OBVIOUS
<1>1. CASE StartProcess
  <2>1. ~Running' /\ run'.phase # "score"
    BY <1>1 DEF StartProcess, Idle, Running
  <2> QED BY <1>1, <2>1, NoDecision DEF StartProcess, Inv, Prepared, Charged
<1>2. ASSUME NEW d \in world.designs, Refused(d) \/ StartRun(d) PROVE Inv'
  BY <1>2, StartInv, Stopped DEF Refused
<1>3. CASE AnswerCell \/ AppendLook \/ ScoreGate \/ WriteCells \/ WriteManifest
  BY <1>3, AnswerInv, LookInv, ScoreInv, WriteInv
<1>4. CASE OverCeiling \/ Kill \/ KillInCell \/ KillInWrite \/ Exit
  BY <1>4, Stopped DEF OverCeiling, Kill, KillInCell, KillInWrite, Exit, Killed
<1>5. CASE UNCHANGED vars
  <2>1. Prepared' /\ Charged'
    <3>1. Running' => Running /\ DOMAIN run' = Fields
      BY <1>5 DEF vars, Inv, Prepared, Running
    <3>2. Running => Prepared'
      BY <1>5, <3>1, StillPrepared DEF vars, Inv, Prepared
    <3> QED BY <1>5, <3>1, <3>2 DEF vars, Inv, Charged, Prepared
  <2> QED BY <1>5, <2>1 DEF vars, Inv
<1> QED BY <1>1, <1>2, <1>3, <1>4, <1>5 DEF Next

LEMMA Invariant == Spec => []Inv
BY InitInv, InvStep, PTL DEF Spec

(* For any corpus and any designs, however often they are run and killed:  *)
(* fewer measurements get a PASS or a FAIL under one configuration, as far *)
(* back as the process's ledger goes, than the lineage's budget of looks.  *)
THEOREM LooksAreBounded == Spec => []LooksBounded
<1>1. Inv => LooksBounded
  BY DEF Inv, Charged, LooksBounded, Under
<1> QED BY <1>1, Invariant, PTL

(* Whatever was planted and converted, however people voted: on the corpus *)
(* that is scored the oracle arm flags the O stratum and nothing else, and *)
(* an audited corpus that was locked passes the loader's guards on unique  *)
(* ids, the source of a label, the lock, verifiable claims and siblings.   *)
(* It says nothing of the guards on the split, on a stamp's shape and on   *)
(* who has a test, whose fields no step of the pipeline changes.           *)
THEOREM CorpusIsSound == Spec => []CorpusSound
<1>1. Inv => CorpusSound
  <2> SUFFICES ASSUME Inv, Running PROVE CorpusSound
    BY DEF CorpusSound
  <2>1. PICK d : d = run.design
    OBVIOUS
  <2>2. run.corpus = locked(d) /\ ~corpus_refused(d) /\ world \in Scenarios
    BY <2>1 DEF Inv, Prepared
  <2>3. \A i \in locked(d) : arm_a_flags(i) <=> i.stratum = "O"
    BY <2>2, FloorHolds, GateAssumption
  <2>4. d.audited => ~load_refused(locked(d))
    BY <2>2, LoadHolds, GateAssumption
  <2> QED BY <2>1, <2>2, <2>3, <2>4 DEF CorpusSound
<1> QED BY <1>1, Invariant, PTL

-----------------------------------------------------------------------------
(* The next cell.  Ids and places are naturals, so there is a first one.   *)

LEMMA Least ==
    ASSUME NEW S \in SUBSET Nat, S # {}
    PROVE  \E m \in S : \A n \in S : m <= n
<1> DEFINE Below == {r \in Nat \X Nat : r[1] < r[2]}
<1>1. IsWellFoundedOn(Below, Nat)
  <2>1. OpToRel(<, Nat) = Below
    BY DEF OpToRel
  <2> QED BY <2>1, NatLessThanWellFounded
<1>2. PICK m \in S : \A n \in S : ~(<<n, m>> \in Below)
  <2> HIDE DEF Below
  <2> QED BY <1>1, WFMin
<1>3. ASSUME NEW n \in S PROVE m <= n
  <2>1. n \in Nat /\ m \in Nat /\ ~(<<n, m>> \in Below)
    BY <1>2
  <2>2. ~(n < m)
    BY <2>1
  <2> QED BY <2>1, <2>2
<1> QED BY <1>3

LEMMA IdsAreNaturals == ASSUME Inv, Running PROVE Ids(run.corpus) \subseteq Nat
<1>1. PICK d : d = run.design
  OBVIOUS
<1>2. run.corpus = locked(d)
  BY <1>1 DEF Inv, Prepared
<1>3. world.items \subseteq PlantedItem
  BY GateAssumption DEF Inv, GateAssumption
<1>4. \A x \in planted(d) : x.id \in Nat
  <2>1. CASE d.audited
    <3> DEFINE c(i) == IF convertible(i) /\ i.sibling # 0
                       THEN attempt_convert(i, ById(world.items, i.sibling)) ELSE i
    <3>1. \A i \in world.items : c(i).id = i.id
      BY <1>3, ConvertKeeps
    <3>2. planted(d) = {c(i) : i \in world.items}
      BY <2>1 DEF planted, convert_k_pool
    <3> HIDE DEF c
    <3> SUFFICES ASSUME NEW x \in planted(d) PROVE x.id \in Nat
      OBVIOUS
    <3>3. PICK i \in world.items : x = c(i)
      BY <3>2
    <3> QED BY <1>3, <3>1, <3>3 DEF PlantedItem
  <2>2. CASE ~d.audited
    BY <1>3, <2>2 DEF planted, PlantedItem
  <2> QED BY <2>1, <2>2
<1>5. \A i \in locked(d) : i.id \in Nat
  <2> SUFFICES ASSUME NEW i \in locked(d) PROVE i.id \in Nat
    OBVIOUS
  <2>1. PICK x \in Kept(d) : i = Final(d, x)
    BY LockedIs
  <2> QED BY <1>4, <2>1, FinalItem DEF Kept
<1> QED BY <1>2, <1>5 DEF Ids

LEMMA NextCell ==
    ASSUME Inv, Running, missing # {}
    PROVE  /\ next_cell \in missing /\ next_cell = <<next_cell[1], next_cell[2]>>
           /\ next_cell[2] \in ToSet(ModelArms)
<1>1. missing \subseteq Nat \X ToSet(ModelArms)
  BY IdsAreNaturals DEF missing
<1>2. \A a \in ToSet(ModelArms) : place(a) \in Nat
  <2> SUFFICES ASSUME NEW a \in ToSet(ModelArms) PROVE place(a) \in Nat
    OBVIOUS
  <2>1. \E n \in DOMAIN ModelArms : ModelArms[n] = a
    BY DEF ToSet
  <2>2. DOMAIN ModelArms \subseteq Nat
    BY GateAssumption DEF GateAssumption
  <2> QED BY <2>1, <2>2 DEF place
<1> DEFINE ids == {c[1] : c \in missing}
<1>3. PICK n \in ids : \A m \in ids : n <= m
  <2>1. ids \in SUBSET Nat /\ ids # {}
    BY <1>1
  <2> QED BY <2>1, Least
<1> DEFINE first == {c \in missing : c[1] = n}
           places == {place(c[2]) : c \in first}
<1>4. PICK p \in places : \A q \in places : p <= q
  <2>1. places \in SUBSET Nat /\ places # {}
    BY <1>1, <1>2
  <2> QED BY <2>1, Least
<1>5. PICK c \in first : p = place(c[2])
  OBVIOUS
<1>6. \A e \in missing : c[1] < e[1] \/ (c[1] = e[1] /\ place(c[2]) <= place(e[2]))
  <2> SUFFICES ASSUME NEW e \in missing, ~(c[1] < e[1])
               PROVE  c[1] = e[1] /\ place(c[2]) <= place(e[2])
    OBVIOUS
  <2>1. c[1] = n /\ n <= e[1] /\ n \in Nat /\ e[1] \in Nat
    BY <1>1, <1>3
  <2>2. e \in first
    BY <2>1
  <2> QED BY <1>4, <1>5, <2>1, <2>2
<1>7. next_cell \in missing
  BY <1>5, <1>6 DEF next_cell
<1> QED BY <1>1, <1>7

-----------------------------------------------------------------------------
(* The files of the arms, and what a run remembers of them.                *)

Known(a) == DOMAIN readable(caches[a])

IsRecord(tail) == DOMAIN tail = {"key", "flag"} /\ tail.key = <<tail.key[1], tail.key[2]>>

Shaped ==
    /\ DOMAIN caches = ToSet(ModelArms)
    /\ \A a \in DOMAIN caches :
          /\ DOMAIN caches[a] = {"lines", "tail"}
          /\ \A k \in DOMAIN caches[a].lines : k = <<k[1], k[2]>>
          /\ caches[a].tail \in {Nothing, Torn} \/ IsRecord(caches[a].tail)

(* A run knows every answer to its design that its files can be read for.  *)
Remembered ==
    run.phase = "arms" =>
        \A a \in DOMAIN caches : \A k \in Known(a) :
            k[1] = fingerprint(run.design) => <<k[2], a>> \in DOMAIN run.answered

LEMMA Tails ==
    /\ Nothing # Torn
    /\ \A tail : IsRecord(tail) => tail # Nothing /\ tail # Torn
<1>1. "nothing" # "torn"
  OBVIOUS
<1>2. DOMAIN Nothing = {"is"} /\ DOMAIN Torn = {"is"} /\ Nothing.is = "nothing" /\ Torn.is = "torn"
  BY DEF Nothing, Torn
<1>3. {"is"} # {"key", "flag"}
  OBVIOUS
<1> QED BY <1>1, <1>2, <1>3 DEF IsRecord

LEMMA Readable ==
    ASSUME NEW file
    PROVE  /\ file.tail \in {Nothing, Torn} => readable(file) = file.lines
           /\ file.tail \notin {Nothing, Torn} =>
                 DOMAIN readable(file) = DOMAIN file.lines \cup {file.tail.key}
BY DEF readable, put

LEMMA KnownPairs == ASSUME Shaped, NEW a \in DOMAIN caches, NEW k \in Known(a) PROVE k = <<k[1], k[2]>>
<1>1. CASE caches[a].tail \in {Nothing, Torn}
  BY <1>1, Readable DEF Known, Shaped
<1>2. CASE caches[a].tail \notin {Nothing, Torn}
  <2>1. k \in DOMAIN caches[a].lines \/ k = caches[a].tail.key
    BY <1>2, Readable DEF Known
  <2>2. IsRecord(caches[a].tail) /\ \A x \in DOMAIN caches[a].lines : x = <<x[1], x[2]>>
    BY <1>2 DEF Shaped
  <2> QED BY <2>1, <2>2 DEF IsRecord
<1> QED BY <1>1, <1>2

LEMMA LoadedIs ==
    ASSUME Shaped, NEW d
    PROVE  /\ \A a \in DOMAIN caches : \A k \in Known(a) : k[1] = fingerprint(d) => <<k[2], a>> \in DOMAIN loaded(d)
           /\ \A c \in DOMAIN loaded(d) :
                 /\ c = <<c[1], c[2]>> /\ c[2] \in DOMAIN caches /\ <<fingerprint(d), c[1]>> \in Known(c[2])
                 /\ loaded(d)[c] = readable(caches[c[2]])[<<fingerprint(d), c[1]>>]
<1> DEFINE of(a) == {<<k[2], a>> : k \in {x \in Known(a) : x[1] = fingerprint(d)}}
           known == UNION {of(a) : a \in DOMAIN caches}
<1>1. DOMAIN loaded(d) = known /\ \A c \in known : loaded(d)[c] = readable(caches[c[2]])[<<fingerprint(d), c[1]>>]
  BY DEF loaded, Known
<1>2. ASSUME NEW a \in DOMAIN caches, NEW k \in Known(a), k[1] = fingerprint(d) PROVE <<k[2], a>> \in known
  BY <1>2
<1>3. ASSUME NEW c \in known
      PROVE  c = <<c[1], c[2]>> /\ c[2] \in DOMAIN caches /\ <<fingerprint(d), c[1]>> \in Known(c[2])
  <2>1. PICK a \in DOMAIN caches : c \in of(a)
    OBVIOUS
  <2>2. PICK k \in Known(a) : k[1] = fingerprint(d) /\ c = <<k[2], a>>
    BY <2>1
  <2>3. k = <<fingerprint(d), k[2]>>
    BY <2>2, KnownPairs
  <2> QED BY <2>2, <2>3
<1> QED BY <1>1, <1>2, <1>3

(* The cell that is asked for is not in its file.                          *)
LEMMA Unanswered ==
    ASSUME Inv, Shaped, Remembered, run.phase = "arms", missing # {}
    PROVE  /\ next_cell = <<next_cell[1], next_cell[2]>> /\ next_cell[2] \in DOMAIN caches
           /\ <<fingerprint(run.design), next_cell[1]>> \notin Known(next_cell[2])
<1>1. Running
  BY DEF Running
<1>2. /\ next_cell \in missing /\ next_cell = <<next_cell[1], next_cell[2]>>
      /\ next_cell[2] \in DOMAIN caches
  BY <1>1, NextCell DEF Shaped
<1>3. next_cell \notin DOMAIN run.answered
  BY <1>2 DEF missing
<1>4. ASSUME <<fingerprint(run.design), next_cell[1]>> \in Known(next_cell[2]) PROVE FALSE
  <2>1. <<next_cell[1], next_cell[2]>> \in DOMAIN run.answered
    BY <1>2, <1>4 DEF Remembered
  <2> QED BY <1>2, <1>3, <2>1
<1> QED BY <1>2, <1>4

(* What an append does to a file, whole or torn.                           *)
LEMMA Appending ==
    ASSUME NEW file, DOMAIN file = {"lines", "tail"}, NEW key, NEW flag, NEW g,
           g = appended(file, key, flag)
    PROVE  /\ DOMAIN g = {"lines", "tail"} /\ g.tail = Nothing
           /\ file.tail = Nothing =>
                 /\ DOMAIN g.lines = DOMAIN file.lines \cup {key}
                 /\ \A k \in DOMAIN file.lines : k # key => g.lines[k] = file.lines[k]
                 /\ g.lines[key] = flag
           /\ file.tail # Nothing => g.lines = file.lines
<1>1. CASE file.tail = Nothing
  <2>1. g = [file EXCEPT !.lines = put(@, key, flag)]
    BY <1>1 DEF appended
  <2>2. DOMAIN g = {"lines", "tail"} /\ g.tail = Nothing /\ g.lines = put(file.lines, key, flag)
    BY <1>1, <2>1
  <2> QED BY <1>1, <2>2 DEF put
<1>2. CASE file.tail # Nothing
  BY <1>2 DEF appended
<1> QED BY <1>1, <1>2

LEMMA Tearing ==
    ASSUME NEW file, DOMAIN file = {"lines", "tail"}, NEW key, NEW flag,
           NEW g \in {file} \cup TornAppends(file, key, flag)
    PROVE  /\ DOMAIN g = {"lines", "tail"} /\ g.lines = file.lines
           /\ \/ g.tail = file.tail \/ g.tail = Torn
              \/ file.tail = Nothing /\ g.tail = [key |-> key, flag |-> flag]
<1>1. CASE g = file
  BY <1>1
<1>2. CASE g = [file EXCEPT !.tail = Torn]
  BY <1>2
<1>3. CASE file.tail = Nothing /\ g = [file EXCEPT !.tail = [key |-> key, flag |-> flag]]
  BY <1>3
<1> QED BY <1>1, <1>2, <1>3 DEF TornAppends

Files == Shaped /\ Remembered

(* A cell is asked for: one file changes.                                  *)
Asked(id, arm) ==
    /\ arm \in DOMAIN caches /\ next_cell = <<id, arm>>
    /\ <<fingerprint(run.design), id>> \notin Known(arm)
    /\ Ask(id, arm)

LEMMA AnswerAsks ==
    ASSUME Inv, Files, AnswerCell
    PROVE  \E id, arm, flag, g :
              /\ Asked(id, arm)
              /\ g = appended(caches[arm], <<fingerprint(run.design), id>>, flag)
              /\ caches' = [caches EXCEPT ![arm] = g]
              /\ run' = [run EXCEPT !.answered = put(@, <<id, arm>>, flag), !.spent = @ + 1]
<1> DEFINE id == next_cell[1]
           arm == next_cell[2]
<1>1. PICK flag : /\ Ask(id, arm)
                  /\ caches' = [caches EXCEPT ![arm] = appended(@, <<fingerprint(run.design), id>>, flag)]
                  /\ run' = [run EXCEPT !.answered = put(@, next_cell, flag), !.spent = @ + 1]
  BY DEF AnswerCell
<1>2. next_cell = <<id, arm>> /\ arm \in DOMAIN caches /\ <<fingerprint(run.design), id>> \notin Known(arm)
  BY Unanswered DEF AnswerCell, Files
<1>3. caches' = [caches EXCEPT ![arm] = appended(caches[arm], <<fingerprint(run.design), id>>, flag)]
  BY <1>1
<1>4. Asked(id, arm)
  BY <1>1, <1>2 DEF Asked
<1>5. run' = [run EXCEPT !.answered = put(@, <<id, arm>>, flag), !.spent = @ + 1]
  BY <1>1, <1>2
<1> HIDE DEF id, arm
<1> QED BY <1>3, <1>4, <1>5

LEMMA KillAsks ==
    ASSUME Inv, Files, KillInCell
    PROVE  \E id, arm, flag, g :
              /\ Asked(id, arm)
              /\ g \in {caches[arm]} \cup TornAppends(caches[arm], <<fingerprint(run.design), id>>, flag)
              /\ caches' = [caches EXCEPT ![arm] = g]
<1> DEFINE id == next_cell[1]
           arm == next_cell[2]
<1>1. PICK flag :
         /\ Ask(id, arm)
         /\ \E g \in {caches[arm]} \cup TornAppends(caches[arm], <<fingerprint(run.design), id>>, flag) :
               caches' = [caches EXCEPT ![arm] = g]
  BY DEF KillInCell
<1>2. next_cell = <<id, arm>> /\ arm \in DOMAIN caches /\ <<fingerprint(run.design), id>> \notin Known(arm)
  BY Unanswered DEF KillInCell, Files
<1>3. Asked(id, arm)
  BY <1>1, <1>2 DEF Asked
<1> HIDE DEF id, arm
<1> QED BY <1>1, <1>3

LEMMA AnswerFiles == ASSUME Inv, Files, AnswerCell PROVE Files'
<1>1. PICK id, arm, flag, g :
         /\ Asked(id, arm)
         /\ g = appended(caches[arm], <<fingerprint(run.design), id>>, flag)
         /\ caches' = [caches EXCEPT ![arm] = g]
         /\ run' = [run EXCEPT !.answered = put(@, <<id, arm>>, flag), !.spent = @ + 1]
  BY AnswerAsks
<1>2. arm \in DOMAIN caches /\ DOMAIN caches[arm] = {"lines", "tail"}
  BY <1>1 DEF Asked, Files, Shaped
<1>3. /\ DOMAIN g = {"lines", "tail"} /\ g.tail = Nothing
      /\ DOMAIN g.lines \subseteq DOMAIN caches[arm].lines \cup {<<fingerprint(run.design), id>>}
  BY <1>1, <1>2, Appending
<1>4. /\ DOMAIN caches' = DOMAIN caches
      /\ \A a \in DOMAIN caches : caches'[a] = IF a = arm THEN g ELSE caches[a]
  BY <1>1, <1>2
<1>5. Shaped'
  BY <1>2, <1>3, <1>4 DEF Files, Shaped
<1>6. Remembered'
  <2>1. run.phase = "arms" /\ DOMAIN run = Fields
    BY DEF AnswerCell, Inv, Prepared, Running
  <2>2. run'.design = run.design /\ DOMAIN run'.answered = DOMAIN run.answered \cup {<<id, arm>>}
    BY <1>1, <2>1 DEF Fields, put
  <2>3. ASSUME NEW a \in DOMAIN caches', NEW k \in Known(a)', k[1] = fingerprint(run'.design)
        PROVE  <<k[2], a>> \in DOMAIN run'.answered
    <3>1. CASE a # arm
      <4>1. k \in Known(a) /\ a \in DOMAIN caches
        BY <1>4, <2>3, <3>1 DEF Known
      <4> QED BY <2>1, <2>2, <2>3, <3>1, <4>1 DEF Files, Remembered
    <3>2. CASE a = arm
      <4>1. readable(g) = g.lines /\ Known(a)' = DOMAIN readable(g)
        BY <1>3, <1>4, <2>3, <3>2, Readable DEF Known
      <4>2. k \in DOMAIN caches[arm].lines \/ k = <<fingerprint(run.design), id>>
        BY <1>3, <2>3, <4>1
      <4>3. CASE k = <<fingerprint(run.design), id>>
        BY <2>2, <3>2, <4>3
      <4>4. CASE k \in DOMAIN caches[arm].lines
        <5>1. k \in Known(arm)
          BY <4>4, Readable DEF Known
        <5> QED BY <1>2, <2>1, <2>2, <2>3, <3>2, <5>1 DEF Files, Remembered
      <4> QED BY <4>2, <4>3, <4>4
    <3> QED BY <3>1, <3>2
  <2> QED BY <2>3 DEF Remembered
<1> QED BY <1>5, <1>6 DEF Files

LEMMA KillFiles == ASSUME Inv, Files, KillInCell PROVE Files'
<1>1. PICK id, arm, flag, g :
         /\ Asked(id, arm)
         /\ g \in {caches[arm]} \cup TornAppends(caches[arm], <<fingerprint(run.design), id>>, flag)
         /\ caches' = [caches EXCEPT ![arm] = g]
  BY KillAsks
<1> DEFINE key == <<fingerprint(run.design), id>>
<1>2. arm \in DOMAIN caches /\ DOMAIN caches[arm] = {"lines", "tail"}
  BY <1>1 DEF Asked, Files, Shaped
<1>3. /\ DOMAIN g = {"lines", "tail"} /\ g.lines = caches[arm].lines
      /\ \/ g.tail = caches[arm].tail \/ g.tail = Torn
         \/ g.tail = [key |-> key, flag |-> flag]
  BY <1>1, <1>2, Tearing
<1>4. g.tail \in {Nothing, Torn} \/ IsRecord(g.tail)
  BY <1>2, <1>3 DEF Files, Shaped, IsRecord
<1>5. /\ DOMAIN caches' = DOMAIN caches
      /\ \A a \in DOMAIN caches : caches'[a] = IF a = arm THEN g ELSE caches[a]
  BY <1>1, <1>2
<1>6. Shaped'
  BY <1>2, <1>3, <1>4, <1>5 DEF Files, Shaped
<1>7. run'.phase # "arms"
  BY DEF KillInCell, Killed, Dies, Down
<1> QED BY <1>6, <1>7 DEF Files, Remembered

LEMMA StartFiles == ASSUME Files, NEW d, StartRun(d) PROVE Files'
<1>1. caches' = caches /\ run'.design = d /\ run'.answered = loaded(d)
  BY DEF StartRun
<1>2. Shaped' /\ \A a \in DOMAIN caches : Known(a)' = Known(a)
  BY <1>1 DEF Files, Shaped, Known
<1>3. Remembered'
  BY <1>1, <1>2, LoadedIs DEF Files, Remembered
<1> QED BY <1>2, <1>3 DEF Files

LEMMA QuietFiles == ASSUME Files, caches' = caches, run'.phase # "arms" \/ run' = run PROVE Files'
BY DEF Files, Shaped, Remembered, Known

LEMMA InitFiles == Init => Files
<1> SUFFICES ASSUME Init PROVE Files
  OBVIOUS
<1>1. Remembered
  BY DEF Init, Down, Remembered
<1>2. DOMAIN EmptyFile = {"lines", "tail"} /\ DOMAIN EmptyFile.lines = {} /\ EmptyFile.tail = Nothing
  BY DEF EmptyFile, NoMap
<1>3. caches = [a \in ToSet(ModelArms) |-> EmptyFile]
  BY DEF Init
<1>4. Shaped
  BY <1>2, <1>3 DEF Shaped
<1> QED BY <1>1, <1>4 DEF Files

(* The steps that leave the files alone.                                   *)
Quiet ==
    \/ StartProcess \/ OverCeiling \/ AppendLook \/ ScoreGate \/ WriteCells \/ WriteManifest
    \/ Kill \/ KillInWrite \/ Exit
    \/ \E d \in world.designs : Refused(d)

LEMMA Quietly == ASSUME Inv, Quiet PROVE caches' = caches /\ calls' = calls /\ run'.phase # "arms"
<1>1. CASE StartProcess \/ WriteManifest
  BY <1>1 DEF StartProcess, WriteManifest, Idle
<1>2. CASE OverCeiling \/ Kill \/ KillInWrite \/ Exit
  BY <1>2 DEF OverCeiling, Kill, KillInWrite, Exit, Killed, Dies, Down
<1>3. CASE \E d \in world.designs : Refused(d)
  BY <1>3 DEF Refused, Dies, Down
<1>4. CASE AppendLook \/ ScoreGate \/ WriteCells
  <2>1. DOMAIN run = Fields
    BY <1>4 DEF AppendLook, ScoreGate, WriteCells, Inv, Prepared, Running
  <2>2. run'.phase \in {"score", "cells", "manifest"}
    BY <1>4, <2>1 DEF AppendLook, ScoreGate, WriteCells, Fields
  <2> QED BY <1>4, <2>2 DEF AppendLook, ScoreGate, WriteCells
<1> QED BY <1>1, <1>2, <1>3, <1>4 DEF Quiet

LEMMA StepIs ==
    ASSUME [Next]_vars
    PROVE  \/ Quiet \/ AnswerCell \/ KillInCell \/ UNCHANGED vars
           \/ \E d \in world.designs : StartRun(d)
BY DEF Next, Quiet

LEMMA FilesStep == ASSUME Inv, Files, [Next]_vars PROVE Files'
<1>1. CASE Quiet
  BY <1>1, Quietly, QuietFiles
<1>2. CASE UNCHANGED vars
  BY <1>2, QuietFiles DEF vars
<1> QED BY <1>1, <1>2, StepIs, AnswerFiles, KillFiles, StartFiles

-----------------------------------------------------------------------------
(* What a kill costs.  An answer is lost when its call is counted and no   *)
(* file has it; a file owes what the next append to it will lose: itself,  *)
(* behind an unfinished line, and the record that lacks its newline.       *)

Called ==
    /\ \A k \in DOMAIN calls : k = <<k[1], k[2], k[3]>>
    /\ \A k \in DOMAIN calls : calls[k] \in 1..MaxCalls

Recorded(k) == k[3] \in DOMAIN caches /\ <<k[1], k[2]>> \in Known(k[3])

Lost ==
    {c \in (DOMAIN calls) \X (1..MaxCalls) :
        c[2] <= calls[c[1]] /\ ~(c[2] = 1 /\ Recorded(c[1]))}

Owed ==
    {t \in (DOMAIN caches) \X {1, 2} :
        caches[t[1]].tail # Nothing /\ (t[2] = 1 \/ caches[t[1]].tail # Torn)}

Paid ==
    /\ kills \in Nat /\ Called
    /\ IsFiniteSet(Lost) /\ IsFiniteSet(Owed)
    /\ Cardinality(Lost) + Cardinality(Owed) <= 2 * kills

(* Sets that gain or lose an element. *)
LEMMA Gains ==
    ASSUME NEW S, IsFiniteSet(S), NEW x, NEW T, T \subseteq S \cup {x}
    PROVE  /\ IsFiniteSet(T) /\ Cardinality(T) \in Nat /\ Cardinality(S) \in Nat
           /\ Cardinality(T) <= Cardinality(S) + 1
<1> DEFINE U == S \cup {x}
<1>1. /\ IsFiniteSet(U) /\ Cardinality(S) \in Nat
      /\ Cardinality(U) = Cardinality(S) \/ Cardinality(U) = Cardinality(S) + 1
  BY FS_AddElement, FS_CardinalityType
<1> HIDE DEF U
<1>2. T \subseteq U
  BY DEF U
<1>3. IsFiniteSet(T) /\ Cardinality(T) \in Nat /\ Cardinality(T) <= Cardinality(U)
        /\ Cardinality(U) \in Nat
  BY <1>1, <1>2, FS_Subset, FS_CardinalityType
<1> QED BY <1>1, <1>3

LEMMA Loses ==
    ASSUME NEW S, IsFiniteSet(S), NEW x \in S, NEW T, T \subseteq S \ {x}
    PROVE  /\ IsFiniteSet(T) /\ Cardinality(T) \in Nat /\ Cardinality(S) \in Nat
           /\ Cardinality(T) + 1 <= Cardinality(S)
<1> DEFINE U == S \ {x}
<1>1. IsFiniteSet(U) /\ Cardinality(S) \in Nat /\ Cardinality(U) = Cardinality(S) - 1
  BY FS_RemoveElement, FS_CardinalityType
<1> HIDE DEF U
<1>2. T \subseteq U
  BY DEF U
<1>3. IsFiniteSet(T) /\ Cardinality(T) \in Nat /\ Cardinality(T) <= Cardinality(U)
        /\ Cardinality(U) \in Nat
  BY <1>1, <1>2, FS_Subset, FS_CardinalityType
<1> QED BY <1>1, <1>3

LEMMA GainsTwo ==
    ASSUME NEW S, IsFiniteSet(S), NEW x, NEW y, NEW T, T \subseteq (S \cup {x}) \cup {y}
    PROVE  /\ IsFiniteSet(T) /\ Cardinality(T) \in Nat /\ Cardinality(S) \in Nat
           /\ Cardinality(T) <= Cardinality(S) + 2
<1> DEFINE U == S \cup {x}
<1>1. IsFiniteSet(U) /\ Cardinality(U) \in Nat /\ Cardinality(S) \in Nat
        /\ Cardinality(U) <= Cardinality(S) + 1
  BY Gains
<1> HIDE DEF U
<1>2. T \subseteq U \cup {y}
  BY DEF U
<1>3. IsFiniteSet(T) /\ Cardinality(T) \in Nat /\ Cardinality(T) <= Cardinality(U) + 1
  BY <1>1, <1>2, Gains
<1> QED BY <1>1, <1>3

LEMMA LosesTwo ==
    ASSUME NEW S, IsFiniteSet(S), NEW x \in S, NEW y \in S \ {x}, NEW T, T \subseteq (S \ {x}) \ {y}
    PROVE  /\ IsFiniteSet(T) /\ Cardinality(T) \in Nat /\ Cardinality(S) \in Nat
           /\ Cardinality(T) + 2 <= Cardinality(S)
<1> DEFINE U == S \ {x}
<1>1. IsFiniteSet(U) /\ Cardinality(U) \in Nat /\ Cardinality(S) \in Nat
        /\ Cardinality(U) + 1 <= Cardinality(S)
  BY Loses
<1>2. y \in U /\ T \subseteq U \ {y}
  OBVIOUS
<1> HIDE DEF U
<1>3. IsFiniteSet(T) /\ Cardinality(T) \in Nat /\ Cardinality(T) + 1 <= Cardinality(U)
  BY <1>1, <1>2, Loses
<1> QED BY <1>1, <1>3

CallOf(id, arm) == <<fingerprint(run.design), id, arm>>

(* A call is counted once more, up to the bound.                           *)
LEMMA Counted ==
    ASSUME Called, NEW id, NEW arm, NEW key, key = CallOf(id, arm), Ask(id, arm)
    PROVE  /\ Called' /\ DOMAIN calls' = DOMAIN calls \cup {key}
           /\ \A k \in DOMAIN calls : k # key => calls'[k] = calls[k]
           /\ key \notin DOMAIN calls => calls'[key] = 1
           /\ key \in DOMAIN calls => calls'[key] - 1 <= calls[key]
           /\ calls'[key] \in 1..MaxCalls
<1> DEFINE n == IF key \notin DOMAIN calls THEN 1
                ELSE IF calls[key] < MaxCalls THEN calls[key] + 1 ELSE MaxCalls
<1>1. calls' = put(calls, key, n) /\ key = <<key[1], key[2], key[3]>>
  BY DEF Ask, CallOf
<1>2. MaxCalls \in Nat \ {0}
  BY GateAssumption DEF GateAssumption
<1>3. /\ n \in 1..MaxCalls
      /\ key \notin DOMAIN calls => n = 1
      /\ key \in DOMAIN calls => n - 1 <= calls[key]
  <2>1. CASE key \in DOMAIN calls
    <3>1. calls[key] \in 1..MaxCalls
      BY <2>1 DEF Called
    <3> QED BY <1>2, <2>1, <3>1
  <2>2. CASE key \notin DOMAIN calls
    BY <1>2, <2>2
  <2> QED BY <2>1, <2>2
<1> HIDE DEF n
<1>4. /\ DOMAIN calls' = DOMAIN calls \cup {key} /\ calls'[key] = n
      /\ \A k \in DOMAIN calls : k # key => calls'[k] = calls[k]
  BY <1>1 DEF put
<1>5. Called'
  <2>1. ASSUME NEW k \in DOMAIN calls' PROVE k = <<k[1], k[2], k[3]>> /\ calls'[k] \in 1..MaxCalls
    <3>1. CASE k = key
      BY <1>1, <1>3, <1>4, <3>1
    <3>2. CASE k # key
      <4>1. k \in DOMAIN calls /\ calls'[k] = calls[k]
        BY <1>4, <2>1, <3>2
      <4> QED BY <4>1 DEF Called
    <3> QED BY <3>1, <3>2
  <2> QED BY <2>1 DEF Called
<1> QED BY <1>3, <1>4, <1>5

(* A call that is not recorded loses one answer more, and so does every    *)
(* record that its file loses with it.                                     *)
LEMMA LosesCall ==
    ASSUME Called, Shaped, NEW id, NEW arm, Asked(id, arm), NEW gone,
           DOMAIN caches' = DOMAIN caches,
           \A a \in DOMAIN caches : a # arm => Known(a)' = Known(a),
           Known(arm) \ {gone} \subseteq Known(arm)',
           NEW key, key = CallOf(id, arm),
           NEW x, x = <<key, calls'[key]>>,
           NEW y, y = <<<<gone[1], gone[2], arm>>, 1>>
    PROVE  /\ Called' /\ Lost' \subseteq (Lost \cup {x}) \cup {y}
           /\ gone \notin Known(arm) => Lost' \subseteq Lost \cup {x}
<1>1. /\ Called' /\ DOMAIN calls' = DOMAIN calls \cup {key}
      /\ \A k \in DOMAIN calls : k # key => calls'[k] = calls[k]
      /\ key \notin DOMAIN calls => calls'[key] = 1
      /\ key \in DOMAIN calls => calls'[key] - 1 <= calls[key]
      /\ calls'[key] \in 1..MaxCalls
  <2>1. Ask(id, arm)
    BY DEF Asked
  <2> QED BY <2>1, Counted, ZenonT(40)
<1>2. MaxCalls \in Nat
  BY GateAssumption DEF GateAssumption
<1>3. ASSUME NEW c \in Lost', c # x PROVE c \in Lost \/ (gone \in Known(arm) /\ c = y)
  <2>1. /\ c = <<c[1], c[2]>> /\ c[1] \in DOMAIN calls' /\ c[2] \in 1..MaxCalls
        /\ c[2] <= calls'[c[1]] /\ ~(c[2] = 1 /\ Recorded(c[1])')
    BY <1>3 DEF Lost
  <2>2. c[1] \in DOMAIN calls /\ c[2] <= calls[c[1]]
    <3>1. CASE c[1] = key
      <4>1. c[2] # calls'[key]
        BY <1>3, <2>1, <3>1
      <4>2. key \in DOMAIN calls
        BY <1>1, <2>1, <3>1, <4>1
      <4>3. calls[key] \in 1..MaxCalls
        BY <4>2 DEF Called
      <4> QED BY <1>1, <1>2, <2>1, <3>1, <4>1, <4>2, <4>3
    <3>2. CASE c[1] # key
      BY <1>1, <2>1, <3>2
    <3> QED BY <3>1, <3>2
  <2>3. CASE ~(c[2] = 1 /\ Recorded(c[1]))
    BY <2>1, <2>2, <2>3 DEF Lost
  <2>4. CASE c[2] = 1 /\ Recorded(c[1])
    <3>1. PICK k : k = c[1]
      OBVIOUS
    <3>2. k = <<k[1], k[2], k[3]>> /\ k[3] \in DOMAIN caches /\ <<k[1], k[2]>> \in Known(k[3])
      BY <2>2, <2>4, <3>1 DEF Called, Recorded
    <3>3. ~(<<k[1], k[2]>> \in Known(k[3])')
      BY <2>1, <2>4, <3>1, <3>2 DEF Recorded
    <3>4. k[3] = arm /\ gone = <<k[1], k[2]>>
      BY <3>2, <3>3
    <3> QED BY <2>1, <2>4, <3>1, <3>2, <3>4
  <2> QED BY <2>3, <2>4
<1>4. Lost' \subseteq (Lost \cup {x}) \cup {y}
  BY <1>3
<1>5. gone \notin Known(arm) => Lost' \subseteq Lost \cup {x}
  BY <1>3
<1> QED BY <1>1, <1>4, <1>5

(* A call that is recorded loses nothing.                                  *)
LEMMA KeepsCall ==
    ASSUME Paid, Shaped, NEW id, NEW arm, Asked(id, arm),
           DOMAIN caches' = DOMAIN caches,
           \A a \in DOMAIN caches : a # arm => Known(a)' = Known(a),
           Known(arm) \subseteq Known(arm)', <<fingerprint(run.design), id>> \in Known(arm)'
    PROVE  /\ Called' /\ IsFiniteSet(Lost') /\ Cardinality(Lost') \in Nat
           /\ Cardinality(Lost) \in Nat /\ Cardinality(Lost') <= Cardinality(Lost)
<1>1. PICK key : key = CallOf(id, arm)
  OBVIOUS
<1>2. PICK x : x = <<key, calls'[key]>>
  OBVIOUS
<1>3. PICK z : z = <<key, 1>>
  OBVIOUS
<1>4. arm \in DOMAIN caches /\ <<fingerprint(run.design), id>> \notin Known(arm) /\ Ask(id, arm)
  BY DEF Asked
<1>5. Called' /\ Lost' \subseteq Lost \cup {x}
  <2>1. Known(arm) \ {<<fingerprint(run.design), id>>} \subseteq Known(arm)'
    OBVIOUS
  <2>2. PICK y : y = <<<<(<<fingerprint(run.design), id>>)[1], (<<fingerprint(run.design), id>>)[2], arm>>, 1>>
    OBVIOUS
  <2> QED BY <1>1, <1>2, <1>4, <2>1, <2>2, LosesCall DEF Paid
<1>6. Recorded(key)' /\ ~Recorded(key)
  BY <1>1, <1>4 DEF Recorded, CallOf
<1>7. z \notin Lost'
  BY <1>3, <1>6 DEF Lost
<1>8. CASE key \in DOMAIN calls
  <2>1. MaxCalls \in Nat \ {0} /\ calls[key] \in 1..MaxCalls
    BY <1>8, GateAssumption DEF GateAssumption, Paid, Called
  <2>2. 1 \in 1..MaxCalls /\ 1 <= calls[key]
    BY <2>1
  <2>3. z \in Lost
    BY <1>3, <1>6, <1>8, <2>2 DEF Lost
  <2> DEFINE U == Lost \ {z}
  <2>4. IsFiniteSet(U) /\ Cardinality(U) \in Nat /\ Cardinality(Lost) \in Nat
          /\ Cardinality(U) + 1 <= Cardinality(Lost)
    BY <2>3, Loses DEF Paid
  <2>5. Lost' \subseteq U \cup {x}
    BY <1>5, <1>7
  <2> HIDE DEF U
  <2>6. IsFiniteSet(Lost') /\ Cardinality(Lost') \in Nat /\ Cardinality(Lost') <= Cardinality(U) + 1
    BY <2>4, <2>5, Gains
  <2> QED BY <1>5, <2>4, <2>6
<1>9. CASE key \notin DOMAIN calls
  <2>1. calls'[key] = 1
    BY <1>1, <1>4, <1>9, Counted DEF Paid
  <2>2. Lost' \subseteq Lost
    BY <1>2, <1>3, <1>5, <1>7, <2>1
  <2> QED BY <1>5, <2>2, FS_Subset, FS_CardinalityType DEF Paid
<1> QED BY <1>8, <1>9

(* What a file owes for its unfinished line.                               *)
Owing(tail) == IF tail = Nothing THEN {} ELSE IF tail = Torn THEN {1} ELSE {1, 2}

LEMMA OwedIs ==
    ASSUME Shaped, NEW arm \in DOMAIN caches, NEW g, caches' = [caches EXCEPT ![arm] = g]
    PROVE  /\ \A n \in {1, 2} : <<arm, n>> \in Owed <=> n \in Owing(caches[arm].tail)
           /\ \A n \in {1, 2} : <<arm, n>> \in Owed' <=> n \in Owing(g.tail)
           /\ Owed' \subseteq (Owed \cup {<<arm, 1>>}) \cup {<<arm, 2>>}
           /\ Owed \ {<<arm, 1>>, <<arm, 2>>} = Owed' \ {<<arm, 1>>, <<arm, 2>>}
<1>1. /\ DOMAIN caches' = DOMAIN caches /\ caches'[arm] = g
      /\ \A a \in DOMAIN caches : a # arm => caches'[a] = caches[a]
  OBVIOUS
<1>2. \A n \in {1, 2} : <<arm, n>> \in Owed <=> n \in Owing(caches[arm].tail)
  BY Tails DEF Owed, Owing
<1>3. \A n \in {1, 2} : <<arm, n>> \in Owed' <=> n \in Owing(g.tail)
  BY <1>1, Tails DEF Owed, Owing
<1>4. \A a, n : a # arm => (<<a, n>> \in Owed' <=> <<a, n>> \in Owed)
  BY <1>1 DEF Owed
<1>5. \A t \in Owed \cup Owed' : t = <<t[1], t[2]>> /\ t[2] \in {1, 2}
  BY DEF Owed
<1> QED BY <1>2, <1>3, <1>4, <1>5

LEMMA AnswerPaid == ASSUME Inv, Files, Paid, AnswerCell PROVE Paid'
<1>1. PICK id, arm, flag, g :
         /\ Asked(id, arm)
         /\ g = appended(caches[arm], <<fingerprint(run.design), id>>, flag)
         /\ caches' = [caches EXCEPT ![arm] = g]
  BY AnswerAsks
<1> DEFINE file == caches[arm]
<1>2. arm \in DOMAIN caches /\ DOMAIN file = {"lines", "tail"} /\ Shaped
  BY <1>1 DEF Asked, Files, Shaped
<1>3. /\ g.tail = Nothing
      /\ file.tail = Nothing => DOMAIN g.lines = DOMAIN file.lines \cup {<<fingerprint(run.design), id>>}
      /\ file.tail # Nothing => g.lines = file.lines
  BY <1>1, <1>2, Appending
<1>4. /\ DOMAIN caches' = DOMAIN caches
      /\ \A a \in DOMAIN caches : a # arm => Known(a)' = Known(a)
  BY <1>1, <1>2 DEF Known
<1>5. Known(arm)' = DOMAIN g.lines
  <2>1. readable(g) = g.lines /\ caches'[arm] = g
    BY <1>1, <1>2, <1>3, Readable
  <2> QED BY <2>1 DEF Known
<1>6. /\ file.tail \in {Nothing, Torn} => Known(arm) = DOMAIN file.lines
      /\ file.tail \notin {Nothing, Torn} => Known(arm) = DOMAIN file.lines \cup {file.tail.key}
  BY Readable DEF Known
<1>7. kills' = kills /\ kills \in Nat /\ IsFiniteSet(Lost) /\ IsFiniteSet(Owed)
      /\ Cardinality(Lost) + Cardinality(Owed) <= 2 * kills /\ Called
  BY DEF AnswerCell, Paid
<1>8. /\ \A n \in {1, 2} : <<arm, n>> \in Owed <=> n \in Owing(file.tail)
      /\ <<arm, 1>> \notin Owed' /\ <<arm, 2>> \notin Owed'
      /\ Owed' \subseteq (Owed \cup {<<arm, 1>>}) \cup {<<arm, 2>>}
  BY <1>1, <1>2, <1>3, OwedIs DEF Owing
<1> HIDE DEF file
<1>k. PICK key : key = CallOf(id, arm)
  OBVIOUS
<1>x. PICK x : x = <<key, calls'[key]>>
  OBVIOUS
<1>9. CASE file.tail = Nothing
  <2>1. Called' /\ IsFiniteSet(Lost') /\ Cardinality(Lost') \in Nat
        /\ Cardinality(Lost) \in Nat /\ Cardinality(Lost') <= Cardinality(Lost)
    <3>1. Known(arm) \subseteq Known(arm)' /\ <<fingerprint(run.design), id>> \in Known(arm)'
      BY <1>3, <1>5, <1>6, <1>9
    <3> QED BY <1>1, <1>2, <1>4, <3>1, KeepsCall
  <2>2. Owed' \subseteq Owed
    BY <1>8
  <2>3. IsFiniteSet(Owed') /\ Cardinality(Owed') <= Cardinality(Owed)
        /\ Cardinality(Owed') \in Nat /\ Cardinality(Owed) \in Nat
    BY <1>7, <2>2, FS_Subset, FS_CardinalityType
  <2>4. Cardinality(Lost') + Cardinality(Owed') <= 2 * kills
    BY <1>7, <2>1, <2>3
  <2> QED BY <1>7, <2>1, <2>3, <2>4 DEF Paid
<1>10. CASE file.tail = Torn
  <2>1. Called' /\ Lost' \subseteq Lost \cup {x}
    <3>1. PICK gone : gone \notin Known(arm)
      BY <1>1 DEF Asked
    <3>2. Known(arm) \ {gone} \subseteq Known(arm)'
      BY <1>3, <1>5, <1>6, <1>10, Tails
    <3>3. PICK y : y = <<<<gone[1], gone[2], arm>>, 1>>
      OBVIOUS
    <3> QED BY <1>1, <1>2, <1>4, <1>7, <1>k, <1>x, <3>1, <3>2, <3>3, LosesCall
  <2>2. IsFiniteSet(Lost') /\ Cardinality(Lost') \in Nat
        /\ Cardinality(Lost) \in Nat /\ Cardinality(Lost') <= Cardinality(Lost) + 1
    BY <1>7, <2>1, Gains
  <2>3. <<arm, 1>> \in Owed /\ Owed' \subseteq Owed \ {<<arm, 1>>}
    BY <1>8, <1>10, Tails DEF Owing
  <2>4. IsFiniteSet(Owed') /\ Cardinality(Owed') + 1 <= Cardinality(Owed)
        /\ Cardinality(Owed') \in Nat /\ Cardinality(Owed) \in Nat
    BY <1>7, <2>3, Loses
  <2>5. Cardinality(Lost') + Cardinality(Owed') <= 2 * kills
    BY <1>7, <2>2, <2>4
  <2> QED BY <1>7, <2>1, <2>2, <2>4, <2>5 DEF Paid
<1>11. CASE file.tail \notin {Nothing, Torn}
  <2>1. PICK gone : gone = file.tail.key
    OBVIOUS
  <2>2. PICK y : y = <<<<gone[1], gone[2], arm>>, 1>>
    OBVIOUS
  <2>3. Called' /\ Lost' \subseteq (Lost \cup {x}) \cup {y}
    <3>1. Known(arm) \ {gone} \subseteq Known(arm)'
      BY <1>3, <1>5, <1>6, <1>11, <2>1
    <3> QED BY <1>1, <1>2, <1>4, <1>7, <1>k, <1>x, <2>2, <3>1, LosesCall
  <2>4. IsFiniteSet(Lost') /\ Cardinality(Lost') \in Nat
        /\ Cardinality(Lost) \in Nat /\ Cardinality(Lost') <= Cardinality(Lost) + 2
    BY <1>7, <2>3, GainsTwo
  <2>5. <<arm, 1>> \in Owed /\ <<arm, 2>> \in Owed \ {<<arm, 1>>}
        /\ Owed' \subseteq (Owed \ {<<arm, 1>>}) \ {<<arm, 2>>}
    BY <1>8, <1>11 DEF Owing
  <2>6. IsFiniteSet(Owed') /\ Cardinality(Owed') + 2 <= Cardinality(Owed)
        /\ Cardinality(Owed') \in Nat /\ Cardinality(Owed) \in Nat
    BY <1>7, <2>5, LosesTwo
  <2>7. Cardinality(Lost') + Cardinality(Owed') <= 2 * kills
    BY <1>7, <2>4, <2>6
  <2> QED BY <1>7, <2>3, <2>4, <2>6, <2>7 DEF Paid
<1> QED BY <1>9, <1>10, <1>11

LEMMA KillPaid == ASSUME Inv, Files, Paid, KillInCell PROVE Paid'
<1>1. PICK id, arm, flag, g :
         /\ Asked(id, arm)
         /\ g \in {caches[arm]} \cup TornAppends(caches[arm], <<fingerprint(run.design), id>>, flag)
         /\ caches' = [caches EXCEPT ![arm] = g]
  BY KillAsks
<1> DEFINE file == caches[arm]
<1>2. arm \in DOMAIN caches /\ DOMAIN file = {"lines", "tail"} /\ Shaped
  BY <1>1 DEF Asked, Files, Shaped
<1>3. /\ g.lines = file.lines
      /\ \/ g.tail = file.tail \/ g.tail = Torn
         \/ file.tail = Nothing /\ g.tail = [key |-> <<fingerprint(run.design), id>>, flag |-> flag]
  BY <1>1, <1>2, Tearing
<1>4. /\ DOMAIN caches' = DOMAIN caches
      /\ \A a \in DOMAIN caches : a # arm => Known(a)' = Known(a)
  BY <1>1, <1>2 DEF Known
<1>5. /\ g.tail \in {Nothing, Torn} => Known(arm)' = DOMAIN file.lines
      /\ g.tail \notin {Nothing, Torn} => Known(arm)' = DOMAIN file.lines \cup {g.tail.key}
  <2>1. caches'[arm] = g
    BY <1>1, <1>2
  <2> QED BY <1>3, <2>1, Readable DEF Known
<1>6. /\ file.tail \in {Nothing, Torn} => Known(arm) = DOMAIN file.lines
      /\ file.tail \notin {Nothing, Torn} => Known(arm) = DOMAIN file.lines \cup {file.tail.key}
  BY Readable DEF Known
<1>7. kills' = kills + 1 /\ kills \in Nat /\ IsFiniteSet(Lost) /\ IsFiniteSet(Owed)
      /\ Cardinality(Lost) + Cardinality(Owed) <= 2 * kills /\ Called
  BY DEF KillInCell, Killed, Paid
<1>8. /\ \A n \in {1, 2} : <<arm, n>> \in Owed <=> n \in Owing(file.tail)
      /\ \A n \in {1, 2} : <<arm, n>> \in Owed' <=> n \in Owing(g.tail)
      /\ Owed' \subseteq (Owed \cup {<<arm, 1>>}) \cup {<<arm, 2>>}
  BY <1>1, <1>2, OwedIs
<1> HIDE DEF file
<1>k. PICK key : key = CallOf(id, arm)
  OBVIOUS
<1>x. PICK x : x = <<key, calls'[key]>>
  OBVIOUS
<1>o. PICK other : other \notin Known(arm)
  BY <1>1 DEF Asked
<1>y. PICK z : z = <<<<other[1], other[2], arm>>, 1>>
  OBVIOUS
<1>m. Cardinality(Lost) \in Nat /\ Cardinality(Owed) \in Nat
  BY <1>7, FS_CardinalityType
\* a kill that costs a call, and leaves at most one line to pay for
<1>9. ASSUME Known(arm) \subseteq Known(arm)', Owed' \subseteq Owed \cup {<<arm, 1>>} PROVE Paid'
  <2>1. Called' /\ Lost' \subseteq Lost \cup {x}
    <3>1. Known(arm) \ {other} \subseteq Known(arm)'
      BY <1>9
    <3> QED BY <1>1, <1>2, <1>4, <1>7, <1>k, <1>x, <1>o, <1>y, <3>1, LosesCall
  <2>2. IsFiniteSet(Lost') /\ Cardinality(Lost') \in Nat /\ Cardinality(Lost') <= Cardinality(Lost) + 1
    BY <1>7, <2>1, Gains
  <2>3. IsFiniteSet(Owed') /\ Cardinality(Owed') \in Nat /\ Cardinality(Owed') <= Cardinality(Owed) + 1
    BY <1>7, <1>9, Gains
  <2>4. kills' \in Nat /\ Cardinality(Lost') + Cardinality(Owed') <= 2 * kills'
    BY <1>7, <1>m, <2>2, <2>3
  <2> QED BY <2>1, <2>2, <2>3, <2>4 DEF Paid
<1>10. CASE g.tail = file.tail
  <2>1. Known(arm) = Known(arm)'
    BY <1>5, <1>6, <1>10
  <2>2. Owed' \subseteq Owed
    BY <1>8, <1>10
  <2> QED BY <1>9, <2>1, <2>2
<1>11. CASE g.tail = Torn /\ file.tail \in {Nothing, Torn}
  <2>1. Known(arm) = Known(arm)'
    BY <1>5, <1>6, <1>11
  <2>2. Owed' \subseteq Owed \cup {<<arm, 1>>}
    BY <1>8, <1>11, Tails DEF Owing
  <2> QED BY <1>9, <2>1, <2>2
<1>12. CASE g.tail = Torn /\ file.tail \notin {Nothing, Torn}
  <2>1. PICK gone : gone = file.tail.key
    OBVIOUS
  <2>2. PICK y : y = <<<<gone[1], gone[2], arm>>, 1>>
    OBVIOUS
  <2>3. Called' /\ Lost' \subseteq (Lost \cup {x}) \cup {y}
    <3>1. Known(arm) \ {gone} \subseteq Known(arm)'
      BY <1>5, <1>6, <1>12, <2>1
    <3> QED BY <1>1, <1>2, <1>4, <1>7, <1>k, <1>x, <2>2, <3>1, LosesCall
  <2>4. IsFiniteSet(Lost') /\ Cardinality(Lost') \in Nat /\ Cardinality(Lost') <= Cardinality(Lost) + 2
    BY <1>7, <2>3, GainsTwo
  <2>5. Owed' \subseteq Owed
    BY <1>8, <1>12, Tails DEF Owing
  <2>6. IsFiniteSet(Owed') /\ Cardinality(Owed') \in Nat /\ Cardinality(Owed') <= Cardinality(Owed)
    BY <1>7, <2>5, FS_Subset, FS_CardinalityType
  <2>7. kills' \in Nat /\ Cardinality(Lost') + Cardinality(Owed') <= 2 * kills'
    BY <1>7, <1>m, <2>4, <2>6
  <2> QED BY <2>3, <2>4, <2>6, <2>7 DEF Paid
<1>13. CASE file.tail = Nothing /\ g.tail = [key |-> <<fingerprint(run.design), id>>, flag |-> flag]
  <2>1. g.tail \notin {Nothing, Torn} /\ g.tail.key = <<fingerprint(run.design), id>>
    BY <1>13, Tails DEF IsRecord
  <2>2. Known(arm) \subseteq Known(arm)' /\ <<fingerprint(run.design), id>> \in Known(arm)'
    BY <1>5, <1>6, <1>13, <2>1
  <2>3. Called' /\ IsFiniteSet(Lost') /\ Cardinality(Lost') \in Nat /\ Cardinality(Lost') <= Cardinality(Lost)
    BY <1>1, <1>2, <1>4, <2>2, KeepsCall
  <2>4. IsFiniteSet(Owed') /\ Cardinality(Owed') \in Nat /\ Cardinality(Owed') <= Cardinality(Owed) + 2
    <3>1. PICK p, q : Owed' \subseteq (Owed \cup {p}) \cup {q}
      BY <1>8
    <3>2. IsFiniteSet(Owed)
      BY <1>7
    <3> QED BY <3>1, <3>2, GainsTwo
  <2>5. kills' \in Nat /\ Cardinality(Lost') + Cardinality(Owed') <= 2 * kills'
    BY <1>7, <1>m, <2>3, <2>4
  <2> QED BY <2>3, <2>4, <2>5 DEF Paid
<1> QED BY <1>3, <1>10, <1>11, <1>12, <1>13

LEMMA QuietPaid == ASSUME Inv, Paid, Quiet PROVE Paid'
<1>1. Lost' = Lost /\ Owed' = Owed /\ (Called' <=> Called)
  BY Quietly DEF Lost, Owed, Called, Recorded, Known
<1>2. kills' = kills \/ kills' = kills + 1
  BY DEF Quiet, StartProcess, OverCeiling, AppendLook, ScoreGate, WriteCells, WriteManifest,
         Kill, KillInWrite, Exit, Refused, Killed
<1>3. Cardinality(Lost) \in Nat /\ Cardinality(Owed) \in Nat
  BY FS_CardinalityType DEF Paid
<1> QED BY <1>1, <1>2, <1>3 DEF Paid

LEMMA StillPaid == ASSUME Paid, UNCHANGED <<caches, calls, kills>> PROVE Paid'
<1>1. Lost' = Lost /\ Owed' = Owed /\ (Called' <=> Called)
  BY DEF Lost, Owed, Called, Recorded, Known
<1> QED BY <1>1 DEF Paid

LEMMA InitPaid == Init => Paid
<1> SUFFICES ASSUME Init PROVE Paid
  OBVIOUS
<1>1. DOMAIN calls = {} /\ kills = 0 /\ \A a \in DOMAIN caches : caches[a].tail = Nothing
  BY DEF Init, NoMap, EmptyFile
<1>2. Lost = {} /\ Owed = {} /\ Called
  BY <1>1 DEF Lost, Owed, Called
<1> QED BY <1>1, <1>2, FS_EmptySet DEF Paid

LEMMA PaidStep == ASSUME Inv, Files, Paid, [Next]_vars PROVE Paid'
<1>1. CASE Quiet
  BY <1>1, QuietPaid
<1>2. CASE UNCHANGED vars \/ \E d \in world.designs : StartRun(d)
  BY <1>2, StillPaid DEF vars, StartRun
<1> QED BY <1>1, <1>2, StepIs, AnswerPaid, KillPaid

(* Whatever the designs, the answers and the kills, and wherever a kill    *)
(* tears an append: of every kill at most two answers are asked for again. *)
THEOREM EveryKillCostsTwo == Spec => []KillsCostTwo
<1>1. Init => Inv /\ Files /\ Paid
  BY InitInv, InitFiles, InitPaid
<1>2. (Inv /\ Files /\ Paid) /\ [Next]_vars => (Inv /\ Files /\ Paid)'
  BY InvStep, FilesStep, PaidStep
<1>3. Paid => KillsCostTwo
  <2> SUFFICES ASSUME Paid PROVE KillsCostTwo
    OBVIOUS
  <2> DEFINE again == {c \in (DOMAIN calls) \X (2..MaxCalls) : c[2] <= calls[c[1]]}
  <2>1. again \subseteq Lost
    <3>1. MaxCalls \in Nat
      BY GateAssumption DEF GateAssumption
    <3>2. ASSUME NEW c \in again PROVE c \in Lost
      BY <3>1, <3>2 DEF Lost
    <3> QED BY <3>2
  <2> HIDE DEF again
  <2>2. Cardinality(again) <= Cardinality(Lost) /\ Cardinality(again) \in Nat
        /\ Cardinality(Lost) \in Nat /\ Cardinality(Owed) \in Nat
    BY <2>1, FS_Subset, FS_CardinalityType DEF Paid
  <2>3. Cardinality(again) <= 2 * kills
    BY <2>2 DEF Paid
  <2> QED BY <2>3 DEF KillsCostTwo, again
<1> QED BY <1>1, <1>2, <1>3, PTL DEF Spec

-----------------------------------------------------------------------------
(* The answers of a design.  As long as nothing was killed, the files have *)
(* every answer that was given, whole; what is published of a design is    *)
(* what they say of it, and they never change their mind.                  *)

Complete(d) ==
    \A id \in Ids(locked(d)), a \in ToSet(ModelArms) : <<fingerprint(d), id>> \in DOMAIN caches[a].lines

Rerun(d) ==
    [c \in Ids(locked(d)) \X ToSet(ArmLabels) |->
        LET i == ById(locked(d), c[1])
        IN  CASE c[2] = "A" -> arm_a_flags(i)
              [] c[2] = "PC" -> scripted_flags(i)
              [] OTHER -> caches[c[2]].lines[<<fingerprint(d), c[1]>>]]

Whole == \A a \in DOMAIN caches : caches[a].tail = Nothing

Recalled ==
    run.phase = "arms" =>
        \A c \in DOMAIN run.answered :
            /\ c = <<c[1], c[2]>> /\ c[2] \in DOMAIN caches
            /\ <<fingerprint(run.design), c[1]>> \in DOMAIN caches[c[2]].lines
            /\ run.answered[c] = caches[c[2]].lines[<<fingerprint(run.design), c[1]>>]

Scored ==
    run.phase \in {"score", "cells"} => Complete(run.design) /\ run.cells = Rerun(run.design)

Published ==
    /\ DOMAIN out = {"cells", "manifest"}
    /\ out.cells \notin {Nothing, Torn} =>
          /\ Complete(out.cells.design)
          /\ out.cells = [design |-> out.cells.design, flags |-> Rerun(out.cells.design)]

Faithful == kills = 0 => Whole /\ Recalled /\ Scored /\ Published

(* Files that only grow say the same of a design that they have answered.  *)
LEMMA RerunStays ==
    ASSUME NEW d, Complete(d), UNCHANGED world,
           \A a \in ToSet(ModelArms) : \A k \in DOMAIN caches[a].lines :
               k \in DOMAIN caches'[a].lines /\ caches'[a].lines[k] = caches[a].lines[k]
    PROVE  Complete(d)' /\ Rerun(d)' = Rerun(d)
<1>1. locked(d)' = locked(d)
  BY DEF locked, planted
<1>2. Complete(d)'
  BY <1>1 DEF Complete
<1>3. ASSUME NEW c \in Ids(locked(d)) \X ToSet(ArmLabels), c[2] \notin {"A", "PC"}
      PROVE  caches'[c[2]].lines[<<fingerprint(d), c[1]>>] = caches[c[2]].lines[<<fingerprint(d), c[1]>>]
  <2>1. c[1] \in Ids(locked(d)) /\ c[2] \in ToSet(ModelArms)
    BY <1>3, GateAssumption DEF GateAssumption
  <2> QED BY <2>1 DEF Complete
<1>4. Rerun(d)' = Rerun(d)
  BY <1>1, <1>3 DEF Rerun, arm_a_flags, scripted_flags
<1> QED BY <1>2, <1>4

LEMMA PublishedStays ==
    ASSUME Published, UNCHANGED <<world, out>>,
           \A a \in ToSet(ModelArms) : \A k \in DOMAIN caches[a].lines :
               k \in DOMAIN caches'[a].lines /\ caches'[a].lines[k] = caches[a].lines[k]
    PROVE  Published'
<1>1. DOMAIN out' = {"cells", "manifest"}
  BY DEF Published
<1>2. ASSUME out'.cells \notin {Nothing, Torn}
      PROVE  /\ Complete(out.cells.design)'
             /\ out'.cells = [design |-> out'.cells.design, flags |-> Rerun(out.cells.design)']
  <2>1. PICK d : d = out.cells.design
    OBVIOUS
  <2>2. Complete(d) /\ out.cells = [design |-> d, flags |-> Rerun(d)]
    BY <1>2, <2>1 DEF Published
  <2>3. Complete(d)' /\ Rerun(d)' = Rerun(d)
    BY <2>2, RerunStays
  <2>4. d = out'.cells.design
    BY <2>1
  <2> QED BY <2>2, <2>3, <2>4
<1> QED BY <1>1, <1>2 DEF Published

LEMMA AnswerFaithful ==
    ASSUME Inv, Files, Whole /\ Recalled /\ Published, AnswerCell
    PROVE  Whole' /\ Recalled' /\ Published' /\ Scored'
<1>1. PICK id, arm, flag, g :
         /\ Asked(id, arm)
         /\ g = appended(caches[arm], <<fingerprint(run.design), id>>, flag)
         /\ caches' = [caches EXCEPT ![arm] = g]
         /\ run' = [run EXCEPT !.answered = put(@, <<id, arm>>, flag), !.spent = @ + 1]
  BY AnswerAsks
<1>2. PICK d : d = run.design
  OBVIOUS
<1>3. /\ arm \in DOMAIN caches /\ DOMAIN caches[arm] = {"lines", "tail"}
      /\ caches[arm].tail = Nothing
  BY <1>1 DEF Asked, Files, Shaped, Whole
<1>4. <<fingerprint(d), id>> \notin DOMAIN caches[arm].lines
  BY <1>1, <1>2, <1>3, Readable DEF Asked, Known
<1>5. /\ g.tail = Nothing /\ DOMAIN g.lines = DOMAIN caches[arm].lines \cup {<<fingerprint(d), id>>}
      /\ \A k \in DOMAIN caches[arm].lines : k # <<fingerprint(d), id>> => g.lines[k] = caches[arm].lines[k]
      /\ g.lines[<<fingerprint(d), id>>] = flag
  BY <1>1, <1>2, <1>3, Appending
<1>6. /\ DOMAIN caches' = DOMAIN caches /\ caches'[arm] = g
      /\ \A a \in DOMAIN caches : a # arm => caches'[a] = caches[a]
  BY <1>1, <1>3
<1>7. \A a \in DOMAIN caches : \A k \in DOMAIN caches[a].lines :
         k \in DOMAIN caches'[a].lines /\ caches'[a].lines[k] = caches[a].lines[k]
  BY <1>4, <1>5, <1>6
<1>8. Whole'
  BY <1>5, <1>6 DEF Whole
<1>9. run.phase = "arms" /\ DOMAIN run = Fields
  BY DEF AnswerCell, Inv, Prepared, Running
<1>10. /\ run'.phase = "arms" /\ run'.design = d
       /\ run'.answered = put(run.answered, <<id, arm>>, flag)
  BY <1>1, <1>2, <1>9 DEF Fields
<1>11. Recalled'
  <2> SUFFICES ASSUME NEW c \in DOMAIN run'.answered
               PROVE  /\ c = <<c[1], c[2]>> /\ c[2] \in DOMAIN caches'
                      /\ <<fingerprint(d), c[1]>> \in DOMAIN caches'[c[2]].lines
                      /\ run'.answered[c] = caches'[c[2]].lines[<<fingerprint(d), c[1]>>]
    BY <1>10 DEF Recalled
  <2>1. CASE c = <<id, arm>>
    <3>1. run'.answered[c] = flag
      BY <1>10, <2>1 DEF put
    <3> QED BY <1>3, <1>5, <1>6, <2>1, <3>1
  <2>2. CASE c # <<id, arm>>
    <3>1. c \in DOMAIN run.answered /\ run'.answered[c] = run.answered[c]
      BY <1>10, <2>2 DEF put
    <3>2. /\ c = <<c[1], c[2]>> /\ c[2] \in DOMAIN caches
          /\ <<fingerprint(d), c[1]>> \in DOMAIN caches[c[2]].lines
          /\ run.answered[c] = caches[c[2]].lines[<<fingerprint(d), c[1]>>]
      BY <1>2, <1>9, <3>1 DEF Recalled
    <3> QED BY <1>6, <1>7, <3>1, <3>2
  <2> QED BY <2>1, <2>2
<1>12. Published'
  <2>1. UNCHANGED <<world, out>> /\ ToSet(ModelArms) = DOMAIN caches
    BY DEF AnswerCell, Files, Shaped
  <2> QED BY <1>7, <2>1, PublishedStays
<1> QED BY <1>8, <1>10, <1>11, <1>12 DEF Scored

LEMMA StartFaithful ==
    ASSUME Files, Whole /\ Published, NEW d, StartRun(d)
    PROVE  Whole' /\ Recalled' /\ Published' /\ Scored'
<1>1. caches' = caches /\ UNCHANGED <<world, out>>
  BY DEF StartRun
<1>2. run'.phase = "arms" /\ run'.design = d /\ run'.answered = loaded(d)
  BY DEF StartRun
<1>3. \A a \in DOMAIN caches : readable(caches[a]) = caches[a].lines
  BY Readable DEF Whole
<1>4. \A c \in DOMAIN loaded(d) :
         /\ c = <<c[1], c[2]>> /\ c[2] \in DOMAIN caches /\ <<fingerprint(d), c[1]>> \in DOMAIN caches[c[2]].lines
         /\ loaded(d)[c] = caches[c[2]].lines[<<fingerprint(d), c[1]>>]
  BY <1>3, LoadedIs DEF Files, Known
<1>5. Recalled'
  BY <1>1, <1>2, <1>4 DEF Recalled
<1>6. Published'
  BY <1>1, PublishedStays
<1> QED BY <1>1, <1>2, <1>5, <1>6 DEF Whole, Scored

LEMMA LookFaithful ==
    ASSUME Inv, Files, Whole /\ Recalled /\ Published, AppendLook
    PROVE  Whole' /\ Recalled' /\ Published' /\ Scored'
<1>1. caches' = caches /\ UNCHANGED <<world, out>> /\ run.phase = "arms" /\ missing = {}
  BY DEF AppendLook
<1>2. PICK d : d = run.design
  OBVIOUS
<1>3. run.corpus = locked(d) /\ DOMAIN run = Fields
  BY <1>1, <1>2 DEF Inv, Prepared, Running
<1>4. run'.phase = "score" /\ run'.design = d /\ run'.cells = cell_artifact
  BY <1>2, <1>3 DEF AppendLook, Fields
<1>5. \A id \in Ids(locked(d)), a \in ToSet(ModelArms) :
         /\ <<fingerprint(d), id>> \in DOMAIN caches[a].lines
         /\ run.answered[<<id, a>>] = caches[a].lines[<<fingerprint(d), id>>]
  <2> SUFFICES ASSUME NEW id \in Ids(locked(d)), NEW a \in ToSet(ModelArms)
               PROVE  /\ <<fingerprint(d), id>> \in DOMAIN caches[a].lines
                      /\ run.answered[<<id, a>>] = caches[a].lines[<<fingerprint(d), id>>]
    OBVIOUS
  <2>1. <<id, a>> \in DOMAIN run.answered
    BY <1>1, <1>3 DEF missing
  <2>2. PICK c : c = <<id, a>>
    OBVIOUS
  <2>3. c[1] = id /\ c[2] = a
    BY <2>2
  <2> QED BY <1>1, <1>2, <2>1, <2>2, <2>3 DEF Recalled
<1>6. Complete(d)
  BY <1>5 DEF Complete
<1>7. cell_artifact = Rerun(d)
  <2>1. ASSUME NEW c \in Ids(locked(d)) \X ToSet(ArmLabels), c[2] \notin {"A", "PC"}
        PROVE  run.answered[c] = caches[c[2]].lines[<<fingerprint(d), c[1]>>]
    <3>1. c = <<c[1], c[2]>> /\ c[1] \in Ids(locked(d)) /\ c[2] \in ToSet(ModelArms)
      BY <2>1, GateAssumption DEF GateAssumption
    <3> QED BY <1>5, <3>1
  <2> QED BY <1>3, <2>1 DEF cell_artifact, Rerun
<1>8. Complete(d)' /\ Rerun(d)' = Rerun(d)
  BY <1>1, <1>6, RerunStays
<1>9. Scored'
  BY <1>4, <1>7, <1>8 DEF Scored
<1>10. Published'
  BY <1>1, PublishedStays
<1> QED BY <1>1, <1>4, <1>9, <1>10 DEF Whole, Recalled

(* A step that writes nothing and ends the phases that score.              *)
LEMMA LeftFaithful ==
    ASSUME Whole /\ Published, UNCHANGED <<world, caches, out>>,
           run'.phase \notin {"arms", "score", "cells"}
    PROVE  Whole' /\ Recalled' /\ Scored' /\ Published'
<1>1. Published'
  BY PublishedStays
<1> QED BY <1>1 DEF Whole, Recalled, Scored

LEMMA ScoreFaithful ==
    ASSUME Inv, Whole /\ Scored /\ Published, ScoreGate
    PROVE  Whole' /\ Recalled' /\ Scored' /\ Published'
<1>1. UNCHANGED <<world, caches, out>> /\ run.phase = "score"
  BY DEF ScoreGate
<1>2. DOMAIN run = Fields
  BY <1>1 DEF Inv, Prepared, Running
<1>3. run'.phase = "cells" /\ run'.cells = run.cells /\ run'.design = run.design
  BY <1>2 DEF ScoreGate, Fields
<1>4. PICK d : d = run.design
  OBVIOUS
<1>5. Complete(d)' /\ run'.cells = Rerun(d)' /\ d = run'.design
  BY <1>1, <1>3, <1>4, RerunStays DEF Scored
<1>6. Scored'
  BY <1>5 DEF Scored
<1>7. Published'
  BY <1>1, PublishedStays
<1> QED BY <1>1, <1>3, <1>6, <1>7 DEF Whole, Recalled

LEMMA WriteFaithful ==
    ASSUME Inv, Whole /\ Scored /\ Published, WriteCells
    PROVE  Whole' /\ Recalled' /\ Scored' /\ Published'
<1>1. UNCHANGED <<world, caches>> /\ run.phase = "cells"
  BY DEF WriteCells
<1>2. PICK d : d = run.design
  OBVIOUS
<1>3. run'.phase = "manifest"
  <2>1. DOMAIN run = Fields
    BY <1>1 DEF Inv, Prepared, Running
  <2> QED BY <2>1 DEF WriteCells, Fields
<1>4. Complete(d) /\ run.cells = Rerun(d)
  BY <1>1, <1>2 DEF Scored
<1>5. Complete(d)' /\ Rerun(d)' = Rerun(d)
  BY <1>1, <1>4, RerunStays
<1>6. out'.cells = [design |-> d, flags |-> Rerun(d)] /\ DOMAIN out' = {"cells", "manifest"}
  BY <1>2, <1>4 DEF WriteCells, Published
<1>7. PICK e : e = out'.cells.design
  OBVIOUS
<1>8. e = d
  BY <1>6, <1>7
<1>9. Published'
  BY <1>5, <1>6, <1>7, <1>8 DEF Published
<1> QED BY <1>1, <1>3, <1>9 DEF Whole, Recalled, Scored

LEMMA ManifestFaithful ==
    ASSUME Whole /\ Published, WriteManifest
    PROVE  Whole' /\ Recalled' /\ Scored' /\ Published'
<1>1. UNCHANGED <<world, caches>> /\ run'.phase = "idle" /\ out'.cells = out.cells
      /\ DOMAIN out' = {"cells", "manifest"}
  BY DEF WriteManifest, Idle, Published
<1>2. Published'
  <2>1. CASE out.cells \in {Nothing, Torn}
    BY <1>1, <2>1 DEF Published
  <2>2. CASE out.cells \notin {Nothing, Torn}
    <3>1. PICK d : d = out.cells.design
      OBVIOUS
    <3>2. Complete(d) /\ out.cells = [design |-> d, flags |-> Rerun(d)]
      BY <2>2, <3>1 DEF Published
    <3>3. Complete(d)' /\ Rerun(d)' = Rerun(d)
      BY <1>1, <3>2, RerunStays
    <3>4. d = out'.cells.design
      BY <1>1, <3>1
    <3> QED BY <1>1, <3>2, <3>3, <3>4 DEF Published
  <2> QED BY <2>1, <2>2
<1> QED BY <1>1, <1>2 DEF Whole, Recalled, Scored

LEMMA FaithfulStep == ASSUME Inv, Files, Paid, Faithful, [Next]_vars PROVE Faithful'
<1> SUFFICES ASSUME kills' = 0 PROVE Whole' /\ Recalled' /\ Scored' /\ Published'
  BY DEF Faithful
<1>1. ~Kill /\ ~KillInCell /\ ~KillInWrite
  <2>1. kills \in Nat
    BY DEF Paid
  <2> QED BY <2>1 DEF Kill, KillInCell, KillInWrite, Killed
<1>2. kills = 0
  BY <1>1 DEF Next, StartProcess, Refused, StartRun, AnswerCell, OverCeiling, AppendLook, ScoreGate,
              WriteCells, WriteManifest, Exit, vars
<1>3. Whole /\ Recalled /\ Scored /\ Published
  BY <1>2 DEF Faithful
<1>4. CASE StartProcess \/ OverCeiling \/ Exit \/ \E d \in world.designs : Refused(d)
  <2>1. UNCHANGED <<world, caches, out>>
    BY <1>4 DEF StartProcess, OverCeiling, Exit, Refused, Dies
  <2>2. run'.phase \in {"idle", "down"}
    BY <1>4 DEF StartProcess, OverCeiling, Exit, Refused, Dies, Idle, Down
  <2> QED BY <1>3, <2>1, <2>2, LeftFaithful
<1>5. CASE UNCHANGED vars
  <2>1. UNCHANGED <<world, caches, out, run>>
    BY <1>5 DEF vars
  <2>2. PICK d : d = run.design
    OBVIOUS
  <2>3. Complete(d) => Complete(d)' /\ Rerun(d)' = Rerun(d)
    BY <2>1, RerunStays
  <2>4. Scored'
    BY <1>3, <2>1, <2>2, <2>3 DEF Scored
  <2>5. Published'
    BY <1>3, <2>1, PublishedStays
  <2> QED BY <1>3, <2>1, <2>4, <2>5 DEF Whole, Recalled
<1>6. CASE \E d \in world.designs : StartRun(d)
  BY <1>3, <1>6, StartFaithful
<1>7. CASE AnswerCell \/ AppendLook
  BY <1>3, <1>7, AnswerFaithful, LookFaithful
<1>8. CASE ScoreGate \/ WriteCells \/ WriteManifest
  BY <1>3, <1>8, ScoreFaithful, WriteFaithful, ManifestFaithful
<1> QED BY <1>1, <1>4, <1>5, <1>6, <1>7, <1>8 DEF Next

LEMMA InitFaithful == Init => Faithful
<1> SUFFICES ASSUME Init PROVE Faithful
  OBVIOUS
<1>1. out = [cells |-> Nothing, manifest |-> Nothing] /\ run.phase = "down"
      /\ \A a \in DOMAIN caches : caches[a].tail = Nothing
  BY DEF Init, Down, EmptyFile
<1> QED BY <1>1 DEF Faithful, Whole, Recalled, Scored, Published

LEMMA Replays ==
    ASSUME Inv, Faithful, [Next]_vars, NEW d,
           out.cells \notin {Nothing, Torn}, out'.cells \notin {Nothing, Torn},
           out.cells.design = d, out'.cells.design = d, kills = 0
    PROVE  out'.cells = out.cells
<1>1. Scored /\ Published
  BY DEF Faithful
<1>2. CASE WriteCells
  <2>1. PICK e : e = run.design
    OBVIOUS
  <2>2. out'.cells = [design |-> e, flags |-> Rerun(e)]
    BY <1>1, <1>2, <2>1 DEF WriteCells, Scored, Published
  <2>3. e = d
    BY <2>2
  <2> QED BY <1>1, <2>2, <2>3 DEF Published
<1>3. CASE KillInWrite
  <2>1. CASE run.phase = "cells"
    BY <1>1, <1>3, <2>1 DEF KillInWrite, Published
  <2>2. CASE run.phase # "cells"
    BY <1>1, <1>3, <2>2 DEF KillInWrite, Published
  <2> QED BY <2>1, <2>2
<1>4. CASE WriteManifest
  BY <1>1, <1>4 DEF WriteManifest, Published
<1>5. CASE ~WriteCells /\ ~KillInWrite /\ ~WriteManifest
  BY <1>5 DEF Next, StartProcess, Refused, StartRun, AnswerCell, OverCeiling, AppendLook, ScoreGate,
              Kill, KillInCell, Exit, vars
<1> QED BY <1>2, <1>3, <1>4, <1>5

(* Whatever the designs and however often they are run, in one process or  *)
(* in many: as long as none was killed, a design whose answers are         *)
(* published again has the same ones, those that its caches hold.          *)
THEOREM EveryRerunReplays == Spec => RerunReplays
<1>1. Init => Inv /\ Files /\ Paid /\ Faithful
  BY InitInv, InitFiles, InitPaid, InitFaithful
<1>2. (Inv /\ Files /\ Paid /\ Faithful) /\ [Next]_vars => (Inv /\ Files /\ Paid /\ Faithful)'
  BY InvStep, FilesStep, PaidStep, FaithfulStep
<1>3. (Inv /\ Files /\ Paid /\ Faithful) /\ [Next]_vars
        => [\A d \in world.designs :
              /\ out.cells \notin {Nothing, Torn} /\ out'.cells \notin {Nothing, Torn}
              /\ out.cells.design = d /\ out'.cells.design = d /\ kills = 0
              => out'.cells = out.cells]_vars
  BY Replays
<1> QED BY <1>1, <1>2, <1>3, PTL DEF Spec, RerunReplays

-----------------------------------------------------------------------------
(* Sums over the totals of the draws: they count draws.                    *)

LEMMA Induct ==
    ASSUME NEW N \in Nat, NEW S, 0 \in S, \A n \in 1..N : n - 1 \in S => n \in S
    PROVE  \A n \in 0..N : n \in S
<1> SUFFICES ASSUME NEW b \in 0..N, b \notin S PROVE FALSE
  OBVIOUS
<1> DEFINE Bad == {n \in 0..N : n \notin S}
<1>1. PICK m \in Bad : \A n \in Bad : m <= n
  <2>1. Bad \in SUBSET Nat /\ Bad # {}
    OBVIOUS
  <2> HIDE DEF Bad
  <2> QED BY <2>1, Least
<1>2. m \in 1..N /\ m - 1 \notin Bad
  BY <1>1
<1>3. m - 1 \in S
  BY <1>2
<1> QED BY <1>1, <1>2, <1>3

(* The sum is what a running sum comes to.                                 *)
LEMMA MassIs ==
    ASSUME NEW n \in Nat, NEW f, NEW g \in [0..2 * n + 1 -> Nat], g[0] = 0,
           \A m \in 1..2 * n + 1 : g[m] = g[m - 1] + f[m - 1 - n]
    PROVE  Mass(f, n) = g[2 * n + 1]
<1> DEFINE N == 2 * n + 1
           Is(h) == h = [m \in 0..N |-> IF m = 0 THEN 0 ELSE h[m - 1] + f[m - 1 - n]]
           upTo == CHOOSE h : Is(h)
<1>1. Mass(f, n) = upTo[N]
  BY DEF Mass
<1>2. N \in Nat
  OBVIOUS
<1>3. Is(g)
  OBVIOUS
<1>4. Is(upTo)
  <2> HIDE DEF Is
  <2> QED BY <1>3
<1>5. \A m \in 0..N : upTo[m] = g[m]
  <2> DEFINE S == {m \in 0..N : upTo[m] = g[m]}
  <2> HIDE DEF upTo
  <2>1. 0 \in S
    BY <1>2, <1>4
  <2>2. ASSUME NEW m \in 1..N, m - 1 \in S PROVE m \in S
    <3>1. m \in 0..N /\ m # 0
      OBVIOUS
    <3>2. upTo[m] = upTo[m - 1] + f[m - 1 - n]
      <4> HIDE DEF N
      <4> QED BY <1>4, <3>1
    <3>3. upTo[m - 1] = g[m - 1]
      BY <2>2
    <3> QED BY <3>1, <3>2, <3>3
  <2> HIDE DEF S, N
  <2>3. \A m \in 0..N : m \in S
    BY <1>2, <2>1, <2>2, Induct
  <2> QED BY <2>3 DEF S
<1> HIDE DEF upTo
<1> QED BY <1>1, <1>2, <1>5

(* The draws before k and those at k, as far as P looks at them.           *)
Before(D, tot, P, k) == {d \in D : tot[d] < k /\ tot[d] \in P}
Exactly(D, tot, P, k) == {d \in D : k = tot[d] /\ tot[d] \in P}

LEMMA OneMore ==
    ASSUME NEW D, IsFiniteSet(D), NEW tot \in [D -> Int], NEW P, NEW k \in Int
    PROVE  /\ Cardinality(Before(D, tot, P, k)) \in Nat
           /\ Cardinality(Exactly(D, tot, P, k)) \in Nat
           /\ Cardinality(Before(D, tot, P, k + 1))
                 = Cardinality(Before(D, tot, P, k)) + Cardinality(Exactly(D, tot, P, k))
<1> DEFINE below == Before(D, tot, P, k)
           here == Exactly(D, tot, P, k)
<1>1. IsFiniteSet(below) /\ IsFiniteSet(here)
  <2>1. below \in SUBSET D /\ here \in SUBSET D
    BY DEF Before, Exactly
  <2> HIDE DEF below, here
  <2> QED BY <2>1, FS_Subset
<1>2. Before(D, tot, P, k + 1) = below \cup here /\ below \cap here = {}
  <2>1. \A d \in D : tot[d] < k + 1 <=> tot[d] < k \/ k = tot[d]
    OBVIOUS
  <2> QED BY <2>1 DEF Before, Exactly
<1> HIDE DEF below, here
<1>3. Cardinality(Before(D, tot, P, k + 1)) = Cardinality(below) + Cardinality(here) - Cardinality({})
  BY <1>1, <1>2, FS_Union
<1>4. Cardinality(below) \in Nat /\ Cardinality(here) \in Nat /\ Cardinality({}) = 0
  BY <1>1, FS_CardinalityType, FS_EmptySet
<1>5. Cardinality(Before(D, tot, P, k + 1)) = Cardinality(below) + Cardinality(here)
  BY <1>3, <1>4
<1> QED BY <1>4, <1>5 DEF below, here

(* The mass at the totals in P is the number of draws with a total in P.   *)
Comes(D, tot, k) == Cardinality({d \in D : k = tot[d]})
Falls(D, tot, P) == Cardinality({d \in D : tot[d] \in P})

LEMMA MassCounts ==
    ASSUME NEW n \in Nat, NEW D, IsFiniteSet(D), NEW tot \in [D -> -n..n], NEW P, NEW f,
           \A k \in -n..n : k \in P => f[k] = Comes(D, tot, k),
           \A k \in -n..n : k \notin P => f[k] = 0
    PROVE  Mass(f, n) = Falls(D, tot, P)
<1> DEFINE N == 2 * n + 1
           Low(k) == Before(D, tot, P, k)
           Here(k) == Exactly(D, tot, P, k)
           g == [m \in 0..N |-> Cardinality(Low(m - n))]
<1>1. \A d \in D : tot[d] \in Int /\ -n <= tot[d] /\ tot[d] <= n
  OBVIOUS
<1>2. \A k \in Int : /\ Cardinality(Low(k)) \in Nat /\ Cardinality(Here(k)) \in Nat
                     /\ Cardinality(Low(k + 1)) = Cardinality(Low(k)) + Cardinality(Here(k))
  <2>1. tot \in [D -> Int]
    OBVIOUS
  <2> QED BY <2>1, OneMore
<1>3. \A k \in -n..n : f[k] = Cardinality(Here(k))
  <2> TAKE k \in -n..n
  <2>1. CASE k \in P
    <3>1. {d \in D : k = tot[d]} = Here(k)
      BY <2>1 DEF Exactly
    <3> QED BY <2>1, <3>1 DEF Comes
  <2>2. CASE k \notin P
    <3>1. Here(k) = {}
      BY <2>2 DEF Exactly
    <3> QED BY <2>2, <3>1, FS_EmptySet
  <2> QED BY <2>1, <2>2
<1>4. Low(-n) = {} /\ Low(n + 1) = {d \in D : tot[d] \in P}
  <2>1. \A d \in D : ~(tot[d] < -n) /\ tot[d] < n + 1
    BY <1>1
  <2> QED BY <2>1 DEF Before
<1>11. Cardinality(Low(n + 1)) = Falls(D, tot, P)
  BY <1>4 DEF Falls
<1> HIDE DEF Low, Here
<1>5. g \in [0..N -> Nat]
  BY <1>2
<1>6. g[0] = 0
  <2>1. g[0] = Cardinality(Low(0 - n)) /\ 0 - n = -n
    OBVIOUS
  <2> HIDE DEF g
  <2> QED BY <1>4, <2>1, FS_EmptySet
<1>7. ASSUME NEW m \in 1..N PROVE g[m] = g[m - 1] + f[m - 1 - n]
  <2>1. m - 1 - n \in -n..n /\ m - 1 - n \in Int /\ (m - 1 - n) + 1 = m - n
    OBVIOUS
  <2>2. g[m] = Cardinality(Low(m - n)) /\ g[m - 1] = Cardinality(Low(m - 1 - n))
    OBVIOUS
  <2>3. Cardinality(Low(m - n)) = Cardinality(Low(m - 1 - n)) + Cardinality(Here(m - 1 - n))
    BY <1>2, <2>1
  <2>4. f[m - 1 - n] = Cardinality(Here(m - 1 - n))
    BY <1>3, <2>1
  <2> HIDE DEF g
  <2> QED BY <2>2, <2>3, <2>4
<1>8. g[N] = Cardinality(Low(n + 1))
  OBVIOUS
<1> HIDE DEF g
<1>9. Mass(f, n) = g[N]
  BY <1>5, <1>6, <1>7, MassIs
<1> QED BY <1>8, <1>9, <1>11

(* A weight that every total has is a factor of the sum.                   *)
Times(c, m) == c * m

LEMMA MassWeighs ==
    ASSUME NEW n \in Nat, NEW D, IsFiniteSet(D), NEW tot \in [D -> -n..n], NEW M \in Nat, NEW f,
           \A k \in -n..n : f[k] = Times(Comes(D, tot, k), M)
    PROVE  Mass(f, n) = Times(Cardinality(D), M)
<1> DEFINE N == 2 * n + 1
           Low(k) == Before(D, tot, Int, k)
           Here(k) == Exactly(D, tot, Int, k)
           g == [m \in 0..N |-> Cardinality(Low(m - n)) * M]
<1>1. \A d \in D : tot[d] \in Int /\ -n <= tot[d] /\ tot[d] <= n
  OBVIOUS
<1>2. \A k \in Int : /\ Cardinality(Low(k)) \in Nat /\ Cardinality(Here(k)) \in Nat
                     /\ Cardinality(Low(k + 1)) = Cardinality(Low(k)) + Cardinality(Here(k))
  <2>1. tot \in [D -> Int]
    OBVIOUS
  <2> QED BY <2>1, OneMore
<1>3. ASSUME NEW k \in -n..n PROVE f[k] = Cardinality(Here(k)) * M
  <2>1. {d \in D : k = tot[d]} = Here(k)
    BY <1>1 DEF Exactly
  <2> QED BY <2>1 DEF Comes, Times
<1>4. Low(-n) = {} /\ Low(n + 1) = D
  <2>1. \A d \in D : ~(tot[d] < -n) /\ tot[d] < n + 1
    BY <1>1
  <2> QED BY <1>1, <2>1 DEF Before
<1> HIDE DEF Low, Here
<1>5. ASSUME NEW c \in Nat PROVE c * M \in Nat
  OBVIOUS
<1>6. g \in [0..N -> Nat]
  <2>1. ASSUME NEW m \in 0..N PROVE Cardinality(Low(m - n)) * M \in Nat
    <3>1. m - n \in Int
      OBVIOUS
    <3> QED BY <1>2, <1>5, <3>1
  <2> QED BY <2>1
<1>7. g[0] = 0
  <2>1. g[0] = Cardinality(Low(0 - n)) * M /\ 0 - n = -n
    OBVIOUS
  <2>2. Cardinality(Low(-n)) = 0
    BY <1>4, FS_EmptySet
  <2> HIDE DEF g
  <2> QED BY <2>1, <2>2
<1>8. ASSUME NEW m \in 1..N PROVE g[m] = g[m - 1] + f[m - 1 - n]
  <2>1. m - 1 - n \in -n..n /\ m - 1 - n \in Int /\ (m - 1 - n) + 1 = m - n
    OBVIOUS
  <2>2. g[m] = Cardinality(Low(m - n)) * M /\ g[m - 1] = Cardinality(Low(m - 1 - n)) * M
    OBVIOUS
  <2>3. PICK a \in Nat, b \in Nat : a = Cardinality(Low(m - 1 - n)) /\ b = Cardinality(Here(m - 1 - n))
    BY <1>2, <2>1
  <2>4. Cardinality(Low(m - n)) = a + b
    BY <1>2, <2>1, <2>3
  <2>5. f[m - 1 - n] = b * M
    BY <1>3, <2>1, <2>3
  <2>6. (a + b) * M = a * M + b * M
    OBVIOUS
  <2> HIDE DEF g
  <2> QED BY <2>2, <2>3, <2>4, <2>5, <2>6
<1>9. g[N] = Cardinality(D) * M
  BY <1>4
<1> HIDE DEF g
<1>10. Mass(f, n) = g[N]
  BY <1>6, <1>7, <1>8, MassIs
<1> QED BY <1>9, <1>10 DEF Times

-----------------------------------------------------------------------------
(* A verdict.  Where nothing speaks for a, no draw does.                   *)

LEMMA DrawsAre ==
    ASSUME NEW n \in Nat
    PROVE  IsFiniteSet(Draws(n)) /\ Cardinality(Draws(n)) \in Nat /\ Cardinality(Draws(n)) >= 1
<1> DEFINE Pairs == SUBSET ((1..n) \X (1..n))
           graph == [d \in Draws(n) |-> {<<x, d[x]>> : x \in 1..n}]
<1>1. IsFiniteSet(Pairs)
  <2>1. IsFiniteSet(1..n)
    BY FS_Interval
  <2>2. IsFiniteSet((1..n) \X (1..n))
    BY <2>1, FS_Product
  <2> QED BY <2>2, FS_SUBSET
<1>2. graph \in Injection(Draws(n), Pairs)
  <2>1. graph \in [Draws(n) -> Pairs]
    <3>1. \A d \in Draws(n) : {<<x, d[x]>> : x \in 1..n} \in Pairs
      BY DEF Draws
    <3> QED BY <3>1
  <2>2. ASSUME NEW d \in Draws(n), NEW e \in Draws(n), graph[d] = graph[e] PROVE d = e
    <3>1. {<<x, d[x]>> : x \in 1..n} = {<<x, e[x]>> : x \in 1..n}
      BY <2>2
    <3>2. ASSUME NEW x \in 1..n PROVE d[x] = e[x]
      <4>1. <<x, d[x]>> \in {<<y, e[y]>> : y \in 1..n}
        BY <3>1
      <4> QED BY <4>1
    <3> QED BY <3>2 DEF Draws
  <2> HIDE DEF graph, Pairs
  <2> QED BY <2>1, <2>2 DEF Injection, IsInjective
<1>3. IsFiniteSet(Draws(n))
  <2> HIDE DEF graph, Pairs
  <2> QED BY <1>1, <1>2, FS_Injection
<1>4. Draws(n) # {}
  <2>1. [x \in 1..n |-> x] \in Draws(n)
    BY DEF Draws
  <2> QED BY <2>1
<1>5. Cardinality(Draws(n)) \in Nat /\ Cardinality(Draws(n)) # 0
  BY <1>3, <1>4, FS_CardinalityType, FS_EmptySet
<1> QED BY <1>3, <1>5

LEMMA TotalIs ==
    ASSUME NEW n \in Nat, NEW g \in 0..n, NEW l \in 0..n, NEW d \in Draws(n)
    PROVE  /\ total(d, n, g, l) \in -n..n
           /\ g = 0 => total(d, n, g, l) <= 0
           /\ l = 0 => total(d, n, g, l) >= 0
<1> DEFINE gains == {x \in 1..n : d[x] <= g}
           loses == {x \in 1..n : d[x] > n - l}
<1>1. \A x \in 1..n : d[x] \in 1..n
  BY DEF Draws
<1>2. (g = 0 => gains = {}) /\ (l = 0 => loses = {})
  BY <1>1
<1>3. gains \in SUBSET (1..n) /\ loses \in SUBSET (1..n)
  OBVIOUS
<1>4. total(d, n, g, l) = Cardinality(gains) - Cardinality(loses)
  BY DEF total
<1> HIDE DEF gains, loses
<1>5. IsFiniteSet(1..n) /\ Cardinality(1..n) = n
  BY FS_Interval
<1>6. Cardinality(gains) \in Nat /\ Cardinality(loses) \in Nat
  <2>1. IsFiniteSet(gains) /\ IsFiniteSet(loses)
    BY <1>3, <1>5, FS_Subset
  <2> QED BY <2>1, FS_CardinalityType
<1>7. Cardinality(gains) <= n /\ Cardinality(loses) <= n
  <2>1. Cardinality(gains) <= Cardinality(1..n)
    BY <1>3, <1>5, FS_Subset
  <2>2. Cardinality(loses) <= Cardinality(1..n)
    BY <1>3, <1>5, FS_Subset
  <2> QED BY <1>5, <2>1, <2>2
<1>8. (g = 0 => Cardinality(gains) = 0) /\ (l = 0 => Cardinality(loses) = 0)
  BY <1>2, FS_EmptySet
<1> QED BY <1>4, <1>6, <1>7, <1>8

LEMMA Part ==
    ASSUME NEW S, IsFiniteSet(S), NEW T
    PROVE  Cardinality(S \ T) \in 0..Cardinality(S) /\ (S \subseteq T => Cardinality(S \ T) = 0)
<1>1. S \ T \in SUBSET S
  OBVIOUS
<1>2. Cardinality(S \ T) <= Cardinality(S) /\ IsFiniteSet(S \ T)
  BY <1>1, FS_Subset
<1>3. Cardinality(S \ T) \in Nat /\ Cardinality(S) \in Nat
  BY <1>2, FS_CardinalityType
<1>4. S \subseteq T => S \ T = {}
  OBVIOUS
<1> QED BY <1>2, <1>3, <1>4, FS_EmptySet

(* An interval whose draws are all at or below zero ends there.            *)
LowMass(E, C, l, g, nE, nC) ==
    Mass([k \in -E..E |->
             resampled[E][0][l][k]
               * Mass([j \in -C..C |-> IF 1 * (k * nC - j * nE) <= 0 * nE * nC
                                       THEN resampled[C][g][0][j] ELSE 0], C)], E)

LEMMA AllBelow ==
    ASSUME NEW E \in 0..MaxStratum, NEW C \in 0..MaxStratum, MaxStratum \in Nat,
           NEW l \in 0..E, NEW g \in 0..C, NEW nE \in Nat, NEW nC \in Nat
    PROVE  LowMass(E, C, l, g, nE, nC) = Cardinality(Draws(E)) * Cardinality(Draws(C))
<1> DEFINE totE == [d \in Draws(E) |-> total(d, E, 0, l)]
           totC == [d \in Draws(C) |-> total(d, C, g, 0)]
           P(k) == {j \in Int : 1 * (k * nC - j * nE) <= 0 * nE * nC}
           within(k) == [j \in -C..C |-> IF 1 * (k * nC - j * nE) <= 0 * nE * nC
                                         THEN resampled[C][g][0][j] ELSE 0]
           low == [k \in -E..E |-> resampled[E][0][l][k] * Mass(within(k), C)]
           w == [k \in -E..E |-> Falls(Draws(C), totC, P(k))]
           M == Cardinality(Draws(C))
<1>1. E \in Nat /\ C \in Nat /\ 0 \in 0..E /\ 0 \in 0..C
  OBVIOUS
<1>2. totE \in [Draws(E) -> -E..E] /\ \A d \in Draws(E) : totE[d] <= 0
  BY <1>1, TotalIs
<1>3. totC \in [Draws(C) -> -C..C] /\ \A d \in Draws(C) : totC[d] >= 0
  BY <1>1, TotalIs
<1>4. IsFiniteSet(Draws(E)) /\ IsFiniteSet(Draws(C)) /\ M \in Nat
  BY <1>1, DrawsAre
<1>5. \A k \in -E..E : resampled[E][0][l][k] = Comes(Draws(E), totE, k)
  <2>1. resampled[E][0][l] = [k \in -E..E |-> Cardinality({d \in Draws(E) : k = total(d, E, 0, l)})]
    BY <1>1 DEF resampled
  <2>2. \A k : {d \in Draws(E) : k = total(d, E, 0, l)} = {d \in Draws(E) : k = totE[d]}
    OBVIOUS
  <2> QED BY <2>1, <2>2 DEF Comes
<1>6. \A j \in -C..C : resampled[C][g][0][j] = Comes(Draws(C), totC, j)
  <2>1. resampled[C][g][0] = [j \in -C..C |-> Cardinality({d \in Draws(C) : j = total(d, C, g, 0)})]
    BY <1>1 DEF resampled
  <2>2. \A j : {d \in Draws(C) : j = total(d, C, g, 0)} = {d \in Draws(C) : j = totC[d]}
    OBVIOUS
  <2> QED BY <2>1, <2>2 DEF Comes
<1> HIDE DEF totE, totC, M
<1>7. ASSUME NEW k \in -E..E PROVE Mass(within(k), C) = w[k]
  <2>1. PICK Q, f : Q = P(k) /\ f = within(k)
    OBVIOUS
  <2>2. ASSUME NEW j \in -C..C
        PROVE  /\ j \in Q => f[j] = Comes(Draws(C), totC, j)
               /\ j \notin Q => f[j] = 0
    <3>1. f[j] = IF 1 * (k * nC - j * nE) <= 0 * nE * nC THEN resampled[C][g][0][j] ELSE 0
      BY <2>1
    <3>2. j \in Q <=> 1 * (k * nC - j * nE) <= 0 * nE * nC
      BY <2>1
    <3> QED BY <1>6, <3>1, <3>2
  <2> HIDE DEF P, within
  <2>3. C \in Nat
    BY <1>1
  <2>4. IsFiniteSet(Draws(C))
    BY <1>4
  <2>5. totC \in [Draws(C) -> -C..C]
    BY <1>3
  <2>6. Mass(f, C) = Falls(Draws(C), totC, Q)
    BY ONLY <2>2, <2>3, <2>4, <2>5, MassCounts, SMT
  <2>7. w[k] = Falls(Draws(C), totC, P(k))
    OBVIOUS
  <2> QED BY <2>1, <2>6, <2>7
<1>8. w \in [-E..E -> Nat]
  <2>1. ASSUME NEW k \in -E..E PROVE Falls(Draws(C), totC, P(k)) \in Nat
    <3> DEFINE T == {d \in Draws(C) : totC[d] \in P(k)}
    <3>1. T \in SUBSET Draws(C)
      OBVIOUS
    <3> HIDE DEF T
    <3>2. Cardinality(T) \in Nat
      BY <1>4, <3>1, FS_Subset, FS_CardinalityType
    <3> QED BY <3>2 DEF T, Falls
  <2> QED BY <2>1
<1>9. ASSUME NEW d \in Draws(E) PROVE w[totE[d]] = M
  <2>1. PICK k \in -E..E : k = totE[d] /\ k <= 0
    BY <1>2
  <2>2. ASSUME NEW e \in Draws(C) PROVE totC[e] \in P(k)
    <3>1. PICK j \in -C..C : j = totC[e] /\ j >= 0
      BY <1>3
    <3>2. k * nC <= 0
      BY <2>1
    <3>3. j * nE >= 0
      BY <3>1
    <3>4. k * nC \in Int /\ j * nE \in Int /\ 0 * nE * nC = 0
      OBVIOUS
    <3>5. 1 * (k * nC - j * nE) <= 0 * nE * nC
      BY <3>2, <3>3, <3>4
    <3> QED BY <3>1, <3>5
  <2>3. {e \in Draws(C) : totC[e] \in P(k)} = Draws(C)
    BY <2>2
  <2>4. w[k] = Cardinality({e \in Draws(C) : totC[e] \in P(k)})
    BY DEF Falls
  <2> HIDE DEF w, P
  <2> QED BY <2>1, <2>3, <2>4 DEF M
<1>10. ASSUME NEW k \in -E..E PROVE low[k] = Times(Comes(Draws(E), totE, k), M)
  <2> DEFINE here == {d \in Draws(E) : k = totE[d]}
  <2>1. low[k] = Cardinality(here) * w[k]
    <3>1. low[k] = resampled[E][0][l][k] * Mass(within(k), C)
      OBVIOUS
    <3> HIDE DEF low, w, within
    <3> QED BY <1>5, <1>7, <3>1 DEF Comes
  <2> HIDE DEF low
  <2>2. CASE here = {}
    <3>1. Cardinality(here) = 0 /\ w[k] \in Nat
      BY <1>8, <2>2, FS_EmptySet
    <3> HIDE DEF here, w
    <3>2. low[k] = 0 /\ Cardinality(here) * M = 0
      BY <1>4, <2>1, <3>1
    <3> QED BY <3>2 DEF Times, Comes, here
  <2>3. CASE here # {}
    <3>1. PICK d \in Draws(E) : k = totE[d]
      BY <2>3
    <3> HIDE DEF w
    <3>2. w[k] = M
      BY <1>9, <3>1
    <3> QED BY <2>1, <3>2 DEF Times, Comes
  <2> QED BY <2>2, <2>3
<1>11. Mass(low, E) = Times(Cardinality(Draws(E)), M)
  <2> HIDE DEF w, low
  <2>1. E \in Nat
    BY <1>1
  <2>2. IsFiniteSet(Draws(E)) /\ M \in Nat
    BY <1>4
  <2>3. totE \in [Draws(E) -> -E..E]
    BY <1>2
  <2> QED BY ONLY <2>1, <2>2, <2>3, <1>10, MassWeighs
<1>12. LowMass(E, C, l, g, nE, nC) = Mass(low, E)
  BY DEF LowMass
<1> HIDE DEF low
<1> QED BY <1>11, <1>12 DEF M, Times

(* What the errors and the clean items must say for b not to be as good.   *)
LEMMA NoLead ==
    ASSUME NEW corpus, NEW cells, NEW a, NEW b, MaxStratum \in Nat,
           IsFiniteSet(binding_k_pool(corpus)), Cardinality(binding_k_pool(corpus)) <= MaxStratum,
           IsFiniteSet(Of(corpus, "clean")), Cardinality(Of(corpus, "clean")) <= MaxStratum,
           Flagged(cells, binding_k_pool(corpus), a) \subseteq Flagged(cells, binding_k_pool(corpus), b),
           Flagged(cells, Of(corpus, "clean"), b) \subseteq Flagged(cells, Of(corpus, "clean"), a)
    PROVE  ~lower_end_above(corpus, cells, a, b, 0, 1)
<1> DEFINE errors == binding_k_pool(corpus)
           clean == Of(corpus, "clean")
           only(items, x, y) == Cardinality(Flagged(cells, items, x) \ Flagged(cells, items, y))
           E == Cardinality(errors)
           C == Cardinality(clean)
           size(n) == IF n = 0 THEN 1 ELSE n
           low == Mass([k \in -E..E |->
                    resampled[E][only(errors, a, b)][only(errors, b, a)][k]
                      * Mass([j \in -C..C |-> IF 1 * (k * size(C) - j * size(E)) <= 0 * size(E) * size(C)
                                              THEN resampled[C][only(clean, a, b)][only(clean, b, a)][j]
                                              ELSE 0], C)], E)
<1>1. E \in 0..MaxStratum /\ C \in 0..MaxStratum
  BY FS_CardinalityType
<1>2. only(errors, a, b) = 0 /\ only(errors, b, a) \in 0..E
  <2> DEFINE X == Flagged(cells, errors, a)
             Y == Flagged(cells, errors, b)
  <2>1. X \in SUBSET errors /\ Y \in SUBSET errors
    BY DEF Flagged
  <2> HIDE DEF X, Y
  <2>2. /\ IsFiniteSet(X) /\ Cardinality(X) <= Cardinality(errors)
        /\ IsFiniteSet(Y) /\ Cardinality(Y) <= Cardinality(errors)
    BY <1>1, <2>1, FS_Subset
  <2>3. Cardinality(X \ Y) = 0
    BY <2>2, Part DEF X, Y
  <2>4. Cardinality(Y \ X) \in 0..Cardinality(Y) /\ Cardinality(Y) \in Nat
    BY <2>2, Part, FS_CardinalityType
  <2>5. Cardinality(Y \ X) \in 0..Cardinality(errors)
    BY <1>1, <2>2, <2>4
  <2> QED BY <2>3, <2>5 DEF X, Y
<1>3. only(clean, b, a) = 0 /\ only(clean, a, b) \in 0..C
  <2> DEFINE X == Flagged(cells, clean, b)
             Y == Flagged(cells, clean, a)
  <2>1. X \in SUBSET clean /\ Y \in SUBSET clean
    BY DEF Flagged
  <2> HIDE DEF X, Y
  <2>2. /\ IsFiniteSet(X) /\ Cardinality(X) <= Cardinality(clean)
        /\ IsFiniteSet(Y) /\ Cardinality(Y) <= Cardinality(clean)
    BY <1>1, <2>1, FS_Subset
  <2>3. Cardinality(X \ Y) = 0
    BY <2>2, Part DEF X, Y
  <2>4. Cardinality(Y \ X) \in 0..Cardinality(Y) /\ Cardinality(Y) \in Nat
    BY <2>2, Part, FS_CardinalityType
  <2>5. Cardinality(Y \ X) \in 0..Cardinality(clean)
    BY <1>1, <2>2, <2>4
  <2> QED BY <2>3, <2>5 DEF X, Y
<1>4. size(E) \in Nat /\ size(C) \in Nat
  BY <1>1
<1>5. lower_end_above(corpus, cells, a, b, 0, 1) => 40 * low <= Cardinality(Draws(E)) * Cardinality(Draws(C))
  BY DEF lower_end_above
<1> HIDE DEF E, C, only, size, errors, clean
<1>6. low = Cardinality(Draws(E)) * Cardinality(Draws(C))
  <2>1. PICK l \in 0..E, g \in 0..C, nE \in Nat, nC \in Nat :
          /\ l = only(errors, b, a) /\ g = only(clean, a, b) /\ nE = size(E) /\ nC = size(C)
    BY <1>2, <1>3, <1>4
  <2>2. low = LowMass(E, C, l, g, nE, nC)
    BY <1>2, <1>3, <2>1 DEF LowMass
  <2> HIDE DEF low
  <2>3. LowMass(E, C, l, g, nE, nC) = Cardinality(Draws(E)) * Cardinality(Draws(C))
    BY <1>1, AllBelow, ZenonT(40)
  <2> QED BY <2>2, <2>3
<1>7. PICK p \in Nat, q \in Nat : /\ p = Cardinality(Draws(E)) /\ q = Cardinality(Draws(C))
                                  /\ p >= 1 /\ q >= 1
  BY <1>1, DrawsAre
<1>8. p * q >= 1 /\ p * q \in Nat
  BY <1>7
<1> QED BY <1>5, <1>6, <1>7, <1>8

-----------------------------------------------------------------------------
(* What a PASS rests on.  The strata are those of finitely many planted    *)
(* items; the oracle arm flags none of the clean ones, so an arm that is   *)
(* better than it catches something.                                       *)

Planting(d, x) ==
    IF d.audited /\ convertible(x) /\ x.sibling # 0 THEN attempt_convert(x, ById(world.items, x.sibling))
    ELSE x

LEMMA PlantedIs ==
    ASSUME GateAssumption, world \in Scenarios, NEW d
    PROVE  /\ planted(d) = {Planting(d, x) : x \in world.items}
           /\ \A x \in world.items : Planting(d, x).isError = x.isError /\ x.isError \in BOOLEAN
<1>1. world.items \subseteq PlantedItem
  BY DEF GateAssumption
<1>2. \A x \in world.items : Planting(d, x).isError = x.isError
  BY <1>1, ConvertKeeps DEF Planting
<1>3. \A x \in world.items : x.isError \in BOOLEAN
  BY <1>1 DEF PlantedItem
<1>4. CASE d.audited
  <2>1. \A x : Planting(d, x) = IF convertible(x) /\ x.sibling # 0
                                THEN attempt_convert(x, ById(world.items, x.sibling)) ELSE x
    BY <1>4 DEF Planting
  <2> QED BY <1>2, <1>3, <1>4, <2>1 DEF planted, convert_k_pool
<1>5. CASE ~d.audited
  <2>1. \A x : Planting(d, x) = x
    BY <1>5 DEF Planting
  <2> QED BY <1>2, <1>3, <1>5, <2>1 DEF planted
<1> QED BY <1>4, <1>5

Side(e) == {x \in world.items : x.isError = e}

(* The locked items of one side are no more than were planted on it.       *)
LEMMA SideBounds ==
    ASSUME GateAssumption, world \in Scenarios, NEW d, NEW e \in BOOLEAN,
           NEW T, T \subseteq {i \in locked(d) : i.isError = e}
    PROVE  IsFiniteSet(T) /\ Cardinality(T) <= MaxStratum
<1> DEFINE f == [x \in Side(e) |-> Final(d, Planting(d, x))]
           Img == {f[x] : x \in Side(e)}
<1>1. IsFiniteSet(Side(e)) /\ Cardinality(Side(e)) <= MaxStratum /\ MaxStratum \in Nat
  BY DEF GateAssumption, Side
<1>2. f \in Surjection(Side(e), Img)
  BY DEF Surjection
<1>3. T \in SUBSET Img
  <2> SUFFICES ASSUME NEW i \in T PROVE i \in Img
    OBVIOUS
  <2>1. PICK y \in planted(d) : i = Final(d, y)
    BY LockedIs DEF Kept
  <2>2. PICK x \in world.items : y = Planting(d, x)
    BY <2>1, PlantedIs
  <2>3. x.isError = e
    BY <2>1, <2>2, FinalItem, PlantedIs
  <2>4. x \in Side(e) /\ i = f[x]
    BY <2>1, <2>2, <2>3 DEF Side
  <2> HIDE DEF f
  <2> QED BY <2>4
<1> HIDE DEF f, Img
<1>4. IsFiniteSet(Img) /\ Cardinality(Img) <= Cardinality(Side(e))
  BY <1>1, <1>2, FS_Surjection
<1>5. IsFiniteSet(T) /\ Cardinality(T) <= Cardinality(Img)
  BY <1>3, <1>4, FS_Subset
<1>6. Cardinality(T) \in Nat /\ Cardinality(Img) \in Nat /\ Cardinality(Side(e)) \in Nat
  BY <1>1, <1>4, <1>5, FS_CardinalityType
<1> QED BY <1>1, <1>4, <1>5, <1>6

LEMMA StrataBounds ==
    ASSUME GateAssumption, world \in Scenarios, NEW d
    PROVE  /\ IsFiniteSet(binding_k_pool(locked(d)))
           /\ Cardinality(binding_k_pool(locked(d))) <= MaxStratum
           /\ IsFiniteSet(Of(locked(d), "clean"))
           /\ Cardinality(Of(locked(d), "clean")) <= MaxStratum
<1>1. ASSUME NEW i \in locked(d)
      PROVE  /\ i.stratum = "K" => i.isError = TRUE
             /\ i.stratum = "clean" => i.isError = FALSE
  <2>1. PICK x \in Kept(d) : i = Final(d, x)
    BY LockedIs
  <2>2. x.isError \in BOOLEAN
    BY PlantedPaired DEF Kept
  <2>3. i.stratum = assign_stratum(x) /\ i.isError = x.isError
    BY <2>1, FinalItem
  <2> QED BY <2>2, <2>3 DEF assign_stratum
<1>2. binding_k_pool(locked(d)) \subseteq {i \in locked(d) : i.isError = TRUE}
  BY <1>1 DEF binding_k_pool, Of
<1>3. Of(locked(d), "clean") \subseteq {i \in locked(d) : i.isError = FALSE}
  BY <1>1 DEF Of
<1> QED BY <1>2, <1>3, SideBounds

LEMMA OneWithId ==
    ASSUME GateAssumption, world \in Scenarios, NEW d, NEW i \in locked(d)
    PROVE  ById(locked(d), i.id) = i
<1>1. ASSUME NEW j \in locked(d), j.id = i.id PROVE j = i
  <2>1. PICK x \in Kept(d) : i = Final(d, x)
    BY LockedIs
  <2>2. PICK y \in Kept(d) : j = Final(d, y)
    BY LockedIs
  <2>3. x \in planted(d) /\ y \in planted(d) /\ x.id = y.id
    BY <1>1, <2>1, <2>2, FinalItem DEF Kept
  <2>4. x = y
    BY <2>3, PlantedPaired DEF paired
  <2> QED BY <2>1, <2>2, <2>4
<1> QED BY <1>1 DEF ById

Seen ==
    run.phase \in {"score", "cells", "manifest"} =>
        \A i \in run.corpus : run.cells[<<i.id, "A">>] = arm_a_flags(i)

Passed ==
    Running /\ run.verdict = "PASS" =>
        /\ run.phase \in {"cells", "manifest"} /\ run.design.audited
        /\ lower_end_above(run.corpus, run.cells, "D", "A", 0, 1)
        /\ lower_end_above(run.corpus, run.cells, "D", "C", 0, 1)

Judged == Seen /\ Passed

LEMMA InitJudged == Init => Judged
BY DEF Init, Down, Judged, Seen, Passed, Running

(* A step that leaves what was judged, or the run, keeps it so.            *)
LEMMA StillJudged ==
    ASSUME Judged, run.phase \in {"cells", "manifest"}, run'.phase \in {"cells", "manifest"},
           run'.corpus = run.corpus, run'.cells = run.cells, run'.design = run.design,
           run'.verdict = run.verdict
    PROVE  Judged'
<1>1. Running /\ \A i : arm_a_flags(i)' <=> arm_a_flags(i)
  BY DEF Running, arm_a_flags
<1>2. PICK corpus, cells, d, v :
        /\ corpus = run.corpus /\ cells = run.cells /\ d = run.design /\ v = run.verdict
  OBVIOUS
<1>3. \A i \in corpus : cells[<<i.id, "A">>] = arm_a_flags(i)
  BY <1>2 DEF Judged, Seen
<1>4. v = "PASS" => /\ d.audited /\ lower_end_above(corpus, cells, "D", "A", 0, 1)
                    /\ lower_end_above(corpus, cells, "D", "C", 0, 1)
  BY <1>1, <1>2 DEF Judged, Passed
<1>5. corpus = run'.corpus /\ cells = run'.cells /\ d = run'.design /\ v = run'.verdict
  BY <1>2
<1>6. Seen'
  BY <1>3, <1>5 DEF Seen, arm_a_flags
<1>7. Passed'
  BY <1>4, <1>5 DEF Passed
<1> QED BY <1>6, <1>7 DEF Judged

LEMMA LookJudged == ASSUME Inv, Judged, AppendLook PROVE Judged'
<1>1. run.phase = "arms" /\ DOMAIN run = Fields /\ Running
  BY DEF AppendLook, Running, Inv, Prepared
<1>2. PICK d : d = run.design
  OBVIOUS
<1>3. run.corpus = locked(d) /\ world \in Scenarios
  BY <1>1, <1>2 DEF Inv, Prepared
<1>4. /\ run'.phase = "score" /\ run'.cells = cell_artifact /\ run'.corpus = run.corpus
      /\ run'.verdict = run.verdict
  BY <1>1 DEF AppendLook, Fields
<1>5. ASSUME NEW i \in locked(d) PROVE cell_artifact[<<i.id, "A">>] = arm_a_flags(i)
  <2>1. <<i.id, "A">> \in Ids(locked(d)) \X ToSet(ArmLabels)
    BY GateAssumption DEF GateAssumption, Ids
  <2>2. ById(locked(d), i.id) = i
    BY <1>3, OneWithId, GateAssumption
  <2> QED BY <1>3, <2>1, <2>2 DEF cell_artifact
<1>6. Seen'
  <2>1. PICK cells : cells = cell_artifact
    OBVIOUS
  <2>2. run'.cells = cells /\ run'.corpus = locked(d)
    BY <1>3, <1>4, <2>1
  <2>3. \A i \in locked(d) : cells[<<i.id, "A">>] = arm_a_flags(i)
    BY <1>5, <2>1
  <2> QED BY <2>2, <2>3 DEF Seen, arm_a_flags
<1>7. run.verdict # "PASS"
  BY <1>1 DEF Judged, Passed
<1> QED BY <1>4, <1>6, <1>7 DEF Judged, Passed

LEMMA ScoreJudged == ASSUME Inv, Judged, ScoreGate PROVE Judged'
<1>1. Running /\ DOMAIN run = Fields /\ run.phase = "score"
  BY DEF ScoreGate, Running, Inv, Prepared
<1>2. PICK corpus, cells, d : corpus = run.corpus /\ cells = run.cells /\ d = run.design
  OBVIOUS
<1>3. PICK v : /\ v = score_gate(d.audited, corpus, cells, d.seed \notin Leaky, looks_taken(d))
               /\ run' = [run EXCEPT !.phase = "cells", !.verdict = v]
  BY <1>2 DEF ScoreGate
<1>4. /\ run'.phase = "cells" /\ run'.verdict = v
      /\ run'.corpus = corpus /\ run'.cells = cells /\ run'.design = d
  BY <1>1, <1>2, <1>3 DEF Fields
<1>5. v = "PASS" => /\ d.audited /\ lower_end_above(corpus, cells, "D", "A", 0, 1)
                    /\ lower_end_above(corpus, cells, "D", "C", 0, 1)
  BY <1>3 DEF score_gate
<1>6. \A i \in corpus : cells[<<i.id, "A">>] = arm_a_flags(i)
  BY <1>1, <1>2 DEF Judged, Seen
<1>7. Seen'
  BY <1>4, <1>6 DEF Seen, arm_a_flags
<1>8. Passed'
  BY <1>4, <1>5 DEF Passed
<1> QED BY <1>7, <1>8 DEF Judged

LEMMA JudgedStep == ASSUME Inv, Judged, [Next]_vars PROVE Judged'
<1>1. ASSUME run'.phase \in {"down", "idle"} PROVE Judged'
  BY <1>1 DEF Judged, Seen, Passed, Running
<1>2. ASSUME run'.phase = "arms", run'.verdict # "PASS" PROVE Judged'
  BY <1>2 DEF Judged, Seen, Passed
<1>3. CASE StartProcess \/ OverCeiling \/ WriteManifest \/ Kill \/ KillInCell \/ KillInWrite \/ Exit
           \/ \E d \in world.designs : Refused(d)
  <2>1. run'.phase \in {"down", "idle"}
    BY <1>3 DEF StartProcess, OverCeiling, WriteManifest, Kill, KillInCell, KillInWrite, Exit, Refused,
                Killed, Dies, Idle, Down
  <2> QED BY <1>1, <2>1
<1>4. CASE \E d \in world.designs : StartRun(d)
  <2>1. run'.phase = "arms" /\ run'.verdict = "none"
    BY <1>4 DEF StartRun
  <2> QED BY <1>2, <2>1
<1>5. CASE AnswerCell
  <2>1. Running /\ run.phase = "arms" /\ DOMAIN run = Fields
    BY <1>5 DEF AnswerCell, Running, Inv, Prepared
  <2>2. run.verdict # "PASS"
    BY <2>1 DEF Judged, Passed
  <2>3. run'.phase = "arms" /\ run'.verdict = run.verdict
    BY <1>5, <2>1 DEF AnswerCell, Fields
  <2> QED BY <1>2, <2>2, <2>3
<1>6. CASE WriteCells
  <2>1. Running /\ run.phase = "cells" /\ DOMAIN run = Fields
    BY <1>6 DEF WriteCells, Running, Inv, Prepared
  <2>2. /\ run'.phase = "manifest" /\ run'.corpus = run.corpus /\ run'.cells = run.cells
        /\ run'.design = run.design /\ run'.verdict = run.verdict
    BY <1>6, <2>1 DEF WriteCells, Fields
  <2> QED BY <2>1, <2>2, StillJudged
<1>7. CASE UNCHANGED vars
  <2>1. run' = run
    BY <1>7 DEF vars
  <2>2. CASE run.phase \in {"cells", "manifest"}
    BY <2>1, <2>2, StillJudged
  <2>3. CASE run.phase \notin {"cells", "manifest"}
    <3>1. ~(Running /\ run.verdict = "PASS")
      BY <2>3 DEF Judged, Passed
    <3>2. PICK corpus, cells : corpus = run.corpus /\ cells = run.cells
      OBVIOUS
    <3>3. run.phase = "score" => \A i \in corpus : cells[<<i.id, "A">>] = arm_a_flags(i)
      BY <3>2 DEF Judged, Seen
    <3>4. corpus = run'.corpus /\ cells = run'.cells /\ run'.phase = run.phase
      BY <2>1, <3>2
    <3>5. Seen'
      BY <2>3, <3>3, <3>4 DEF Seen, arm_a_flags
    <3>6. Passed'
      BY <2>1, <3>1 DEF Passed, Running
    <3> QED BY <3>5, <3>6 DEF Judged
  <2> QED BY <2>2, <2>3
<1> QED BY <1>3, <1>4, <1>5, <1>6, <1>7, LookJudged, ScoreJudged DEF Next

LEMMA Earned == ASSUME Inv, Judged PROVE PassIsEarned
<1> SUFFICES ASSUME Running, run.verdict = "PASS" PROVE PassIsEarned
  BY DEF PassIsEarned
<1>1. PICK d, corpus, cells : d = run.design /\ corpus = run.corpus /\ cells = run.cells
  OBVIOUS
<1>2. corpus = locked(d) /\ world \in Scenarios
  BY <1>1 DEF Inv, Prepared
<1>3. /\ d.audited /\ lower_end_above(corpus, cells, "D", "A", 0, 1)
      /\ lower_end_above(corpus, cells, "D", "C", 0, 1)
  BY <1>1 DEF Judged, Passed
<1>4. \A i \in corpus : cells[<<i.id, "A">>] = arm_a_flags(i)
  BY <1>1 DEF Judged, Seen, Passed
<1>5. \A i \in corpus : arm_a_flags(i) <=> i.stratum = "O"
  BY <1>2, FloorHolds, GateAssumption
<1> DEFINE errors == binding_k_pool(corpus)
           clean == Of(corpus, "clean")
<1>6. /\ IsFiniteSet(errors) /\ Cardinality(errors) <= MaxStratum
      /\ IsFiniteSet(clean) /\ Cardinality(clean) <= MaxStratum
  BY <1>2, StrataBounds, GateAssumption
<1>7. MaxStratum \in Nat
  BY GateAssumption DEF GateAssumption
<1>8. \A i \in errors : i \in corpus /\ binding(i)
  BY <1>5 DEF binding_k_pool, Of, binding, arm_a_flags
<1>9. \A i \in clean : i \in corpus /\ is_clean(i) /\ ~cells[<<i.id, "A">>]
  BY <1>4, <1>5 DEF Of, is_clean
<1> HIDE DEF errors, clean
<1>10. \E i \in corpus : binding(i) /\ cells[<<i.id, "D">>]
  <2> SUFFICES ASSUME \A i \in corpus : ~(binding(i) /\ cells[<<i.id, "D">>]) PROVE FALSE
    OBVIOUS
  <2>1. Flagged(cells, errors, "D") \subseteq Flagged(cells, errors, "A")
    BY <1>8 DEF Flagged
  <2>2. Flagged(cells, clean, "A") \subseteq Flagged(cells, clean, "D")
    BY <1>9 DEF Flagged
  <2> QED BY <1>3, <1>6, <1>7, <2>1, <2>2, NoLead DEF errors, clean
<1>11. \E i \in corpus :
          LET D == cells[<<i.id, "D">>]
              C == cells[<<i.id, "C">>]
          IN  (binding(i) /\ D /\ ~C) \/ (is_clean(i) /\ C /\ ~D)
  <2> SUFFICES ASSUME \A i \in corpus : /\ binding(i) /\ cells[<<i.id, "D">>] => cells[<<i.id, "C">>]
                                        /\ is_clean(i) /\ cells[<<i.id, "C">>] => cells[<<i.id, "D">>]
               PROVE  FALSE
    OBVIOUS
  <2>1. Flagged(cells, errors, "D") \subseteq Flagged(cells, errors, "C")
    BY <1>8 DEF Flagged
  <2>2. Flagged(cells, clean, "C") \subseteq Flagged(cells, clean, "D")
    BY <1>9 DEF Flagged
  <2> QED BY <1>3, <1>6, <1>7, <2>1, <2>2, NoLead DEF errors, clean
<1> QED BY <1>1, <1>3, <1>10, <1>11 DEF PassIsEarned

(* Whatever was planted, converted, voted and answered, and whatever the   *)
(* draws: a PASS rests on an audited corpus, on a binding error that D     *)
(* catches, and on an item that D gets right and the baseline wrong.       *)
THEOREM EveryPassIsEarned == Spec => []PassIsEarned
<1>1. Init => Inv /\ Judged
  BY InitInv, InitJudged
<1>2. (Inv /\ Judged) /\ [Next]_vars => (Inv /\ Judged)'
  BY InvStep, JudgedStep
<1>3. Inv /\ Judged => PassIsEarned
  BY Earned
<1> QED BY <1>1, <1>2, <1>3, PTL DEF Spec

=============================================================================
