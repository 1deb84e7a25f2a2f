-------------------------- MODULE ProceduralProofs --------------------------
(***************************************************************************)
(* Proofs about Procedural: whatever races, crashes or comes twice, the    *)
(* graph's posteriors count the journal, and the in-memory double keeps    *)
(* what the graph keeps but for the trials recorded again elsewhere.       *)
(*                                                                         *)
(* The argument.  Every trial is that of a projected step, under the       *)
(* declarations that all processes share, and every projected step with    *)
(* an outcome has its trial: a trial is never overwritten, and two steps   *)
(* never share an id, since a step's index is the number of the steps its  *)
(* run had before.  A trial has the edges it was created with and maybe    *)
(* others, and a procedure applies to a problem type only when a trial     *)
(* hangs on both; so on an edge where no trial has strayed the graph, that *)
(* asks its edges, and the double, that asks its trials, find the same.    *)
(***************************************************************************)
EXTENDS Procedural, FiniteSetTheorems, TLAPS

(* All processes run the same code and so declare the same.                *)
SameDeclarations == \A f \in Deployments : \A u, v \in Projectors : f[u] = f[v]

-----------------------------------------------------------------------------
(* The inductive invariant, in parts. *)

IdOf(s) == <<s.run, s.step>>

Declarations ==
    /\ deployed \in [Projectors -> SUBSET Declaration]
    /\ \A u \in Projectors : Declarable(deployed[u])
    /\ \A u, v \in Projectors : deployed[u] = deployed[v]

(* A step is numbered by the steps of its run before it.                   *)
Counts == [run \in Runs |-> StepsOf(run)]

Numbered ==
    /\ log \in Seq(Step)
    /\ \A i \in 1..Len(log) : log[i].step < Counts[log[i].run]
    /\ \A i, j \in 1..Len(log) : IdOf(log[i]) = IdOf(log[j]) => i = j

(* A tick in flight read what is committed, from where a cursor was.       *)
Ticking ==
    /\ kg.cursor \in 0..Len(log)
    /\ tick \in [Projectors -> Frame]
    /\ \A u \in Projectors : tick[u].from <= kg.cursor /\ tick[u].upto <= Len(log)

(* A trial is of a projected step, and is what that step resolves to.      *)
Journalled ==
    \A id \in DOMAIN kg.trials : \E i \in 1..kg.cursor :
        /\ id = IdOf(log[i])
        /\ \E u \in Projectors : kg.trials[id] \in resolve_outcome(log[i], deployed[u])

(* No projected step is malformed, and each that has an outcome has its    *)
(* trial.                                                                  *)
Projected ==
    \A i \in 1..kg.cursor :
        /\ ~Raises(log[i])
        /\ \E u \in Projectors :
              resolve_outcome(log[i], deployed[u]) # {} => IdOf(log[i]) \in DOMAIN kg.trials

(* A trial has the edges it was created with, and a procedure applies to   *)
(* the problem types some trial of it hangs on.                            *)
Edges ==
    /\ \A id \in DOMAIN kg.trials : /\ <<id, kg.trials[id].procedure_id>> \in kg.of
                                    /\ <<id, kg.trials[id].problem_type>> \in kg.against
    /\ \A p, T : <<p, T>> \in kg.applies =>
          \E id \in DOMAIN kg.trials : <<id, p>> \in kg.of /\ <<id, T>> \in kg.against

(* The double holds the trials, the topology and the cursor of the graph.  *)
Doubled == double = [trials |-> kg.trials, applies |-> kg.applies, cursor |-> kg.cursor]

Shaped == kg = [trials |-> kg.trials, of |-> kg.of, against |-> kg.against,
                applies |-> kg.applies, cursor |-> kg.cursor]

Stores == Edges /\ Doubled /\ Shaped

Inv == Declarations /\ Numbered /\ Ticking /\ Journalled /\ Projected /\ Stores

-----------------------------------------------------------------------------
(* Lemmas. *)

LEMMA Later == ASSUME NEW a \in Nat, NEW b \in Nat
               PROVE  Max({a, b}) = IF a < b THEN b ELSE a
<1>1. PICK m \in {a, b} : \A y \in {a, b} : m >= y
  <2>1. CASE a < b
    BY <2>1
  <2>2. CASE ~(a < b)
    BY <2>2
  <2> QED BY <2>1, <2>2
<1>2. Max({a, b}) \in {a, b} /\ \A y \in {a, b} : Max({a, b}) >= y
  BY <1>1 DEF Max
<1> QED BY <1>2

LEMMA Earlier == ASSUME NEW a \in Nat, NEW b \in Nat
                 PROVE  Min({a, b}) \in Nat /\ Min({a, b}) <= a
<1>1. PICK m \in {a, b} : \A y \in {a, b} : m <= y
  <2>1. CASE a < b
    BY <2>1
  <2>2. CASE ~(a < b)
    BY <2>2
  <2> QED BY <2>1, <2>2
<1>2. Min({a, b}) \in {a, b} /\ \A y \in {a, b} : Min({a, b}) <= y
  BY <1>1 DEF Min
<1> QED BY <1>2

(* A step resolves to one trial at most: the one of its stamp, or, of an   *)
(* exhausted stage that is declared, a failure.                            *)
LEMMA Resolved ==
    ASSUME NEW s \in Step, ~Raises(s), NEW D \in SUBSET Declaration, Declarable(D),
           NEW r \in resolve_outcome(s, D)
    PROVE  /\ r.procedure_id = s.stage
           /\ r.outcome = IF s.ending = "exhausted" THEN "failure" ELSE s.ending
           /\ s.ending \in Outcomes => r.problem_type = s.type
           /\ s.ending = "exhausted" => <<s.stage, r.problem_type>> \in D
           /\ s.ending \in Outcomes \cup {"exhausted"}
           /\ \A q \in resolve_outcome(s, D) : q = r
<1>1. CASE Stamped(s)
  BY <1>1 DEF resolve_outcome, Stamped, Raises, Outcomes
<1>2. CASE ~Stamped(s)
  <2>1. s.ending = "exhausted"
    BY <1>2 DEF resolve_outcome
  <2>2. resolve_outcome(s, D) =
          {[procedure_id |-> d[1], problem_type |-> d[2], outcome |-> "failure"] :
             d \in Declared(D, s.stage)}
    BY <1>2, <2>1 DEF resolve_outcome
  <2>3. PICK d \in D : /\ d[1] = s.stage
                       /\ r = [procedure_id |-> d[1], problem_type |-> d[2], outcome |-> "failure"]
    BY <2>2 DEF Declared
  <2>4. d = <<s.stage, d[2]>>
    BY <2>3 DEF Declaration
  <2>5. \A q \in resolve_outcome(s, D) : q = r
    BY <2>2, <2>3 DEF Declared, Declarable
  <2> QED BY <2>1, <2>3, <2>4, <2>5 DEF Outcomes
<1> QED BY <1>1, <1>2

(* Something happened on an edge: what the step resolves to is that.       *)
LEMMA Resolves ==
    ASSUME NEW s \in Step, NEW D \in SUBSET Declaration,
           \/ s.ending \in Outcomes
           \/ s.ending = "exhausted" /\ \E T \in ProblemTypes : <<s.stage, T>> \in D
    PROVE  resolve_outcome(s, D) # {}
<1>1. CASE s.ending \in Outcomes
  BY <1>1 DEF resolve_outcome, Stamped, Outcomes
<1>2. CASE s.ending = "exhausted" /\ \E T \in ProblemTypes : <<s.stage, T>> \in D
  <2>1. PICK T \in ProblemTypes : <<s.stage, T>> \in D
    BY <1>2
  <2>2. <<s.stage, T>> \in Declared(D, s.stage)
    BY <2>1 DEF Declared
  <2>3. ~Stamped(s)
    BY <1>2 DEF Stamped
  <2> QED BY <1>2, <2>2, <2>3 DEF resolve_outcome
<1> QED BY <1>1, <1>2

LEMMA StepCounts ==
    ASSUME log \in Seq(Step), NEW row, log' = Append(log, row)
    PROVE  /\ Counts \in [Runs -> Nat]
           /\ Counts' = [run \in Runs |->
                           IF row.run = run THEN Counts[run] + 1 ELSE Counts[run]]
<1>1. ASSUME NEW run \in Runs
      PROVE  /\ StepsOf(run) \in Nat
             /\ StepsOf(run)' = IF row.run = run THEN StepsOf(run) + 1 ELSE StepsOf(run)
  <2> DEFINE mine == {i \in 1..Len(log) : log[i].run = run}
             theirs == {i \in 1..Len(log') : log'[i].run = run}
  <2>1. IsFiniteSet(mine) /\ Cardinality(mine) \in Nat
    <3>1. IsFiniteSet(1..Len(log))
      BY FS_Interval
    <3>2. mine \subseteq 1..Len(log)
      OBVIOUS
    <3> QED BY <3>1, <3>2, FS_Subset, FS_CardinalityType
  <2>2. theirs = IF row.run = run THEN mine \cup {Len(log) + 1} ELSE mine
    OBVIOUS
  <2>3. Len(log) + 1 \notin mine
    OBVIOUS
  <2>4. Cardinality(theirs) = IF row.run = run THEN Cardinality(mine) + 1 ELSE Cardinality(mine)
    <3> HIDE DEF mine, theirs
    <3> QED BY <2>1, <2>2, <2>3, FS_AddElement
  <2> QED BY <2>1, <2>4 DEF StepsOf
<1> QED BY <1>1 DEF Counts

-----------------------------------------------------------------------------
(* Writing.  New trials go in as they are, those that are there stay, and  *)
(* the edges follow.                                                       *)

LEMMA Merging ==
    ASSUME Stores, NEW writes, NEW n,
           kg' = [trials |-> Created(kg.trials, writes),
                  of |-> MergeTrials(kg, writes).of,
                  against |-> MergeTrials(kg, writes).against,
                  applies |-> kg.applies \cup Applied(writes), cursor |-> n],
           double' = [trials |-> Created(double.trials, writes),
                      applies |-> double.applies \cup Applied(writes), cursor |-> n]
    PROVE  /\ Stores' /\ kg'.cursor = n
           /\ DOMAIN kg'.trials = DOMAIN kg.trials \cup {w.id : w \in writes}
           /\ \A id \in DOMAIN kg.trials : kg'.trials[id] = kg.trials[id]
           /\ \A w \in writes : w.id \notin DOMAIN kg.trials =>
                 \E v \in writes : v.id = w.id /\ kg'.trials[w.id] = v.trial
<1> DEFINE old == kg.trials
           new == kg'.trials
<1>1. /\ DOMAIN new = DOMAIN old \cup {w.id : w \in writes}
      /\ \A id \in DOMAIN old : new[id] = old[id]
      /\ \A id \in DOMAIN new : id \notin DOMAIN old => new[id] = Written(writes, id)
  BY DEF Created
<1>2. \A w \in writes : \E v \in writes : v.id = w.id /\ Written(writes, w.id) = v.trial
  BY DEF Written
<1>3. \A w \in writes : w.id \notin DOMAIN old =>
         \E v \in writes : v.id = w.id /\ new[w.id] = v.trial
  BY <1>1, <1>2
<1>4. Doubled' /\ Shaped'
  BY DEF Stores, Doubled, Shaped
<1>5. /\ kg'.of = kg.of \cup {<<w.id, w.trial.procedure_id>> : w \in writes}
      /\ kg'.against = kg.against \cup {<<w.id, w.trial.problem_type>> : w \in writes}
      /\ kg'.applies = kg.applies \cup Applied(writes)
  BY DEF MergeTrials
<1> HIDE DEF old, new
<1>6. ASSUME NEW id \in DOMAIN new
      PROVE  <<id, new[id].procedure_id>> \in kg'.of /\ <<id, new[id].problem_type>> \in kg'.against
  <2>1. CASE id \in DOMAIN old
    BY <1>1, <1>5, <2>1 DEF Stores, Edges, old
  <2>2. CASE id \notin DOMAIN old
    <3>1. PICK v \in writes : v.id = id /\ new[id] = v.trial
      BY <1>1, <1>3, <1>6, <2>2
    <3> QED BY <1>5, <3>1
  <2> QED BY <2>1, <2>2
<1>7. ASSUME NEW p, NEW T, <<p, T>> \in kg'.applies
      PROVE  \E id \in DOMAIN new : <<id, p>> \in kg'.of /\ <<id, T>> \in kg'.against
  <2>1. CASE <<p, T>> \in kg.applies
    BY <1>1, <1>5, <2>1 DEF Stores, Edges, old
  <2>2. CASE <<p, T>> \in Applied(writes)
    <3>1. PICK w \in writes : <<p, T>> = <<w.trial.procedure_id, w.trial.problem_type>>
      BY <2>2 DEF Applied
    <3>2. <<w.id, p>> \in kg'.of /\ <<w.id, T>> \in kg'.against /\ w.id \in DOMAIN new
      BY <1>1, <1>5, <3>1
    <3> QED BY <3>2
  <2> QED BY <1>5, <1>7, <2>1, <2>2
<1>8. Edges'
  BY <1>6, <1>7 DEF Edges, new
<1> QED BY <1>1, <1>3, <1>4, <1>8 DEF Stores, old, new

-----------------------------------------------------------------------------
(* The invariant holds. *)

LEMMA InitStores == ASSUME Init PROVE Stores
<1>1. DOMAIN Empty = {}
  BY DEF Empty
<1> QED BY <1>1 DEF Init, NewGraph, NewDouble, Stores, Edges, Doubled, Shaped

LEMMA InitInv == ASSUME SameDeclarations, Init PROVE Inv
<1>1. Declarations
  BY ProceduralAssumption DEF Init, SameDeclarations, ProceduralAssumption, Declarations
<1>2. kg.trials = Empty /\ DOMAIN Empty = {} /\ kg.cursor = 0 /\ log = <<>>
  BY DEF Init, NewGraph, Empty
<1>3. Numbered
  BY <1>2 DEF Numbered
<1>4. Ticking
  BY <1>2 DEF Init, Ticking, Idle, Frame
<1>5. Journalled /\ Projected
  BY <1>2 DEF Journalled, Projected
<1>6. Stores
  BY InitStores
<1> QED BY <1>1, <1>3, <1>4, <1>5, <1>6 DEF Inv

(* A new step disturbs no projected one.                                   *)
LEMMA CommitKeeps ==
    ASSUME Inv, NEW run \in Runs, NEW stage \in Stages, NEW ending \in Endings,
           NEW type \in ProblemTypes, CommitStep(run, stage, ending, type)
    PROVE  Inv'
<1> DEFINE row == [run |-> run, step |-> StepsOf(run), stage |-> stage,
                   ending |-> ending, type |-> type]
<1>1. log \in Seq(Step) /\ log' = Append(log, row)
  BY DEF Inv, Numbered, CommitStep
<1>2. Counts \in [Runs -> Nat] /\ row.run = run /\ row.step = Counts[run]
  BY <1>1, StepCounts DEF Counts
<1>3. row \in Step
  BY <1>2 DEF Step
<1>4. Counts' = [r \in Runs |-> IF run = r THEN Counts[r] + 1 ELSE Counts[r]]
  BY <1>1, StepCounts
<1>5. /\ Len(log') = Len(log) + 1 /\ log'[Len(log) + 1] = row
      /\ \A i \in 1..Len(log) : log'[i] = log[i] /\ log[i] \in Step
  BY <1>1
<1> HIDE DEF row
<1>7. Numbered'
  <2>1. log' \in Seq(Step)
    BY <1>1, <1>3
  <2>2. \A i \in 1..Len(log) :
          log[i].step \in Nat /\ log[i].run \in Runs /\ log[i].step < Counts[log[i].run]
    <3>1. \A s \in Step : s.step \in Nat /\ s.run \in Runs
      BY DEF Step
    <3> QED BY <1>5, <3>1 DEF Inv, Numbered
  <2>3. ASSUME NEW i \in 1..Len(log') PROVE log'[i].step < Counts'[log'[i].run]
    <3>1. CASE i \in 1..Len(log)
      BY <1>2, <1>4, <1>5, <2>2, <3>1
    <3>2. CASE i = Len(log) + 1
      BY <1>2, <1>4, <1>5, <3>2
    <3> QED BY <1>1, <1>5, <3>1, <3>2
  <2>4. \A i \in 1..Len(log) : IdOf(log[i]) # IdOf(row)
    BY <1>2, <2>2 DEF IdOf
  <2>5. ASSUME NEW i \in 1..Len(log'), NEW j \in 1..Len(log'), IdOf(log'[i]) = IdOf(log'[j])
        PROVE  i = j
    <3>1. CASE i \in 1..Len(log) /\ j \in 1..Len(log)
      BY <1>5, <2>5, <3>1 DEF Inv, Numbered
    <3>2. CASE i \notin 1..Len(log) \/ j \notin 1..Len(log)
      <4>1. Len(log) \in Nat
        BY <1>1
      <4>2. \A k \in 1..Len(log') : k \in 1..Len(log) \/ k = Len(log) + 1
        BY <1>5, <4>1
      <4> QED BY <1>5, <2>4, <2>5, <3>2, <4>2
    <3> QED BY <3>1, <3>2
  <2>6. (\A i, j \in 1..Len(log) : IdOf(log[i]) = IdOf(log[j]) => i = j)'
    BY <2>5 DEF IdOf
  <2> QED BY <2>1, <2>3, <2>6 DEF Numbered
<1>8. UNCHANGED <<deployed, kg, double, tick>> /\ kg.cursor \in 0..Len(log) /\ Len(log) \in Nat
  BY <1>1 DEF CommitStep, Inv, Ticking
<1>9. \A i \in 1..kg.cursor : log'[i] = log[i]
  BY <1>5, <1>8
<1>10. Ticking'
  BY <1>5, <1>8 DEF Inv, Ticking, Frame
<1>11. Journalled' /\ Projected'
  BY <1>8, <1>9 DEF Inv, Journalled, Projected
<1>12. Declarations' /\ Stores'
  BY <1>8 DEF Inv, Declarations, Stores, Edges, Doubled, Shaped
<1> QED BY <1>7, <1>10, <1>11, <1>12 DEF Inv

(* What holds of the stores and the journal stays while they do.           *)
LEMMA Untouched ==
    ASSUME Inv, UNCHANGED <<log, deployed, kg, double>>
    PROVE  Declarations' /\ Numbered' /\ Journalled' /\ Projected' /\ Stores'
<1>1. Declarations'
  BY DEF Inv, Declarations
<1>2. Numbered'
  <2>1. Counts' = Counts
    BY DEF Counts, StepsOf
  <2> QED BY <2>1 DEF Inv, Numbered
<1>3. Journalled'
  BY DEF Inv, Journalled
<1>4. Projected'
  BY DEF Inv, Projected
<1>5. Stores'
  BY DEF Inv, Stores, Edges, Doubled, Shaped
<1> QED BY <1>1, <1>2, <1>3, <1>4, <1>5

(* A frame is of committed rows, from where a cursor was.                  *)
LEMMA FrameFits ==
    ASSUME Inv, UNCHANGED log, NEW c, kg'.cursor = c,
           c \in Nat /\ kg.cursor <= c /\ c <= Len(log),
           NEW u \in Projectors, NEW f, f \in Frame /\ f.from <= c /\ f.upto <= Len(log),
           tick' = [tick EXCEPT ![u] = f]
    PROVE  Ticking'
<1>1. Len(log) \in Nat /\ kg.cursor \in Nat
  BY DEF Inv, Numbered, Ticking
<1>2. tick \in [Projectors -> Frame] /\ tick' \in [Projectors -> Frame]
  BY DEF Inv, Ticking
<1>3. ASSUME NEW v \in Projectors PROVE tick'[v].from <= c /\ tick'[v].upto <= Len(log)
  <2>1. CASE v = u
    BY <1>2, <2>1
  <2>2. CASE v # u
    <3>1. tick[v].from \in Nat /\ tick[v].from <= kg.cursor /\ tick[v].upto <= Len(log)
      BY <1>2 DEF Inv, Ticking, Frame
    <3> QED BY <1>1, <1>2, <2>2, <3>1
  <2> QED BY <2>1, <2>2
<1> QED BY <1>1, <1>2, <1>3 DEF Ticking

LEMMA TickKeeps == ASSUME Inv, NEW u \in Projectors, Read(u) \/ Crash(u) PROVE Inv'
<1>1. UNCHANGED <<log, deployed, kg, double>>
  BY DEF Read, Crash
<1>2. Len(log) \in Nat /\ kg.cursor \in Nat /\ kg.cursor <= Len(log)
  BY DEF Inv, Numbered, Ticking
<1>3. CASE Read(u)
  <2>1. batch_limit \in Nat
    BY ProceduralAssumption DEF ProceduralAssumption
  <2>2. PICK n : n = Min({Len(log), kg.cursor + batch_limit})
    OBVIOUS
  <2>3. n \in Nat /\ n <= Len(log)
    BY <1>2, <2>1, <2>2, Earlier
  <2>4. PICK f : f = [pc |-> "project", from |-> kg.cursor, upto |-> n]
    OBVIOUS
  <2>5. f \in Frame /\ f.from = kg.cursor /\ f.upto = n
    BY <1>2, <2>3, <2>4 DEF Frame
  <2>6. tick' = [tick EXCEPT ![u] = f]
    BY <1>3, <2>2, <2>4 DEF Read
  <2>7. kg.cursor \in Nat /\ kg.cursor <= kg.cursor /\ kg.cursor <= Len(log)
    BY <1>2
  <2>8. f \in Frame /\ f.from <= kg.cursor /\ f.upto <= Len(log)
    BY <1>2, <2>3, <2>5
  <2>9. Ticking'
    BY <1>1, <2>6, <2>7, <2>8, FrameFits
  <2> QED BY <1>1, <2>9, Untouched DEF Inv
<1>4. CASE Crash(u)
  <2>1. Idle \in Frame /\ Idle.from = 0 /\ Idle.upto = 0
    BY DEF Idle, Frame
  <2>2. tick' = [tick EXCEPT ![u] = Idle]
    BY <1>4 DEF Crash
  <2>3. kg.cursor \in Nat /\ kg.cursor <= kg.cursor /\ kg.cursor <= Len(log)
    BY <1>2
  <2>4. Idle \in Frame /\ Idle.from <= kg.cursor /\ Idle.upto <= Len(log)
    BY <1>2, <2>1
  <2>5. Ticking'
    BY <1>1, <2>2, <2>3, <2>4, FrameFits
  <2> QED BY <1>1, <2>5, Untouched DEF Inv
<1> QED BY <1>3, <1>4

(* The trial of a step is what every process makes of it.                  *)
LEMMA TrialOf ==
    ASSUME Inv, NEW i \in 1..Len(log), ~Raises(log[i]), IdOf(log[i]) \in DOMAIN kg.trials,
           NEW u \in Projectors
    PROVE  kg.trials[IdOf(log[i])] \in resolve_outcome(log[i], deployed[u])
<1>1. PICK j \in 1..kg.cursor :
        /\ IdOf(log[i]) = IdOf(log[j])
        /\ \E v \in Projectors : kg.trials[IdOf(log[i])] \in resolve_outcome(log[j], deployed[v])
  BY DEF Inv, Journalled
<1>2. j \in 1..Len(log)
  BY DEF Inv, Ticking, Numbered
<1>3. i = j
  BY <1>1, <1>2 DEF Inv, Numbered
<1> QED BY <1>1, <1>3 DEF Inv, Declarations

LEMMA ProjectKeeps ==
    ASSUME Inv, NEW u \in Projectors, Project(u)
    PROVE  Inv'
<1> DEFINE rows == tick[u].from + 1 .. tick[u].upto
           batch == {log[i] : i \in rows}
           D == deployed[u]
           writes == Staged(batch, D)
<1>1. /\ UNCHANGED <<log, deployed>> /\ tick' = [tick EXCEPT ![u] = Idle]
      /\ \/ UNCHANGED <<kg, double>>
         \/ (\A s \in batch : ~Raises(s)) /\ ProjectBatch(writes, tick[u].upto)
  BY DEF Project
<1>2. /\ Len(log) \in Nat /\ kg.cursor \in Nat /\ kg.cursor <= Len(log)
      /\ tick[u].from \in Nat /\ tick[u].upto \in Nat
      /\ tick[u].from <= kg.cursor /\ tick[u].upto <= Len(log)
  BY DEF Inv, Numbered, Ticking, Frame
<1>3. D \in SUBSET Declaration /\ Declarable(D)
  BY DEF Inv, Declarations
<1>4. rows \subseteq 1..Len(log) /\ \A i \in rows : log[i] \in Step /\ log[i] \in batch
  <2>1. rows \subseteq 1..Len(log)
    BY <1>2
  <2> QED BY <2>1 DEF Inv, Numbered
<1>5. Idle \in Frame /\ Idle.from = 0 /\ Idle.upto = 0
  BY DEF Idle, Frame
<1>6. CASE UNCHANGED <<kg, double>>
  <2>1. kg.cursor \in Nat /\ kg.cursor <= kg.cursor /\ kg.cursor <= Len(log)
    BY <1>2
  <2>2. Idle \in Frame /\ Idle.from <= kg.cursor /\ Idle.upto <= Len(log)
    BY <1>2, <1>5
  <2>3. Ticking'
    BY <1>1, <1>6, <2>1, <2>2, FrameFits
  <2> QED BY <1>1, <1>6, <2>3, Untouched DEF Inv
<1>7. CASE (\A s \in batch : ~Raises(s)) /\ ProjectBatch(writes, tick[u].upto)
  <2> HIDE DEF rows, D
  <2>1. ASSUME NEW w \in writes
        PROVE  \E i \in rows : w.id = IdOf(log[i]) /\ w.trial \in resolve_outcome(log[i], D)
    BY DEF Staged, IdOf
  <2>2. ASSUME NEW i \in rows, resolve_outcome(log[i], D) # {}
        PROVE  \E w \in writes : w.id = IdOf(log[i]) /\ w.trial \in resolve_outcome(log[i], D)
    <3>1. PICK r : r \in resolve_outcome(log[i], D)
      BY <2>2
    <3>2. [id |-> IdOf(log[i]), trial |-> r] \in writes
      BY <1>4, <3>1 DEF Staged, IdOf
    <3> QED BY <3>1, <3>2
  <2> HIDE DEF writes
  <2>3. \A i \in rows : ~Raises(log[i])
    BY <1>4, <1>7
  <2> HIDE DEF batch
  <2>4. ASSUME NEW w \in writes, NEW v \in writes, w.id = v.id PROVE w.trial = v.trial
    <3>1. PICK i \in rows : w.id = IdOf(log[i]) /\ w.trial \in resolve_outcome(log[i], D)
      BY <2>1
    <3>2. PICK j \in rows : v.id = IdOf(log[j]) /\ v.trial \in resolve_outcome(log[j], D)
      BY <2>1
    <3>3. i = j
      BY <1>4, <2>4, <3>1, <3>2 DEF Inv, Numbered
    <3> QED BY <1>3, <1>4, <2>3, <3>1, <3>2, <3>3, Resolved
  <2>5. PICK n : n = Max({kg.cursor, tick[u].upto})
    OBVIOUS
  <2>6. n \in Nat /\ n <= Len(log) /\ n = IF kg.cursor < tick[u].upto THEN tick[u].upto ELSE kg.cursor
    BY <1>2, <2>5, Later
  <2>7. /\ kg' = [MergeTrials(kg, writes) EXCEPT !.cursor = n]
        /\ double' = [DoubleMerge(double, writes) EXCEPT !.cursor = n]
    BY <1>7, <2>5 DEF ProjectBatch, Advance, MergeTrials, DoubleMerge, Inv, Stores, Doubled
  <2>8. /\ kg' = [trials |-> Created(kg.trials, writes),
                  of |-> MergeTrials(kg, writes).of,
                  against |-> MergeTrials(kg, writes).against,
                  applies |-> kg.applies \cup Applied(writes), cursor |-> n]
        /\ double' = [trials |-> Created(double.trials, writes),
                      applies |-> double.applies \cup Applied(writes), cursor |-> n]
    BY <2>7 DEF MergeTrials, DoubleMerge
  <2>9. /\ Stores' /\ kg'.cursor = n
        /\ DOMAIN kg'.trials = DOMAIN kg.trials \cup {w.id : w \in writes}
        /\ \A id \in DOMAIN kg.trials : kg'.trials[id] = kg.trials[id]
        /\ \A w \in writes : w.id \notin DOMAIN kg.trials => kg'.trials[w.id] = w.trial
    <3>1. Stores
      BY DEF Inv
    <3>2. /\ Stores' /\ kg'.cursor = n
          /\ DOMAIN kg'.trials = DOMAIN kg.trials \cup {w.id : w \in writes}
          /\ \A id \in DOMAIN kg.trials : kg'.trials[id] = kg.trials[id]
          /\ \A w \in writes : w.id \notin DOMAIN kg.trials =>
                \E v \in writes : v.id = w.id /\ kg'.trials[w.id] = v.trial
      BY <2>8, <3>1, Merging
    <3>3. ASSUME NEW w \in writes, w.id \notin DOMAIN kg.trials PROVE kg'.trials[w.id] = w.trial
      BY <2>4, <3>2, <3>3
    <3> QED BY <3>2, <3>3
  <2>10. /\ 1..kg.cursor \subseteq 1..n /\ rows \subseteq 1..n
         /\ \A i \in 1..n : i \in 1..kg.cursor \/ i \in rows
    BY <1>2, <2>6 DEF rows
  <2>11. Ticking'
    <3>1. n \in Nat /\ kg.cursor <= n /\ n <= Len(log)
      BY <1>2, <2>6
    <3>2. Idle \in Frame /\ Idle.from <= n /\ Idle.upto <= Len(log)
      BY <1>2, <1>5, <2>6
    <3> QED BY <1>1, <2>9, <3>1, <3>2, FrameFits
  <2>12. Journalled'
    <3>1. ASSUME NEW id \in DOMAIN kg'.trials
          PROVE  \E i \in 1..n : /\ id = IdOf(log[i])
                                 /\ \E v \in Projectors :
                                       kg'.trials[id] \in resolve_outcome(log[i], deployed[v])
      <4>1. CASE id \in DOMAIN kg.trials
        BY <2>9, <2>10, <4>1 DEF Inv, Journalled
      <4>2. CASE id \notin DOMAIN kg.trials
        <5>1. PICK w \in writes : w.id = id
          BY <2>9, <3>1, <4>2
        <5>2. PICK i \in rows : w.id = IdOf(log[i]) /\ w.trial \in resolve_outcome(log[i], D)
          BY <2>1
        <5> QED BY <2>9, <2>10, <4>2, <5>1, <5>2 DEF D
      <4> QED BY <4>1, <4>2
    <3> QED BY <1>1, <2>9, <3>1 DEF Journalled, IdOf
  <2>13. Projected'
    <3>1. ASSUME NEW i \in 1..n
          PROVE  /\ ~Raises(log[i])
                 /\ \E v \in Projectors :
                       resolve_outcome(log[i], deployed[v]) # {} => IdOf(log[i]) \in DOMAIN kg'.trials
      <4>1. CASE i \in 1..kg.cursor
        BY <2>9, <4>1 DEF Inv, Projected
      <4>2. CASE i \in rows
        BY <2>2, <2>3, <2>9, <4>2 DEF D
      <4> QED BY <2>10, <4>1, <4>2
    <3> QED BY <1>1, <2>9, <3>1 DEF Projected, IdOf
  <2>14. Declarations' /\ Numbered'
    <3>1. Counts' = Counts
      BY <1>1 DEF Counts, StepsOf
    <3> QED BY <1>1, <3>1 DEF Inv, Declarations, Numbered
  <2> QED BY <2>9, <2>11, <2>12, <2>13, <2>14 DEF Inv
<1> QED BY <1>1, <1>6, <1>7

(* A trial that comes again changes no trial.                              *)
LEMMA Recording ==
    ASSUME Stores, NEW w \in TrialWrite, RecordTrial(w)
    PROVE  /\ Stores' /\ kg'.cursor = kg.cursor
           /\ DOMAIN kg'.trials = DOMAIN kg.trials \cup {v.id : v \in {w}}
           /\ \A id \in DOMAIN kg.trials : kg'.trials[id] = kg.trials[id]
<1>1. kg' = MergeTrials(kg, {w}) /\ double' = DoubleMerge(double, {w}) /\ double.cursor = kg.cursor
  BY DEF RecordTrial, Stores, Doubled
<1>2. /\ kg' = [trials |-> Created(kg.trials, {w}),
                of |-> MergeTrials(kg, {w}).of,
                against |-> MergeTrials(kg, {w}).against,
                applies |-> kg.applies \cup Applied({w}), cursor |-> kg.cursor]
      /\ double' = [trials |-> Created(double.trials, {w}),
                    applies |-> double.applies \cup Applied({w}), cursor |-> kg.cursor]
  BY <1>1 DEF MergeTrials, DoubleMerge
<1> QED BY <1>2, Merging

LEMMA RecordKeeps == ASSUME Inv, NEW w \in TrialWrite, RecordTrial(w) PROVE Inv'
<1>2. UNCHANGED <<log, deployed, tick>> /\ w.id \in DOMAIN kg.trials
  BY DEF RecordTrial
<1>5. /\ Stores' /\ kg'.cursor = kg.cursor
      /\ DOMAIN kg'.trials = DOMAIN kg.trials \cup {v.id : v \in {w}}
      /\ \A id \in DOMAIN kg.trials : kg'.trials[id] = kg.trials[id]
  BY Recording DEF Inv
<1>6. DOMAIN kg'.trials = DOMAIN kg.trials
  BY <1>2, <1>5
<1>7. Ticking' /\ Journalled' /\ Projected'
  BY <1>2, <1>5, <1>6 DEF Inv, Ticking, Journalled, Projected
<1>8. Declarations' /\ Numbered'
  <2>1. Counts' = Counts
    BY <1>2 DEF Counts, StepsOf
  <2> QED BY <1>2, <2>1 DEF Inv, Declarations, Numbered
<1> QED BY <1>5, <1>7, <1>8 DEF Inv

LEMMA StepInv == ASSUME Inv, [Next]_vars PROVE Inv'
<1>1. CASE UNCHANGED vars
  <2>1. Ticking'
    BY <1>1 DEF vars, Inv, Ticking
  <2> QED BY <1>1, <2>1, Untouched DEF vars, Inv
<1> QED BY <1>1, CommitKeeps, TickKeeps, ProjectKeeps, RecordKeeps DEF Next, Tick

LEMMA Invariance == ASSUME SameDeclarations PROVE Spec => []Inv
<1>1. Init => Inv
  BY InitInv
<1>2. Inv /\ [Next]_vars => Inv'
  BY StepInv
<1> QED BY <1>1, <1>2, PTL DEF Spec

-----------------------------------------------------------------------------
(* What follows. *)

(* What the trials of an edge contribute is what happened on it.           *)
LEMMA Counted ==
    ASSUME Inv, NEW p \in Stages, NEW T \in ProblemTypes, Strays(kg, p, T) = {}
    PROVE  Contributions(kg.trials, TrialsFor(kg, p, T)) = Earned(p, T, kg.cursor)
<1> DEFINE ids == TrialsFor(kg, p, T)
<1>1. /\ Len(log) \in Nat /\ \A i \in 1..kg.cursor : i \in 1..Len(log) /\ log[i] \in Step
  BY DEF Inv, Numbered, Ticking
<1>2. \A u \in Projectors : deployed[u] \in SUBSET Declaration /\ Declarable(deployed[u])
  BY DEF Inv, Declarations
<1>3. \A id \in DOMAIN kg.trials :
        id \in ids <=> kg.trials[id].procedure_id = p /\ kg.trials[id].problem_type = T
  <2>1. ASSUME NEW id \in DOMAIN kg.trials
        PROVE  id \in ids <=> kg.trials[id].procedure_id = p /\ kg.trials[id].problem_type = T
    BY DEF TrialsFor, Strays, Inv, Stores, Edges
  <2> QED BY <2>1
<1>4. ids \subseteq DOMAIN kg.trials
  BY DEF TrialsFor
<1> HIDE DEF ids
<1>5. ASSUME NEW id \in ids PROVE <<id[1], kg.trials[id].outcome>> \in Earned(p, T, kg.cursor)
  <2>1. PICK i \in 1..kg.cursor :
          /\ id = IdOf(log[i])
          /\ \E u \in Projectors : kg.trials[id] \in resolve_outcome(log[i], deployed[u])
    BY <1>4 DEF Inv, Journalled
  <2>2. PICK u \in Projectors : kg.trials[id] \in resolve_outcome(log[i], deployed[u])
    BY <2>1
  <2>3. PICK t : t = kg.trials[id]
    OBVIOUS
  <2>4. ~Raises(log[i])
    BY DEF Inv, Projected
  <2>9. PICK s, D : s = log[i] /\ D = deployed[u]
    OBVIOUS
  <2>10. /\ s \in Step /\ ~Raises(s) /\ D \in SUBSET Declaration /\ Declarable(D)
         /\ t \in resolve_outcome(s, D)
    BY <1>1, <1>2, <2>2, <2>3, <2>4, <2>9
  <2>11. t.procedure_id = p /\ t.problem_type = T
    BY <1>3, <1>4, <2>3
  <2>5. /\ p = log[i].stage
        /\ t.outcome = IF log[i].ending = "exhausted" THEN "failure" ELSE log[i].ending
        /\ log[i].ending \in Outcomes => T = log[i].type
        /\ log[i].ending = "exhausted" => <<p, T>> \in deployed[u]
        /\ log[i].ending \in Outcomes \cup {"exhausted"}
    BY <2>9, <2>10, <2>11, Resolved
  <2>6. id[1] = log[i].run
    BY <2>1 DEF IdOf
  <2>7. CASE log[i].ending \in Outcomes
    <3>1. t.outcome = log[i].ending
      BY <2>5, <2>7 DEF Outcomes
    <3> QED BY <2>3, <2>5, <2>6, <2>7, <3>1 DEF Earned
  <2>8. CASE log[i].ending = "exhausted"
    BY <2>3, <2>5, <2>6, <2>8 DEF Earned
  <2> QED BY <2>5, <2>7, <2>8
<1>6. ASSUME NEW i \in 1..kg.cursor, NEW u \in Projectors, log[i].stage = p,
             NEW o, o = IF log[i].ending = "exhausted" THEN "failure" ELSE log[i].ending,
             \/ log[i].ending \in Outcomes /\ log[i].type = T
             \/ log[i].ending = "exhausted" /\ <<p, T>> \in deployed[u]
      PROVE  \E id \in ids : <<log[i].run, o>> = <<id[1], kg.trials[id].outcome>>
  <2>1. ~Raises(log[i])
    BY DEF Inv, Projected
  <2>2. resolve_outcome(log[i], deployed[u]) # {}
    BY <1>1, <1>2, <1>6, Resolves
  <2>3. IdOf(log[i]) \in DOMAIN kg.trials
    BY <2>2 DEF Inv, Projected, Declarations
  <2>4. PICK t : t = kg.trials[IdOf(log[i])]
    OBVIOUS
  <2>5. t \in resolve_outcome(log[i], deployed[u])
    BY <1>1, <2>1, <2>3, <2>4, TrialOf
  <2>6. /\ t.procedure_id = p /\ t.outcome = o
        /\ log[i].ending \in Outcomes => t.problem_type = log[i].type
        /\ log[i].ending = "exhausted" => <<p, t.problem_type>> \in deployed[u]
    BY <1>1, <1>2, <1>6, <2>1, <2>5, Resolved
  <2>7. t.problem_type = T
    BY <1>2, <1>6, <2>6 DEF Declarable
  <2>8. IdOf(log[i]) \in ids
    BY <1>3, <2>3, <2>4, <2>6, <2>7
  <2> QED BY <2>4, <2>6, <2>8 DEF IdOf
<1>7. ASSUME NEW c \in Earned(p, T, kg.cursor)
      PROVE  \E id \in ids : c = <<id[1], kg.trials[id].outcome>>
  <2>1. CASE \E i \in 1..kg.cursor : /\ c = <<log[i].run, log[i].ending>>
                                     /\ log[i].stage = p /\ log[i].ending \in Outcomes
                                     /\ log[i].type = T
    <3>1. PICK i \in 1..kg.cursor : /\ c = <<log[i].run, log[i].ending>>
                                    /\ log[i].stage = p /\ log[i].ending \in Outcomes
                                    /\ log[i].type = T
      BY <2>1
    <3>2. PICK u \in Projectors : TRUE
      BY DEF Inv, Projected
    <3>3. log[i].ending # "exhausted"
      BY <3>1 DEF Outcomes
    <3>4. PICK o : o = IF log[i].ending = "exhausted" THEN "failure" ELSE log[i].ending
      OBVIOUS
    <3>5. o = log[i].ending
      BY <3>3, <3>4
    <3> QED BY <1>6, <3>1, <3>2, <3>4, <3>5
  <2>2. CASE \E i \in 1..kg.cursor : /\ c = <<log[i].run, "failure">>
                                     /\ log[i].stage = p /\ log[i].ending = "exhausted"
                                     /\ \E u \in Projectors : <<p, T>> \in deployed[u]
    BY <1>6, <2>2
  <2> QED BY <2>1, <2>2 DEF Earned
<1> QED BY <1>5, <1>7 DEF Contributions, ids

(* For any journal, any number of processes that run the same code, and    *)
(* any interleaving of their ticks, crashes and repeated writes: on every  *)
(* edge where no trial was recorded again from elsewhere, the posterior    *)
(* says what the projected steps say.                                      *)
THEOREM PosteriorCounts == ASSUME SameDeclarations PROVE Spec => []PosteriorIsJournal
<1>1. Inv => PosteriorIsJournal
  BY Counted DEF PosteriorIsJournal, Posterior
<1> QED BY <1>1, Invariance, PTL

-----------------------------------------------------------------------------
(* The two stores.  That they keep the same rests on no declaration and on *)
(* nothing of the journal: every write goes to both.                       *)

LEMMA StoresStep == ASSUME Stores, [Next]_vars PROVE Stores'
<1>1. CASE UNCHANGED <<kg, double>>
  BY <1>1 DEF Stores, Edges, Doubled, Shaped
<1>2. ASSUME NEW writes, NEW upto, ProjectBatch(writes, upto) PROVE Stores'
  <2>1. PICK n : n = Max({kg.cursor, upto})
    OBVIOUS
  <2>2. /\ kg' = [MergeTrials(kg, writes) EXCEPT !.cursor = n]
        /\ double' = [DoubleMerge(double, writes) EXCEPT !.cursor = n]
    BY <1>2, <2>1 DEF ProjectBatch, Advance, MergeTrials, DoubleMerge, Stores, Doubled
  <2>3. /\ kg' = [trials |-> Created(kg.trials, writes),
                  of |-> MergeTrials(kg, writes).of,
                  against |-> MergeTrials(kg, writes).against,
                  applies |-> kg.applies \cup Applied(writes), cursor |-> n]
        /\ double' = [trials |-> Created(double.trials, writes),
                      applies |-> double.applies \cup Applied(writes), cursor |-> n]
    BY <2>2 DEF MergeTrials, DoubleMerge
  <2> QED BY <2>3, Merging
<1>3. ASSUME NEW u \in Projectors, Project(u) PROVE Stores'
  <2>1. \/ UNCHANGED <<kg, double>>
        \/ \E writes, upto : ProjectBatch(writes, upto)
    BY <1>3 DEF Project
  <2> QED BY <1>1, <1>2, <2>1
<1>4. ASSUME NEW u \in Projectors, Read(u) \/ Crash(u) PROVE Stores'
  BY <1>1, <1>4 DEF Read, Crash
<1>5. ASSUME NEW run \in Runs, NEW stage \in Stages, NEW ending \in Endings,
             NEW type \in ProblemTypes, CommitStep(run, stage, ending, type)
      PROVE  Stores'
  BY <1>1, <1>5 DEF CommitStep
<1>6. ASSUME NEW w \in TrialWrite, RecordTrial(w) PROVE Stores'
  BY <1>6, Recording
<1>7. CASE UNCHANGED vars
  BY <1>1, <1>7 DEF vars
<1> QED BY <1>3, <1>4, <1>5, <1>6, <1>7 DEF Next, Tick

(* Whatever the processes declare, and whatever is recorded again of any   *)
(* procedure against any problem type: the graph and the double keep the   *)
(* same trials and cursor, the graph finds on an edge what the double does *)
(* and the strays, and of a problem type that none has strayed to they     *)
(* list the same candidates.                                               *)
THEOREM DoubleAnswersAlike == Spec => []Parity
<1>1. ASSUME Stores PROVE Parity
  <2>1. kg.trials = double.trials /\ kg.applies = double.applies /\ kg.cursor = double.cursor
    BY <1>1 DEF Stores, Doubled
  <2>2. ASSUME NEW p \in Stages, NEW T \in ProblemTypes
        PROVE  TrialsFor(kg, p, T) = DoubleTrialsFor(double, p, T) \cup Strays(kg, p, T)
    <3>1. ASSUME NEW id \in DOMAIN kg.trials, kg.trials[id].procedure_id = p,
                 kg.trials[id].problem_type = T
          PROVE  id \in TrialsFor(kg, p, T)
      BY <1>1, <3>1 DEF Stores, Edges, TrialsFor
    <3> QED BY <2>1, <3>1 DEF TrialsFor, DoubleTrialsFor, Strays
  <2>4. ASSUME NEW T \in ProblemTypes, NEW promoted_only \in BOOLEAN,
               \A p \in Stages : Strays(kg, p, T) = {}
        PROVE  Candidates(kg, T, promoted_only) = DoubleCandidates(double, T, promoted_only)
    <3> DEFINE of(p) == {id \in DOMAIN kg.trials : <<id, p>> \in kg.of}
               rows == {p \in Stages : <<p, T>> \in kg.applies
                                       /\ (of(p) # {} => TrialsFor(kg, p, T) # {})}
               rows2 == {p \in Stages : <<p, T>> \in double.applies}
    <3>1. ASSUME NEW p \in Stages, <<p, T>> \in kg.applies PROVE TrialsFor(kg, p, T) # {}
      BY <1>1, <3>1 DEF Stores, Edges, TrialsFor
    <3>2. rows = rows2
      BY <2>1, <3>1
    <3>6. \A p \in Stages : Posterior(kg, p, T) = DoublePosterior(double, p, T)
      <4>1. \A p \in Stages : TrialsFor(kg, p, T) = DoubleTrialsFor(double, p, T)
        BY <2>2, <2>4
      <4> QED BY <2>1, <4>1 DEF Posterior, DoublePosterior
    <3>3. Candidates(kg, T, promoted_only) =
            posterior_mean_select({[procedure |-> p, success |-> Posterior(kg, p, T)] : p \in rows},
                                  promoted_only)
      BY DEF Candidates
    <3>4. DoubleCandidates(double, T, promoted_only) =
            posterior_mean_select({[procedure |-> p, success |-> DoublePosterior(double, p, T)] :
                                     p \in rows2}, promoted_only)
      BY DEF DoubleCandidates
    <3>5. {[procedure |-> p, success |-> Posterior(kg, p, T)] : p \in rows}
            = {[procedure |-> p, success |-> DoublePosterior(double, p, T)] : p \in rows2}
      <4> HIDE DEF rows, rows2
      <4>1. rows2 \subseteq Stages
        BY DEF rows2
      <4> QED BY <3>2, <3>6, <4>1
    <3> HIDE DEF rows, rows2
    <3> QED BY <3>3, <3>4, <3>5
  <2> QED BY <2>1, <2>2, <2>4 DEF Parity
<1>2. Init => Stores
  BY InitStores
<1>3. Stores /\ [Next]_vars => Stores'
  BY StoresStep
<1> QED BY <1>1, <1>2, <1>3, PTL DEF Spec

=============================================================================
