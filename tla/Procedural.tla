----------------------------- MODULE Procedural -----------------------------
(***************************************************************************)
(* What works on which problem: the trials of the procedural knowledge     *)
(* graph, the projectors that write them from committed steps, and the     *)
(* success rates, promotions and rankings derived from them at every read. *)
(*                                                                         *)
(* The Neo4j adapter and the in-memory double that the tests run on are    *)
(* both here and both take every write, so that what they answer can be    *)
(* compared.  Projection says how a tick reads the journal; here a tick    *)
(* reads the next rows of a list, and several projectors, each with the    *)
(* registry its process declared, may tick at once.                        *)
(***************************************************************************)
EXTENDS Naturals, FiniteSets, Sequences, SequencesExt, FiniteSetsExt, Combinatorics

CONSTANTS
    Runs,           \* run ids
    Stages,         \* the stages of one pathway, numbered in the order of the
                    \* ids minted for them: a stage's number is its procedure id
    ProblemTypes,
    Projectors,     \* the processes that tick
    Deployments,    \* what each process declares: [Projectors -> sets of pairs]
    min_trials,     \* the promotion policy: its floor, and the threshold and the
    Threshold,      \* quantile of its bound, as pairs <<numerator, denominator>>
    Quantile,
    limit,          \* candidates returned
    batch_limit,    \* rows per tick
    MaxLog,         \* bound: steps committed
    MaxStrays       \* bound: edges of trials besides those they were created with

Declaration == Stages \X ProblemTypes

ASSUME ProceduralAssumption ==
    /\ Stages \subseteq Nat /\ IsFiniteSet(Stages) /\ IsFiniteSet(Runs)
    /\ Deployments \subseteq [Projectors -> SUBSET Declaration]
    /\ min_trials \in Nat /\ limit \in Nat /\ batch_limit \in Nat \ {0} /\ {MaxLog, MaxStrays} \subseteq Nat
    /\ Threshold[1] < Threshold[2] /\ Quantile[1] < Quantile[2]

VARIABLES
    log,            \* the committed steps, oldest first
    deployed,       \* the declarations of every process
    kg,             \* the graph: trials, their edges, APPLIES_TO, the cursor
    double,         \* the same, as the in-memory double keeps it
    tick            \* the frame of every projector

vars == <<log, deployed, kg, double, tick>>

Outcomes == {"success", "failure"}

(* How the run of a stage ended.  Every ending but "exhausted" commits a   *)
(* Transition, a failed procedure that routes to a fixup stage too.        *)
Endings == {"success", "failure", "control", "exhausted", "malformed"}
Step == [run : Runs, step : Nat, stage : Stages, ending : Endings, type : ProblemTypes]

TrialId == Runs \X (0..MaxLog - 1)
Trial == [procedure_id : Stages, problem_type : ProblemTypes, outcome : Outcomes]
TrialWrite == [id : TrialId, trial : Trial]

Frame == [pc : {"idle", "project"}, from : Nat, upto : Nat]
Idle == [pc |-> "idle", from |-> 0, upto |-> 0]

-----------------------------------------------------------------------------
(* Resolving a step. *)

NoDeclaration == {}

(* declare raises for a second problem type; a repetition changes nothing. *)
Declarable(D) == \A d, e \in D : d[1] = e[1] => d = e

(* registry.get: the declaration of a stage, if there is one.              *)
Declared(D, stage) == {d \in D : d[1] = stage}

Stamped(s) == s.ending \in {"success", "failure", "malformed"}

(* Fault: the kind of the result says how it went.                         *)
resolve_outcome_by_kind(s, D) ==
    IF Declared(D, s.stage) = NoDeclaration THEN {}
    ELSE LET d == CHOOSE d \in Declared(D, s.stage) : TRUE
         IN  {[procedure_id |-> d[1], problem_type |-> d[2],
               outcome |-> IF s.ending = "exhausted" THEN "failure" ELSE "success"]}

(* The trial of a step, or none: the stamp has authority, an exhausted     *)
(* stage has the registry's word, anything else is control flow.           *)
resolve_outcome(s, D) ==
    CASE Stamped(s) ->
            {[procedure_id |-> s.stage, problem_type |-> s.type, outcome |-> s.ending]}
      [] s.ending = "exhausted" ->
            {[procedure_id |-> d[1], problem_type |-> d[2], outcome |-> "failure"] :
                d \in Declared(D, s.stage)}
      [] OTHER -> {}

Raises(s) == s.ending = "malformed"

(* What a batch projects.  A batch holds a step once, so no two of its     *)
(* writes are of one trial and their order does not matter.                *)
Staged(batch, D) ==
    UNION {{[id |-> <<s.run, s.step>>, trial |-> r] : r \in resolve_outcome(s, D)} : s \in batch}

-----------------------------------------------------------------------------
(* The stores.  In the graph a trial keeps what it was created with, and   *)
(* every write merges its edges, whether it created the trial or not.      *)

Empty == [id \in {} |-> 0]
NewGraph == [trials |-> Empty, of |-> {}, against |-> {}, applies |-> {}, cursor |-> 0]
NewDouble == [trials |-> Empty, applies |-> {}, cursor |-> 0]

Written(writes, id) == (CHOOSE w \in writes : w.id = id).trial

Created(trials, writes) ==
    [id \in DOMAIN trials \cup {w.id : w \in writes} |->
        IF id \in DOMAIN trials THEN trials[id] ELSE Written(writes, id)]

Applied(writes) == {<<w.trial.procedure_id, w.trial.problem_type>> : w \in writes}

MergeTrials(g, writes) ==
    [trials  |-> Created(g.trials, writes),
     of      |-> g.of \cup {<<w.id, w.trial.procedure_id>> : w \in writes},
     against |-> g.against \cup {<<w.id, w.trial.problem_type>> : w \in writes},
     applies |-> g.applies \cup Applied(writes),
     cursor  |-> g.cursor]

(* Fault: the double stores the last payload.                              *)
DoubleOverwrites(m, writes) ==
    [trials  |-> [id \in DOMAIN m.trials \cup {w.id : w \in writes} |->
                     IF \E w \in writes : w.id = id THEN Written(writes, id) ELSE m.trials[id]],
     applies |-> m.applies \cup Applied(writes),
     cursor  |-> m.cursor]

DoubleMerge(m, writes) ==
    [trials  |-> Created(m.trials, writes),
     applies |-> m.applies \cup Applied(writes),
     cursor  |-> m.cursor]

Advance(store, cursor) == [store EXCEPT !.cursor = Max({@, cursor})]

ProjectBatch(writes, progress) ==
    /\ kg' = Advance(MergeTrials(kg, writes), progress)
    /\ double' = Advance(DoubleMerge(double, writes), progress)

-----------------------------------------------------------------------------
(* The read surface: nothing derived is stored. *)

TrialsFor(g, p, T) == {id \in DOMAIN g.trials : <<id, p>> \in g.of /\ <<id, T>> \in g.against}

DoubleTrialsFor(m, p, T) ==
    {id \in DOMAIN m.trials : m.trials[id].procedure_id = p /\ m.trials[id].problem_type = T}

(* Fault: every trial contributes.                                         *)
RawContributions(trials, ids) == {<<id, trials[id].outcome>> : id \in ids}

(* A run contributes once for each polarity, however often it ran the      *)
(* procedure.                                                              *)
Contributions(trials, ids) == {<<id[1], trials[id].outcome>> : id \in ids}

(* The Beta posterior over a uniform prior, from unit weights.             *)
procedure_success(contributions) ==
    LET of(o) == Cardinality({c \in contributions : c[2] = o})
    IN  [alpha |-> 1 + of("success"), beta |-> 1 + of("failure"),
         n_trials |-> Cardinality(contributions)]

(* I_x(a, b) at x = Threshold, times the n-th power of its denominator:    *)
(* for whole a and b the incomplete beta function is a binomial tail.      *)
ScaledIncompleteBeta(a, b) ==
    LET n == a + b - 1
    IN  MapThenSumSet(LAMBDA j : choose(n, j) * Threshold[1]^j
                                    * (Threshold[2] - Threshold[1])^(n - j), a..n)

(* The Quantile-th percentile of Beta(a, b) is at least Threshold.         *)
BoundClears(a, b) ==
    ScaledIncompleteBeta(a, b) * Quantile[2] <= Quantile[1] * Threshold[2]^(a + b - 1)

should_promote(s) == s.n_trials >= min_trials /\ BoundClears(s.alpha, s.beta)

Posterior(g, p, T) == procedure_success(Contributions(g.trials, TrialsFor(g, p, T)))
DoublePosterior(m, p, T) == procedure_success(Contributions(m.trials, DoubleTrialsFor(m, p, T)))

(* By posterior mean, highest first, then by procedure id.                 *)
RanksBefore(c, d) ==
    LET cm == c.success.alpha * (d.success.alpha + d.success.beta)
        dm == d.success.alpha * (c.success.alpha + c.success.beta)
    IN  cm > dm \/ (cm = dm /\ c.procedure < d.procedure)

posterior_mean_select(scored, promoted_only) ==
    LET stamped == {[procedure |-> c.procedure, success |-> c.success,
                     promoted |-> should_promote(c.success)] : c \in scored}
        kept == {c \in stamped : promoted_only => c.promoted}
        ranked == SetToSortSeq(kept, RanksBefore)
    IN  SubSeq(ranked, 1, Min({limit, Len(ranked)}))

(* The graph drops the trials of a procedure against other problem types,  *)
(* and a procedure all of whose trials are.                                *)
Candidates(g, T, promoted_only) ==
    LET of(p) == {id \in DOMAIN g.trials : <<id, p>> \in g.of}
        rows == {p \in Stages : <<p, T>> \in g.applies
                                /\ (of(p) # {} => TrialsFor(g, p, T) # {})}
    IN  posterior_mean_select({[procedure |-> p, success |-> Posterior(g, p, T)] : p \in rows},
                              promoted_only)

DoubleCandidates(m, T, promoted_only) ==
    posterior_mean_select({[procedure |-> p, success |-> DoublePosterior(m, p, T)] :
                              p \in {q \in Stages : <<q, T>> \in m.applies}}, promoted_only)

-----------------------------------------------------------------------------
(* Actions. *)

Init ==
    /\ log = <<>>
    /\ deployed \in {f \in Deployments : \A u \in Projectors : Declarable(f[u])}
    /\ kg = NewGraph
    /\ double = NewDouble
    /\ tick = [u \in Projectors |-> Idle]

StepsOf(run) == Cardinality({i \in 1..Len(log) : log[i].run = run})

(* The loop commits a step; a cyclic run visits a stage again and again.   *)
CommitStep(run, stage, ending, type) ==
    /\ Len(log) < MaxLog
    /\ ending \notin Outcomes => type = Min(ProblemTypes)   \* no stamp, or none that is read
    /\ log' = Append(log, [run |-> run, step |-> StepsOf(run), stage |-> stage,
                           ending |-> ending, type |-> type])
    /\ UNCHANGED <<deployed, kg, double, tick>>

(* read_cursor and committed_steps_after.                                  *)
Read(u) ==
    /\ tick[u].pc = "idle"
    /\ kg.cursor < Len(log)
    /\ tick' = [tick EXCEPT ![u] = [pc |-> "project", from |-> kg.cursor,
                                    upto |-> Min({Len(log), kg.cursor + batch_limit})]]
    /\ UNCHANGED <<log, deployed, kg, double>>

(* A malformed stamp raises out of the tick; the rest is one transaction.  *)
Project(u) ==
    /\ tick[u].pc = "project"
    /\ LET batch == {log[i] : i \in tick[u].from + 1 .. tick[u].upto} IN
          IF \E s \in batch : Raises(s)
          THEN UNCHANGED <<kg, double>>
          ELSE ProjectBatch(Staged(batch, deployed[u]), tick[u].upto)
    /\ tick' = [tick EXCEPT ![u] = Idle]
    /\ UNCHANGED <<log, deployed>>

(* A crash before the transaction commits.                                 *)
Crash(u) ==
    /\ tick[u].pc = "project"
    /\ tick' = [tick EXCEPT ![u] = Idle]
    /\ UNCHANGED <<log, deployed, kg, double>>

(* record_trial, called again for a trial: with any outcome, and of any    *)
(* procedure against any problem type.                                     *)
RecordTrial(w) ==
    /\ w.id \in DOMAIN kg.trials
    /\ kg' = MergeTrials(kg, {w})
    /\ Cardinality(kg'.of) + Cardinality(kg'.against) <= 2 * Cardinality(DOMAIN kg.trials) + MaxStrays
    /\ double' = DoubleMerge(double, {w})
    /\ UNCHANGED <<log, deployed, tick>>

Tick(u) == Read(u) \/ Project(u) \/ Crash(u)
Next ==
    \/ \E run \in Runs, stage \in Stages, ending \in Endings, type \in ProblemTypes :
          CommitStep(run, stage, ending, type)
    \/ \E u \in Projectors : Tick(u)
    \/ \E w \in TrialWrite : RecordTrial(w)

Spec == Init /\ [][Next]_vars

-----------------------------------------------------------------------------
(* Correctness. *)

(* What really happened on an edge: the runs that succeeded and those that *)
(* failed, a stage that exhausted its retries being a failure.             *)
Earned(p, T, n) ==
    {<<log[i].run, log[i].ending>> : i \in {i \in 1..n :
        log[i].stage = p /\ log[i].ending \in Outcomes /\ log[i].type = T}}
    \cup {<<log[i].run, "failure">> : i \in {i \in 1..n :
        log[i].stage = p /\ log[i].ending = "exhausted"
            /\ \E u \in Projectors : <<p, T>> \in deployed[u]}}

(* The trials the graph counts on an edge they were not created on: one    *)
(* recorded again elsewhere hangs on every procedure it was recorded of    *)
(* and every problem type it was recorded against.                         *)
Strays(g, p, T) ==
    {id \in TrialsFor(g, p, T) : <<g.trials[id].procedure_id, g.trials[id].problem_type>> # <<p, T>>}

(* The posterior of an edge says what the projected steps say, whatever    *)
(* raced, crashed or came twice: one contribution of a run for a polarity, *)
(* failures that left no stamp among them.  An edge that a trial was       *)
(* recorded on again, after it was created elsewhere, counts that trial    *)
(* too, and is left out.                                                   *)
PosteriorIsJournal ==
    \A p \in Stages, T \in ProblemTypes :
        Strays(kg, p, T) = {} => Posterior(kg, p, T) = procedure_success(Earned(p, T, kg.cursor))

(* The graph and the double the tests run on keep the same trials, and the *)
(* graph finds on an edge those the double finds and the strays, no other  *)
(* and none the fewer.  The strays are all that parts them: of a problem   *)
(* type none has strayed to, both list the same candidates, with the same  *)
(* posteriors in the same order.                                           *)
Parity ==
    /\ kg.trials = double.trials /\ kg.cursor = double.cursor
    /\ \A p \in Stages, T \in ProblemTypes :
          TrialsFor(kg, p, T) = DoubleTrialsFor(double, p, T) \cup Strays(kg, p, T)
    /\ \A T \in ProblemTypes, promoted_only \in BOOLEAN :
          (\A p \in Stages : Strays(kg, p, T) = {}) =>
              Candidates(kg, T, promoted_only) = DoubleCandidates(double, T, promoted_only)

=============================================================================
