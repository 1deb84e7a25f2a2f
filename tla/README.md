# Verification of cog-worx

TLA+ models of the cog-worx runtime (`src/src/cogworx`), the TLC runs that check
them on small instances, and TLAPS proofs of what matters most for every
instance. Paths below are relative to `src/src/cogworx/` unless they start
with `src/`.

## 1. The system

cog-worx runs *pathways*: graphs of stages, each of which may call a model,
tools and memory, and returns where to go next. The engine commits every result
to a journal in Postgres before it acts on it, so that a run survives its
process. Background consumers turn the committed steps into knowledge.

| component | state it keeps | operations | talks to |
|---|---|---|---|
| loop driver, `runtime/engine.py` | `_driving` and `_bg`, in memory, per process | `run`, `start`, `resume`, `fire_timer`, `pause`, `unpause`, `provide_human_input`; the coroutine `_drive` | journal (statements), stages (calls), model, tools |
| sweeper, `runtime/sweeper.py` | none | `tick`, `run_forever` | journal (`claim_due_timers`), engine (`fire_timer`) |
| journal, `adapters/timescale_journal.py` | runs, steps, attempts, timers, human inputs | one SQL statement each, autocommitted | Postgres |
| pathway and graph, `loop/` | immutable | `StageGraph.__init__`, `pathway_fingerprint`, `RetryPolicy` | engine |
| projection consumers, `runtime/projector.py`, `runtime/episode_projector.py`, `runtime/claim_extractor.py`, `verification/evidence_projector.py` | nothing in memory; a cursor in the store they write | `tick` | journal (fenced read), Neo4j or Postgres (one transaction), model, latent store |
| entity knowledge graph, `adapters/neo4j_entity_kg.py` | claims, evidence, subject dirty marks with epochs, defeats | write, project, supersede, commit a reconciliation | Neo4j |
| coherence reconciler, `coherence/` | nothing in memory | `tick` over dirty subjects: contradictions, defeats, promotion | entity graph, oracle (model) |
| tool gate, `capability/`, `runtime/context.py` | the registry; the drive's taint latch and its durable copy in the journal | `dispatch_one`, `route_tool_calls`, `run_tool_loop` | capabilities, journal |
| budget, `cost/budget.py`, `model/guarded.py` | calls and USD of one drive segment | `start_call`, `record` | model |
| model ladder, `model/ladder.py` | none | rungs by capability, bounded retries | model |
| latent store, `adapters/pg_latent.py`, `runtime/latent_tier_sweeper.py` | records with a tier and an activation | put, touch, demote, prune | Postgres |
| dialectic, `verification/` | none: derived from the run's committed steps | five stages of a pathway | engine, oracles, evidence projector |
| recall, injection, context, `recall/`, `injection/`, `context/` | the contributor's last memory | recall over channels, fusion, assembly under a token budget, use counts | stores, model (token counts) |
| procedural graph, `adapters/neo4j_procedural_kg.py`, `knowledge/procedural_*.py` | trials, their edges, a cursor | record, project, posterior, candidates, promotion | Neo4j |
| evaluation harness, `eval/` | answer caches, two result files, a ledger of looks | convert, label and lock a corpus; run the arms; score | model, journal (the looks), disk |

Hard behaviours, and the properties that make each part correct:

* **Loop driver.** Coroutines of one process interleave at every `await`;
  processes interleave at every journal statement; a process may die between
  any two. Correct means: no step is executed again once committed, one
  coroutine drives a run at a time, a parked run can always be woken, by its own
  timer and not before, a question is passed only with an answer, what has ended
  stays ended, and every run ends.
* **Sweeper.** A timer may be claimed twice (stale lease), fire late, or be left
  behind by a crashed drive. Correct means: at-least-once delivery never shows.
* **Journal.** Each statement is atomic, a *sequence* of them is not. Correct
  means: rows written once stay, and a status moves only as the machine allows.
* **Projection.** Transactions commit in any order of their ids; two ticks of
  one consumer may overlap; a tick may die between the model call and the write,
  or between the write and the latent store. Correct means: no committed row is
  skipped, none is counted twice, and every row is projected in the end.
* **Reconciler.** New claims land while a tick works on old ones; the tick itself
  writes the world scope, which it also drains. Correct means: a subject stays
  dirty until a pass has read its last evidence, or is given up on with a verdict
  that says so; a contradiction gets a verdict, or the pass that left it alone used
  its rounds on others; a promotion is completed; the queue drains.
* **Tool gate and budget.** Checks, latch, durable write and call are separate
  steps; calls of one drive may overlap. Correct means: whatever was let in that
  taints, the latch of its drive and of those that resume the run, and the journal,
  know it (a reissued `run()` forgets it: section 3, What disagrees); the ceilings
  hold, or are passed by a known amount; every loop ends.
* **Dialectic.** Five stages that keep nothing read their state back from the log,
  each over a window of its own, after crashes and resumes. Correct means: a run
  says verified or confirmed only when the router or a human said so, and the
  evidence left behind agrees.
* **Procedural graph.** Projectors race and repeat; the unit tests run on a double
  with code of its own. Correct means: a success rate counts the journal, once,
  and the double answers as the graph does, but for the edges that a repeated
  `record_trial` adds to the graph alone.
* **Recall and context.** Channels read at different times while the stores change;
  a prompt is planned before its parts are measured. Correct means: the prompt is
  within its budget, a defeated claim stays out (where the graph says which are
  defeated), no use is lost.
* **Evaluation gate.** A paid run is killed and rerun; items are dropped and
  relabelled on the way to the corpus. Correct means: a kill costs little, a rerun
  replays, looks are rationed, and a PASS is earned.

`PROJECT.json` lists every component with its status, and every hazard at the
line where it bites.

## 2. The modules

| module | models |
|---|---|
| `Pathway` | stage results, declared edges, `StageGraph`'s validity check, `pathway_fingerprint` |
| `Journal` | the rows of one run, one operator per SQL statement the engine issues, and the clock (timers fall due, leases go stale) |
| `Engine` | every operation of `Engine` and `Sweeper`: one action per stretch of code between two journal calls |
| `DurableRun` | what the engine promises about a run, without engines: a log that grows along declared edges until a result ends it |
| `MCEngine` | instances of `Engine` for TLC, their fairness, `RunEnds` |
| `EngineProofs` | theorems about `Engine`: its frames and its mutex; the log; the run and its drives, in a fleet too, and `DurableRun` |
| `Projection` | one projection consumer of a chosen kind, its tickers, and the journal's writers as transactions |
| `MCProjection` | instances of `Projection` |
| `ProjectionProofs` | theorems about `Projection` |
| `Coherence` | the claim graph's writes with their dirty marks, and the reconciler, one action per await |
| `MCCoherence`, `CoherenceProofs` | an instance of `Coherence`; theorems |
| `Dispatch`, `MCDispatch`, `DispatchProofs` | the stages of a run's drives: the tool gate, the guarded model, the ladder, the tool loop; an instance; theorems |
| `Dialectic`, `MCDialectic`, `DialecticProofs` | the five stages over a run's log, with the evidence projector's reading of it; instances; theorems |
| `Procedural`, `MCProcedural`, `ProceduralProofs` | trials and what is derived from them, in the graph and in the in-memory double; an instance; theorems |
| `Recall` | operators: channel results, rank fusion, the assembly under a budget |
| `Context`, `MCContext`, `ContextProofs` | calls of `assemble` over `Recall`, the stores and their writers; an instance; theorems |
| `Labeling` | operators: from planted items to a locked corpus |
| `Scoring` | operators: from cells to a verdict |
| `GateRun`, `MCGateRun`, `GateRunProofs` | runs of the gate, which compose `Labeling` and `Scoring`; instances; theorems |

### Engine and Journal

A *task* is a coroutine: a client, an operator, a supervisor, a human's
request, a sweeper. Its frame holds what the coroutine holds across an
`await`: where it is (`pc`), `seq` and `cur` of `_drive`, the stage result in
hand, the status about to be written, the status its CAS expects, and, for a
sweeper, how many claimed timers it has yet to fire. `driving` is
`Engine._driving`, `bg` is `Engine._bg`. The labels follow `_drive`:
`top` (status read, step ceiling), `read` (is this position committed?),
`unwait` (the timer of a replayed Wait), `stage`, `count`
(`increment_attempt`), `arm-retry`, `commit`, `arm-wait`, `settle`
(`set_run_status`), `cleanup` (`cancel_timers_for_run`), `exit` (the last
`load_run` and the `finally`).

Decisions:

* *An action ends at a journal call.* Between two awaits an asyncio coroutine
  runs alone in its process, and the statement itself is atomic in Postgres.
* *`load_run` and the decision after it are one action*, but for an answer. An
  engine has one journal connection whose lock is first come, first served, so no
  drive of the same engine can park and leave between another task's load and its
  registration; the others decide by the run row alone, and by a CAS on what it
  said. `provide_human_input` uses the steps too, which `load_run` reads with a
  second statement: `ProvideHumanInput` is the first, `LoadSteps` the second and
  what follows it. In `fleet` another process may answer and drive on in between.
  The late answer is then recorded at a step that awaits nothing, which the comment
  at `runtime/engine.py:693-694` takes to be impossible; its CAS loses unless the
  run waits again, and `SingleDriver` and `LogIsWalk` hold all the same.
* *Refusals are not steps.* A call that loads, refuses and returns the state
  changes nothing.
* *One run.* Runs share no row and no entry of `_driving`.
* *Time is two booleans per timer*: due, and lease fresh. Both may change
  at any moment, which covers every clock.
* *A stage is its possible returns and whether it may fail.* What it computes,
  and the context, budget, events and spans a drive carries, do not influence
  the control.
* *A sweeper dies of an exception* (`Raise`): nothing in `tick` or `run_forever`
  catches it. The timers it claimed stay claimed until their lease goes stale.
* *`SingleFlight`* is the duty the code puts on its operator
  (`runtime/engine.py:47-49`): do not `resume` a run some process still drives.
  It is TRUE only in `fleet`. *`Reissue`* allows `run()` of a run_id that
  already has a journal; the runs leave it off, the theorems cover it.

### Projection

The four consumers share nothing but the journal, so the module holds one whose
kind is chosen in `Init`. `open` are INSERTs in flight with the xid they drew,
`rows` the committed ones; an INSERT may commit in any order or be rolled back.
`Legacy` rows share one xid: the migration that added `commit_xid`
backfilled every existing row with its own transaction id. A tick is
`ReadCursor`, `Fetch` (the fenced keyset read), `Stage` (outcomes, turns, model:
no write), `Project` (one transaction: rows and cursor) and, for the claim
extractor, `Mirror` (one latent `put` at a time). `Interrupt` is a crash, a
cancellation or an exception at any of them. `written[r]` counts what the store
holds of row `r`: trials and episodes are merged, evidence rows are created.

The Neo4j stores advance the cursor when the new one is greater by code point,
the episode store when it is greater by the database's collation, which is why
`setup` holds a collation.

### Coherence

`claims` are the Claim nodes with the sources of their evidence, their rank,
their validity, and who defeated them; `marks` the DirtySubject nodes, `order`
their keys by `marked_at`; `verdicts` the Adjudication nodes. A client's write is
one transaction that also marks its subject (`Touch`). `tick` is the reconciler's
frame: `ClaimDirty` takes a batch with the epochs and attempts of that moment,
then for each subject `Poison`, or `BumpAttempts` and `Fetch`; then `TooLarge`,
or the rounds of the MUS search (`Decide`, `DecideNothing`, `Escalate`,
`Unverified`, `OutOfCalls`, `EndSearch`); then `Promote`, with `AssertFact` and
`CopyEvidence` for each claim a rule selects; then `CommitReconciliation`, which
clears the mark if its epoch is still the one claimed. `seen`, `fate` and `last`
record what the last pass read, how it ended and the verdicts it reached; no action
reads them.

Decisions:

* *There is one reconciler*, as `coherence/reconciler.py:7-8` demands. Any number
  of clients write.
* *The oracle is a family of minimal contradictory sets.* The search may find any
  of them among the working claims (`find_mus` sorts by id, so entrenchment does
  not choose), may run out of calls, or may fail its verification. How QuickXplain
  gets there is not modelled yet.
* *At equal rank either claim may win, or neither*: the confidence bounds decide,
  and they are real numbers.
* *Two stores.* `InMemoryEntityKG` returns the status of a claim and
  `Neo4jEntityKG` does not; `config.store` says which is in use. `ConflictsFaced`
  is about either. In memory, the copy of a claim onto itself never returns
  (`testing/doubles.py:932-941` appends to the list it iterates), so `Drains` is
  claimed of Neo4j.
* *Promotion does not look at scope.* A world claim that a rule selects is promoted
  onto itself, which marks its subject inside its own pass. Each such pass loses
  its mark, until the poison guard records a verdict and clears it.
* *A pass may leave a contradiction alone.* `ConflictsFaced` names when: it stopped
  at claims it could not settle (`Halted`), or each of its rounds defeated a claim
  and none was left (`SpentOnDefeats`). In the second case the mark is cleared and
  nobody is told: section 3, What disagrees.
* *A verdict about no claim is written once.* The ids of the poison and too-large
  verdicts are digests of the key, so a second one is not written (`Merge`).
  `NeverSwallowed` therefore asks for a verdict on record, not for a new one.

### Dispatch

`gate` is a drive's `ToolGate` (policy and latch), `guard` its `BudgetGuard`,
`registry` the capabilities with their lesions, `tainted` the run's column in the
journal. A stage gathers `Tasks`; a task is a tool loop, one structured call, or
one dispatch by stage code, and its frame is what it holds across an await:
`Dispatch` (tier, arguments, approval, latch), `TaintPersisted` or `PersistFails`,
`ToolEnds`; `StartCall`, then `LoopReply`, `StructuredReply` or `CallFails`.
`BuildContext` is the start of another drive, after a crash, a park or an end, with
a new gate and a new guard. `NewDrive` is a drive by `resume`, `fire_timer`,
`unpause` or `provide_human_input`, which pass the journal's `tainted` to the gate;
`ReissueRun` is `run()` on a run_id that exists, which does not
(`runtime/engine.py:462`): its latch starts unset, whatever the column says.

Decisions:

* *Only the dispatch that sets the latch awaits the journal.* Another task of the
  same stage finds it set and goes on, so there is a window, between two tasks only,
  in which something that taints has run and the journal does not know.
* *A write that raises may have landed.* The tool is not invoked and the latch stays.
* *A reissued drive is covered by what it does itself.* `RunLatch` asks of such a drive
  that it latches for what it lets in, and of every other that it also has the latch of
  all drives before it, reissued ones included.
* *A response is a number of tool calls; a tool call is a name and whether its
  arguments validate.*

### Dialectic

`log` is the run's committed steps with their outputs, `drive` the drive under way
with what it has spent, `attempts` the engine's counter, `answer` the human input on
record. Every stage reads its accumulator from `log`, as `derive_accumulator`,
`cycle_verdicts` and `ConcludeStage` do, each over its own window. The oracle's
verdict is any that its code can return, by exit code and sandbox. `Evidence(i)` is
what the evidence projector makes of step `i`.

One driver at a time (`Engine` has the races of several); a stage's call and its
commit are one step, since a crash between them loses nothing that the journal holds.

### Procedural

`kg` and `double` are the Neo4j graph and `InMemoryProceduralKG`; every write goes to
both. A step of the journal ends in a stamped success or failure, a control
transition, an exhausted retry, or a stamp that does not parse. A tick resolves its
batch with the declarations of its process and projects it in one transaction. The
posterior is a Beta with whole counts: its tail is a binomial sum (`ScaledIncompleteBeta`),
compared as integers.

`RecordTrial` is `record_trial` called again for a trial, of any procedure and against
any problem type. The graph then merges further OF_PROCEDURE and AGAINST edges onto the
one trial node (`adapters/neo4j_procedural_kg.py:176-177`) and counts it on every
combination of them; the double keeps the row it has (`testing/doubles.py:1162`).
`Strays` are the trials that the graph so counts on an edge they were not created on.
`Parity` says that they are all that parts the two stores, and `PosteriorIsJournal` is
about the edges that have none. A `record_trial` that creates a trial no projector wrote
is left out: the journal then has nothing to say of it.

### Recall and Context

A call of `assemble` goes through its phases: `Begin` (required slots),
`ChargePersonality`, `ChargeTool`, `OpenMemory`, then one `ReadChannel` per channel
(the latent one in two reads, hot and cold), `Inject`, `RecordUse`, `Render`. Between
any two of them other calls run and the stores are written: evidence, defeats,
invalidations, puts, tier sweeps. `stash` is the contributor's
`last_injected_memory`, which two calls share.

Decisions:

* *`returns_status`* says whether a read of the entity graph returns the status of a
  claim. The in-memory store's does; the Neo4j store's does not
  (`adapters/neo4j_entity_kg.py:310-372`, `:388-441`, `:508-560`, and `:867-907`, which
  builds the claim), so there `ClaimResults` are never marked defeated and the filter of
  the injector (`injection/injector.py:141`) lets all of them pass. `DefeatedLeftOut`
  speaks of the first; the run sets the constant to TRUE, the theorems cover both.
* *A text is a record of what it was rendered from*, so that two renderings of one
  row are equal exactly if the row did not change; a token counter is a parameter.
* *Activation is a real number*: the sweep may keep any hot set in which no row comes
  before one that is used no less and is no older (`HotSets`).
* *Every loop is an `Iterate`*, a function of the steps done: the filters are `Pick`s of
  places, the sorts by score pass over a ranking (`ByScore`) or take the best of what is
  left (`Ranked`). The library's `SelectSeq`, `SortSeq` and `FoldLeft` say the same, but
  the provers cannot expand them.

### Labeling, Scoring and GateRun

`Labeling` composes the converter, the labeller, the re-validation of pairs and the
lock; an item carries what the world answers about it (the oracle's verdict, votes,
audit, candidate tests). `Scoring` is `score_gate` with the instruments of
`eval/lock.py`. `GateRun` is a process that runs designs one after another (`StartRun`,
`AnswerCell` or `OverCeiling`, `AppendLook`, `ScoreGate`, `WriteCells`,
`WriteManifest`), and dies between (`Kill`) or inside (`KillInCell`, `KillInWrite`) its
writes. Caches and files outlive it; the ledger and the USD counter do not, as in the
driver. A design is a corpus seed and settings. A cache is keyed by the fingerprint of
the locked corpus, the item and the arm, without the settings, so designs that differ in
settings alone share their answers (`fingerprint`); the ledger is kept per
configuration, which is the mode and the models of the arms (`config_hash`), so they do
not share a budget.

Decisions:

* *A bootstrap interval's ends are those of the resampling distribution itself*, over
  every draw; the code samples it. The permutation test is whether it refuses.
* *The artifact has the five arms that are compared* (`GateAssumption`): without one,
  the code's verdict is no PASS (`_missing_arm_verdict`).
* *`audited` designs* stand for callers that compose `run_and_stamp` and
  `score_gate_live` with a corpus whose contamination was measured; the driver's own
  corpus is not audited and can get no PASS.
* *An item that people must decide needs two votes* (`too_few_people`): with fewer
  `resolve_existence` raises and no corpus comes of it. `lock_corpus` refuses an item
  that carries a verifiable claim (`lock_refused`); some scenarios plant one.
* *`revalidate_bijection` returns the paired and the demoted items*, and leaves out those
  that were never paired; its caller merges what it needs.
* *Left out of the loader:* the shape of a record (G1), the split it is asked for (G3)
  and whether a code item has a test (G4d): an item of the model has none of the
  three. `assert_no_contamination` is the `audited` of a design.
* *One output directory and one lineage*, as a run of the driver has.

## 3. The runs

| run | question | result |
|---|---|---|
| `engine` | one process, every operation, a crash, a pause, answers, retries, sleeps: do the safety properties hold, does `Engine` implement `DurableRun`, does every run end? | holds |
| `fleet` | three processes, two sweepers, two humans, a supervisor, an edited pathway, stages with bugs: is there one driver, is the log a walk of the graph? | holds |
| `projection` | every kind of consumer, two tickers, two writers, an abort, a malformed row, either collation: is anything skipped or counted twice, is every row projected? | holds |
| `coherence` | one subject in both scopes, three claims, writers, a crash, either store, every answer of the oracle, rounds that run out: is no write lost, is every contradiction faced or its pass spent, every promotion completed, does the queue drain? | holds |
| `dispatch` | two tasks of a stage over two stages and a second drive, resumed or reissued: does the latch cover what was let in, do the ceilings hold, does every loop end? | holds |
| `dialectic` | three ways to resolve an oracle, crashes and failures at every step, any human: does a run conclude only what was verified or confirmed, does its evidence agree, does it end? | holds |
| `procedural` | two projectors that race, crash and repeat, and a trial recorded again elsewhere: does the posterior count the journal, is that repetition all that parts the double from the graph? | holds |
| `context` | two prompts assembled at once while the stores change, over a graph that returns a claim's status: are budget, defeats and use counts respected? | holds |
| `gate_run` | designs run again and again, killed between and inside writes, in two configurations over one corpus, and over every pair of labels: what does a kill cost, does a rerun replay, are looks rationed, is a PASS earned, is the corpus sound, does a run end? | holds |
| `crashed_gate` | is an `AwaitHuman` passed only with an answer, if a process dies? | violated |
| `defeated_promoted` | are only active claims promoted? | violated |
| `loaded` | does a PASS respect the share a single regime may have of what D catches? | violated |

Each violated run checks one property that a comment or docstring states; the
finding in `PROJECT.json` quotes the line and names the code. They are:

1. *crashed_gate.* The `AwaitHuman` is committed, the status that parks the run
   is a later statement. Die in between, and `resume` replays the step as an advance.
2. *defeated_promoted.* The Neo4j queries leave out the status a defeat wrote. A
   defeated claim comes back active and is copied into the world scope. The same
   loss lets it into a prompt: the injector's filter reads the same field
   (`injection/injector.py:141`).
3. *loaded.* `_arm_a_of_error` picks the arm that catches most, which is the positive
   control, whose catches are spread by construction: D's own spread is not looked at.

### What disagrees

Where the code does less than a docstring, a sibling or a reader would expect, and no
run is refuted by it, because the property excepts the case and says so:

* *A reissued run forgets its taint.* `run()` on a run_id that has a journal drives it
  (`runtime/engine.py:447` checks nothing but `_driving`) with a context that was built without
  `tainted` (`:462`), where `resume` and the three other callers pass the run's column
  (`:519`). The gate then refuses less than it did before, until the drive lets
  something in that taints. `RunLatch` excepts such a drive; the drives after
  it are not excepted.
* *A mark is cleared over a contradiction nobody was told of.* When every round of a
  pass defeated a claim, the loop over rounds just ends (`coherence/reconciler.py:269`):
  unlike a budget that runs out, it writes no escalation, and the commit
  clears the mark (`:429`). What still contradicts waits for the next write to
  its subject. `ConflictsFaced` allows it (`SpentOnDefeats`) and shows that it is the
  only such case, but for passes that stopped at an open verdict. One set-up of
  `coherence` has rounds that run out first.
* *A dropped status reaches the prompt.* On Neo4j a defeated claim is recalled as active
  and injected, since `injection/injector.py:141` filters by a field the reads do not
  fill. `DefeatedLeftOut` is about a store that fills it.
* *The double is not the graph.* `testing/doubles.py:1041-1042` and
  `substrate/procedural_kg.py:281` say that recording a trial id again, with another
  payload too, is a no-op; with another procedure or problem type it adds edges to the
  trial in Neo4j, which is then counted there too. The double keeps what it has. `Parity`
  measures the difference.
* *A claim that contradicts itself stops the search for good.* It gets a verdict that
  finds no winner (`coherence/entrenchment.py:172`). If a later round or pass cannot verify
  the same claim again, it escalates under the id of the first verdict
  (`coherence/reconciler.py:315`), which the store keeps (`testing/doubles.py:873`,
  `adapters/neo4j_entity_kg.py:702`): the loop ends, the mark is cleared, and no
  escalation is on record for what was not reached. `Halted` therefore counts the verdict
  without a winner as an open one; and in Neo4j, where a defeated claim is searched again,
  the open verdict of the pass may be one that did not reach the record.

Smaller things the models show or assume, each at its line:

* In a fleet the CASes name a status, not what it is about. A slow answer to one
  question may win the CAS of the next (`runtime/engine.py:721`); a timer delivered
  late may wake a run from its next sleep (`:589`); the timers cancelled after
  AWAITING_HUMAN is visible may be those of the next sleep (`:915`); the status
  writes that park or end a run overwrite a pause (`:881`); and a run that is paused
  and unpaused elsewhere while a stage runs goes on beside itself (`:648`), commits
  included. `fleet` therefore has no pause: without one there is one drive at a
  time, and the log is a walk.
* The journal reads rows by byte (`COLLATE "C"`), the episode cursor compares run ids
  by the database's collation (`adapters/pg_episodes.py:98`). Among rows of one
  xid the cursor may refuse to move; `AllProjected` asks for a collation by byte.
* A guard that refuses a call inside a stage of the dialectic raises
  (`verification/dialectic.py:446`): the drive ends and the run stays RUNNING until it
  is resumed with a new guard. Only the router's own check asks a human.
* The thesis and the antithesis record the usage of a call that the guarded model has
  recorded already (`verification/dialectic.py:300`, `:502`, `model/guarded.py:119`):
  such a call is charged twice.
* Two texts of one key make the fusion raise (`recall/fusion.py:69`), and the whole
  memory slot is degraded. A row changed between the reads of two channels does it.
* An answer appended to a torn cache line is lost with it (`eval/_live/cache.py:127`): the
  next process asks for it again. Hence two answers per kill in `KillsCostTwo`, and
  `RerunReplays` says nothing after a kill: the cells that are published may then
  differ without a new look.
* `run_and_stamp` charges the look before the verdict is computed and compares after,
  so `look_budget_max - 1` looks are answered. The driver's ledger and USD ceiling
  live in its process.

### Bounds, and why they are enough

* `engine`: one pathway of four stages with every kind of result and a cycle;
  `max_steps` 4, so a run sleeps, asks and retries in one life and also meets the
  ceiling; two attempts per step, one crash, one pause, two answers. Any two
  tasks of the five meet at every pair of labels.
* `fleet`: two sweepers, two humans and two drivers are what the races of the
  CASes need; a third process has the edited pathway.
* `projection`: two runs of two steps: one row of each was there before the
  migration, so two rows tie on the xid and the tie-break decides; `batch_limit` 1,
  so every cursor value is stored; two tickers of a merging consumer, one of a
  counting consumer (`Solo`): the code merges trials and episodes on a key but
  *creates* evidence, and accepts duplicates from racing extractors.
* `coherence`: three writes make three claims, or two with a second source or a
  higher rank, in any order with the reconciler; five set-ups pair a store, a
  family of contradictions (two overlapping pairs; a pair and a claim against
  itself; three together), and limits low enough to be met: a batch of one or
  two, two or three claims, one or two rounds (one of them too few for two
  overlapping pairs), one or two attempts. One exception
  or crash at any await. `defeated_promoted` needs a fourth write, to mark the
  defeated claim's subject again.
* `dispatch`: a capability of every kind the gate tells apart, one from an MCP
  server, one that may be disabled; two tasks gathered by a stage in the pairs that
  race (a loop beside a dispatch, two structured calls), or one; one round of tools,
  batches of two, two retries; three calls and three dollars at one or two each, so
  both ceilings are met; two stages and two drives, so a latch is inherited by a stage
  and by a drive, or forgotten by a reissued one. Two tasks are enough for the race of
  the latch; a third drive, resumed after a reissued one, is the theorem's.
* `dialectic`: three cycles, so that a route follows a route; theses that are stuck
  by their tokens and not; a thesis without a claim; two faults, which exhaust the two
  attempts of a step or fall on two steps. Of the ceiling, 13, a judged cycle takes 5
  and an executed one 4: the first kind runs out inside the third cycle, the second at
  the router's threshold after it.
* `procedural`: two runs and three steps of two stages, which have both a success
  and a failure of one pair; a promotion policy that the floor decides in one case
  and the bound in another; batches of two and one candidate returned; one stray edge
  (`MaxStrays`), of a procedure or of a problem type. A trial moved in both at once, and what
  several such edges span together, are the theorem's.
* `context`: two calls of four shapes (claims and the latent tiers; claims by two
  channels, a personality and two tools under a tight budget; episodes; almost no
  budget), one hot row, and two writes to the stores at any point. Token counts are
  quarters of lengths, as the providers count (`model/providers/openai_compat.py:420`),
  so rounding is met.
* `gate_run`: four kinds of corpora. One pair under two kills and a ceiling of four
  calls; the same pair under two configurations and three seeds, none of them killed;
  two corpora of four pairs, enough for an interval to clear its bound, with audited
  designs, one whose permutation test refuses; and every pair of stamps, verdicts,
  votes, breaker answers, audits and conversions, an item with a claim and items with
  one vote included, for the labels alone. `MaxCalls` 4 cuts the count of calls for one
  cell, above what two kills allow. `look_budget_max` 2 lets one look be answered and
  refuses the next.

`TypeOK` of `Engine` is checked by `engine`; that of `Dispatch` is proved.

### Fairness

`engine`: `SoloSpec` assumes that asyncio runs a ready coroutine (weak fairness
of each task's progress), that clocks advance, that the sweeper ticks, and that
people do their part: the run is asked for, a run left RUNNING is resumed, a
paused one is unpaused, a question is answered. The last three are refused
while a drive is registered, so they are repeated: strong fairness. `unpause`
registers even when it has nothing to do, so an operator who never stopped
calling it could turn every wake away; `NeededUnpause` says such calls end. No
fairness forces a crash, a pause, a failure or a stage's choice.

`projection`: an INSERT ends (weak fairness of `Commit`), ticks are called again
(weak fairness of `ReadCursor` and `Mirror`), and a store or model that is asked
again and again answers in the end (strong fairness of `Fetch`, `Stage`,
`Project`, which `Interrupt` can always pre-empt). The claim is about rows of a
batch without a malformed stamp: the code stalls on one by design.

`coherence`: the sweeper goes on ticking and a tick goes on (weak fairness of
`Reconcile`). Nothing obliges a client to stop, but writes are bounded in the
instance, so `Drains` says what happens once they do.

`dispatch`: a provider answers, raises or times out, `wait_for` ends a tool, the
journal answers or raises: weak fairness of each task's steps. Which answer comes is
free; no stage, drive or registry change is forced.

`dialectic`: the driver goes on, a retry timer fires, a drive that died is resumed,
a question is answered and the answer taken: weak fairness of each, the engine's
own liveness being `RunEnds`. Faults are bounded; a human may answer nonsense.

`gate_run`: somebody starts the process again (weak fairness), a process that has
something to do does it (weak fairness), and an operator runs each design time and
again (strong fairness of `StartRun`: a process is often busy with another design).

## 4. The proofs

The theorems hold for every fleet, graph, stage behaviour and bound that
`PathwayAssumption` and `EngineAssumption` admit.

* `EngineProofs!Typing`: every variable keeps its type. The invariant `Typed`
  adds that a frame's result, goal and position fit its label (`GoodFrame`):
  a coroutine about to commit holds a result, one about to write a status holds
  one. Without it the type of the journal's rows does not follow.
* `EngineProofs!MutualExclusion`: `InProcessMutex`. The invariant is its own
  strengthening together with `Typed`; the lemmas `Stay`, `Enter`, `Leave` say
  what a step does to the set of driving tasks of its engine.
* `EngineProofs!LogIsDurable`: no step changes or removes a committed row or an
  answer, for any fleet.
* `EngineProofs!ReplayNeverReruns` and `LogFollowsGraph`: with one process
  (`OneProcess`), for any tasks and any reissue. The invariant `Walks` places the
  driving frame on the log: at `top` and `read` its position is at most the
  log's length and its stage is where the log leads; past `read` its position
  *is* the length. It holds because the mutex leaves one driving frame, so nobody
  else commits meanwhile. Two processes may have two drives, as said above.
* `EngineProofs`, third part, for any graphs, stages, tasks and number of crashes, in a
  fleet that is `Orderly`: a run_id is run by one caller and not reissued, and either
  one process has the run (`OneProcess`), or nobody resumes a driven run or pauses it.
  The first is what a run_id is for; the second is the duty the code puts on its
  operator (`runtime/engine.py:47-54`); without the third the log need not be a walk
  (section 3). `engine` and `fleet` both satisfy it. This part restates the actions of
  `Engine` as what they do to a frame, field by field (`Moves`), and argues from that
  alone.
  * `OneDriver` (`SingleDriver`), `NobodyReruns`, `EveryDriveFollowsGraph`. In a fleet
    the mutex of a process says nothing of the others. The invariant `Lone` says
    that one frame of all is in the loop or has just won a CAS, and what a frame
    that is about to win one knows (`Bound`): a drive in the loop keeps the status
    running until its own `settle`, so no CAS from a parked status can win while
    it lasts, and after a CAS was won no other can be. `NeverRunAgain` and `LogIsWalk`
    follow with `Walks`, over all processes now.
  * `JournalImplementsDurableRun`: every step of `Engine` is a step of `DurableRun` or
    a stutter, under the refinement mapping of the runs. `Recorded` says what a
    frame's label and the status tell of the log: a run ended as its last result
    says, or failed before it had one, a frame on the way to `settle` has the
    goal of that result, and one on the way to a commit has an unfinished log.
  * `FailuresBounded` (`AttemptsBounded`): a position counts no more failures than the
    policy some process has for the very stage that stands there, plus one for each
    crash. The counter alone is not inductive: a crash between `increment_attempt` and
    what follows it leaves it at the policy's limit, for the next drive to count one
    more. `Spare` says that a step that is not committed has room for a failure, or the
    run has ended, or a frame holds its last try; each crash adds the room it takes. The
    policy is that of some process, since a pathway edited without a change of its
    fingerprint may have another.
  * `NoTimerOutlives` (`StoppedHasNoTimer`), `ParkedIsWoken` (`ParkedHasTimer`) and
    `GateIsHeld` (`HumanGate`) are about one process: in a fleet a late answer may cancel
    the timers of another park or wake it (section 3). The first says that no timer is
    armed when the drive that ended the run, or parked it for a human, leaves; and, while
    no process has died, at any time that nobody drives such a run. (A drive that dies
    between its last status and its clean-up leaves its timers.) `Tidy` and `Armed` say
    what a frame on its way out has prepared, and `Swept` that a stopped run with a
    timer has the frame that will cancel it. The third holds
    while no process has died, which `crashed_gate` shows is needed: `Gated` says
    that a question without an answer has the run parked for a human, or the frame
    that asked is about to park it. `NoTimerOutlives` needs neither the caller nor the
    reissue part of `Orderly`.
* `ProjectionProofs`, for any kind of consumer, any tickers, writers, runs and
  batch limit: `NothingIsSkipped`, `PoisonIsNeverPassed`, `LatentFollowsClaims`,
  `CursorOnlyAdvances`. `NothingSkipped` alone is not inductive: it says nothing
  of a tick that fetched long ago. The invariant `Inv` says of every cursor,
  stored or held by a tick, that it is below each transaction in flight and that
  nothing unhandled lies behind it (`Safe`), and of every batch that it is an
  initial piece of what lies past the cursor *its tick* read (`Piece`). No
  conjunct relates two ticks, which is why overlapping ticks are harmless.
  `NothingCountsTwice` (`CountedOnce`) is different for a consumer that creates its
  rows: it holds because one ticker runs (`OneTicks`), so that what the ticker read
  is what is stored until it projects, all it has written lies behind the stored
  cursor (`Behind`), and its batch lies ahead of it (`Ahead`).

* `DispatchProofs`, for any capabilities, policies, costs and number of tasks:
  `DispatchTyping`, `LatchCoversRun`, `CeilingsAreKept`. `RunLatch` alone is not
  inductive: a dispatch may go straight on because the latch is set, and that the
  journal knows then depends on where the latch came from. `Latched` says it was
  read from the journal, is being written, or its write raised. A reissued drive begins
  without it, and is excepted until it lets something in. For the dollars,
  `Ceiled` counts: what is spent, plus the dearest cost of each call in flight, is at
  most the ceiling less one projection, plus the dearest cost of each task a stage may
  gather. A call is let in only while its projection fits what is spent, and no more
  calls are in flight than tasks; when one ends, its place is traded for its cost.
* `CoherenceProofs`, for any subjects, claims, clients, oracles, rules and stores:
  `SettledHolds`, `PromotedInFullHolds`, `NeverSwallowedHolds`. The argument is one of
  epochs (`PassRead`): while a subject's mark has the epoch that was claimed, the
  evidence the pass has read is all there is, and each claim a rule selects is on the
  pass's list or in the world already. A write moves the epoch on, and only the one
  reconciler moves it back, when it drops the mark; so a commit that finds the epoch
  unmoved has read everything. `CopyEvidence` is the exception, a write that marks
  nothing: `Moving` says that its target was marked by the write before it, past any
  epoch the tick has claimed, and that no other pass can have cleared it since.
  `ConflictsAreFaced`, for any oracle and either store, follows a contradiction through a
  pass (`Facing`): what was read is still all that is active as long as the epoch is the
  claimed one (`Knows`); a pair that was read is in the working set while the search goes
  on, or one of it lost to a claim on the list of defeats, or a verdict covers it, or the
  search has stopped (`Tracked`); each verdict found is of a kind its step may reach
  (`Yields`), and a search that has used its rounds without stopping has a defeat for
  each (`Counted`); and a defeat on record has its loser in the graph (`OnRecord`), which
  is why a verdict that was kept in place of a new one hides no pair.
* `DialecticProofs`, for any oracle, theses, ceiling, faults and answers:
  `ConclusionIsHonest` and `EvidenceMatches`. The stages read their state from the log
  over windows of their own, so the invariant is about the log: what each step may
  be after the one before it (`Walk`, which makes every cycle three steps ahead of its
  route and every success one that was `Earned`), where a run may wait and what the
  answer on record answers (`Questions`), and what the conclusion was told by
  the step before it (`Honest`). The lemmas about the highest index with a property
  say what each window finds.
* `GateRunProofs`, for any planted items that are paired (as many as `MaxStratum`, any
  number, on either side), votes, audits, conversions,
  designs, arms, answers and kills:
  * `LooksAreBounded`, `CorpusIsSound`. The invariant says that a run in progress holds
    the corpus its design locks (`Prepared`), and that every decided look is in the
    ledger while fewer than the budget are decided (`Charged`). The lemmas follow an
    item from planting to the lock: what is kept has the oracle's catch exactly when
    its stratum is O, the converter keeps identity and sides, every pair that
    survives is mutual, and so those of the loader's guards that are modelled (unique
    ids, audited regimes, the label source of each stratum, siblings, no verifiable
    claim) have nothing to refuse. A look belongs to one configuration, and the
    budget bounds the looks of each.
  * `EveryKillCostsTwo` (`KillsCostTwo`). The count alone is not inductive: a torn line
    costs nothing until something is appended to it. `Lost` holds the calls whose
    answer no file has, `Owed` what each file will lose with its next append: its
    unfinished line, or a record that lacks its newline and what is glued to it.
    Together they are at most twice the kills (`Paid`): an append to a whole file pays
    for its call, one to a torn file pays what the file owes. That the cell asked for
    is not in its file (`Remembered`) needs a first cell to exist: the ids and places
    are naturals, and a set of naturals has a least element (`Least`).
  * `EveryRerunReplays` (`RerunReplays`). While nothing was killed every file is
    whole, what a run recalls or publishes of a design is what the files say of
    it (`Faithful`), and files only grow.
  * `EveryPassIsEarned` (`PassIsEarned`). What a scored run holds is what the oracle arm
    says of its items, and a PASS is two lower ends above zero (`Judged`). Where no error
    and no clean item speaks for the candidate, no draw does: it never gains on an error
    and never loses on a clean item, so every total of the candidate is at or below the
    other's (`TotalIs`, `AllBelow`), all the mass of the distribution is at or below
    zero, and forty times all of it is not at most all of it (`NoLead`). That the sums
    of `lower_end_above` are numbers of draws is an induction on the number of terms
    (`MassIs`, `MassCounts`, `MassWeighs`, over `Induct`).
* `ProceduralProofs`, for any journal, stages, batch limit and number of processes that
  declare the same (`SameDeclarations`: they run the same code, as in the run; a trial
  is resolved by whoever projects it first, so two registries would make the graph
  depend on the race): `PosteriorCounts` (`PosteriorIsJournal`) and `DoubleAnswersAlike`
  (`Parity`). Two steps never share an id, since a step is numbered by the steps of its
  run before it (`Numbered`), so a trial that is kept is the one its step resolves to
  (`Journalled`, `TrialOf`), and every row at or below the cursor was in some batch
  (`Projected`; `Ticking` says that a batch starts no later than the cursor). The posterior
  of an edge is claimed where no trial has strayed to it. `Parity` has no hypothesis on
  what is recorded again: it is `Edges`, which says that every trial hangs on the
  procedure and the problem type it was created with, and that APPLIES_TO joins only what
  a trial hangs on.
* `ContextProofs`, for any ranking, channels, similarity, tools, sections, number of calls
  and, as hypothesis, a counter that gives every text a natural number (`CountsTokens`;
  the code's is a parameter typed `Callable[[str], int]`):
  * `BudgetIsKept` (`WithinBudget`). The budget is an account (`Paid`): what the head, the
    task and the tools so far cost, and what remains, add up to it. The memory is trimmed
    to a part of what remains (`TrimFits`), and the envelope it is shown in is counted.
  * `DefeatIsSeen` (`DefeatedLeftOut`), over a graph whose reads return the status
    (`returns_status`). Each result carries the mark its claim had when it
    was read; a claim that was defeated when the recall began is read marked, or not at
    all (`Marked`), by whichever channel, and the loops of recall only move results
    about: one lemma for each of them says that what holds of all that goes in holds of
    all that comes out (`AllHitsType`, `RankedType`, `FuseType`, `FloorFirstType`,
    `AdmitType`, `UFoldType`). `RankedType` needs that some result is best, which
    holds because `Better` is a strict order and the results are finite (`BestExists`).
    What is not marked is then no defeated claim (`ExcludeDefeatedType`).
  * `NoUseIsLost` (`UsesCounted`). A row's use count is the history's, and a row that
    is not stored has no history, because what a call records was read from the
    store and no row is ever removed (`Kept`, `Counted`).

The assumptions are those named in the modules (`PathwayAssumption`,
`EngineAssumption`, `ProjectionAssumption`, `ProceduralAssumption`, `CoherenceAssumption`,
`DispatchAssumption`, `GateAssumption`, `RecallAssumption`, `ContextAssumption`),
which TLC evaluates in every run.

Left to TLC, and why:

* liveness, which needs fairness and ENABLED: `RunEnds`, `AllProjected`, `Drains`,
  `TasksEnd`, `Concludes`, `RunsEnd`.

Every safety invariant and every action property that a passing run checks is a theorem.

## 5. Not modelled, and the plan

In order:

1. `Mus`: QuickXplain as operators: a minimal set for every monotone oracle, and
   the bound on calls that `find_mus` states.
2. The sizing simulation, the planters' split and the diagnostics of `eval/`, as
   operators where they count and compare.

Not planned: transports and providers (`capability/mcp.py`'s JSON-RPC,
`model/providers/`); the confidence of entity claims and its decay (real
arithmetic); telemetry; the static event table; thin graph reads; lineage,
similarity and text search; the planters' rewriting of programs and the quarantine
of model output (text); custom context layouts; rerankers that call a model.
