----------------------------- MODULE Dialectic -----------------------------
(***************************************************************************)
(* The dialectic: a pathway of five stages that proposes a thesis, checks  *)
(* it with an oracle, challenges it, and refines it or concludes.  None of *)
(* the stages keeps anything: the cycle count, the verdicts of the last    *)
(* cycle and the route by which the run came to its conclusion are read    *)
(* back from the committed steps, and so is the evidence the projector     *)
(* writes about the thesis's claim.                                        *)
(*                                                                         *)
(* One run with one driver at a time (Engine has the races of several); a  *)
(* stage's call of the model and its commit are one step, because a crash  *)
(* between them loses nothing the journal holds.                           *)
(***************************************************************************)
EXTENDS Integers, SequencesExt

CONSTANTS
    MAX_CYCLES,
    Theses,         \* what the model proposes: [text : sets of tokens, claim]
    Setups,         \* [exact, wildcard : Oracles or none, sandboxed : BOOLEAN]
    Costs,          \* what a call may cost
    Projected,      \* the guard's projection of a call
    max_usd,        \* the guard's ceiling for one drive
    Cycle_usd,      \* _BUDGET_CYCLE_THRESHOLD_USD
    max_attempts,   \* of the engine's default retry policy
    MaxFaults       \* bound: crashes, and stages that raise or time out

Oracles == {"code", "judge"}
None == "none"

ASSUME DialecticAssumption ==
    /\ {MAX_CYCLES, max_attempts} \subseteq Nat \ {0}
    /\ {Projected, max_usd, Cycle_usd, MaxFaults} \subseteq Nat /\ Costs \subseteq Nat
    /\ Projected <= max_usd
    /\ Setups \subseteq [exact : Oracles \cup {None}, wildcard : Oracles \cup {None}, sandboxed : BOOLEAN]

VARIABLES
    setup,          \* the oracles registered; whether code must be sandboxed
    log,            \* the committed steps: [stage, kind, to, output, ...]
    status,         \* of the run
    attempts,       \* counted at the position the drive is at
    answer,         \* [step, data]: the human input recorded
    drive,          \* [pc, spent] of the drive under way
    faults          \* history: faults so far

vars == <<setup, log, status, attempts, answer, drive, faults>>

-----------------------------------------------------------------------------
(* Steps, and what the stages read from them.                              *)

Stages == {"thesis", "experiment", "antithesis", "evaluate", "conclude"}
ModelStages == {"thesis", "experiment", "antithesis"}
Dispositions == {"broke", "could_not_break", "abstained"}
Sources == {"tool", "system", "inference"}
Verdict == [holds : BOOLEAN, valid_check : BOOLEAN, source : Sources]
Ended == {"COMPLETED", "DEGRADED"}
Current == IF log = <<>> THEN "thesis" ELSE Last(log).to

At(stage) == drive.pc = "stage" /\ Current = stage

LastOf(stage) == SelectLastInSeq(log, LAMBDA s : s.stage = stage)
LastOutput(stage) == log[LastOf(stage)].output

is_executable(v) == v.source \in {"tool", "system"}
Passes(v) == v.holds /\ v.valid_check /\ is_executable(v)

\* derive_accumulator: the antithesis that is being evaluated counts
CycleIndex == Len(SelectSeq(log, LAMBDA s : s.stage = "antithesis"))
ThesisTexts == SelectSeq(log, LAMBDA s : s.stage = "thesis")

\* at least 0.92 of the tokens of the last two theses are the same
JaccardStuck ==
    LET n == Len(ThesisTexts)
        a == ThesisTexts[n - 1].output.text
        b == ThesisTexts[n].output.text
    IN n >= 2 /\ 100 * Cardinality(a \cap b) >= 92 * Cardinality(a \cup b)

\* cycle_verdicts: the steps before `before', back to the nearest thesis
Window(before) ==
    LET thesis == SelectLastInSubSeq(log, 1, before - 1, LAMBDA s : s.stage = "thesis")
    IN (thesis + 1)..(before - 1)
InWindow(before, stage) == {log[i].output : i \in {j \in Window(before) : log[j].stage = stage}}

-----------------------------------------------------------------------------
(* route_dialectic: the first rule that applies.                           *)

Remaining == max_usd - drive.spent

Route(v, disposition, abstained) ==
    IF abstained THEN "abstain"
    ELSE IF Remaining < Cycle_usd THEN "over_budget"
    ELSE IF CycleIndex >= MAX_CYCLES \/ JaccardStuck THEN "stuck"
    ELSE IF Passes(v) /\ disposition = "could_not_break" THEN "success"
    ELSE IF ~v.valid_check \/ (v.holds /\ ~is_executable(v)) THEN "unverifiable"
    ELSE "refine"

\* the stage's mapping of a route, route_failure's table included
RouteResult(route) ==
    CASE route = "refine" -> [kind |-> "transition", to |-> "thesis"]
      [] route = "success" -> [kind |-> "transition", to |-> "conclude"]
      [] route = "unverifiable" -> [kind |-> "degraded", to |-> "conclude"]
      [] OTHER -> [kind |-> "await-human", to |-> "conclude"]

-----------------------------------------------------------------------------
(* The oracles.                                                            *)

Oracle == CASE setup.exact # None -> setup.exact
            [] setup.exact = None /\ setup.wildcard # None -> setup.wildcard
            [] OTHER -> "judge"

\* pytest's exit codes 0 and 1; any other, or a timeout, tested nothing
CodeVerdicts == [holds : BOOLEAN, valid_check : {TRUE}, source : {"tool"}]
                    \cup [holds : {FALSE}, valid_check : {FALSE}, source : {"tool"}]
Refusal == [holds |-> FALSE, valid_check |-> FALSE, source |-> "system"]
JudgeVerdicts == [holds : BOOLEAN, valid_check : BOOLEAN, source : {"inference"}]

-----------------------------------------------------------------------------
(* The drive.                                                              *)

Down == [pc |-> "down", spent |-> 0]
CanCall == drive.spent + Projected <= max_usd

CommitStep(kind, to, output) ==
    /\ log' = Append(log, [stage |-> Current, kind |-> kind, to |-> to, output |-> output])
    /\ attempts' = 0

\* what routes onward is driven on; the rest is parked or ended by a status
Onward(cost) == drive' = [drive EXCEPT !.spent = @ + cost]
Settling == drive' = [drive EXCEPT !.pc = "settle"]

(* The guarded model charges a call, and the stage charges it once more.   *)
ProposeThesis(th, c) ==
    /\ At("thesis") /\ CanCall
    /\ CommitStep("transition", "experiment", th)
    /\ Onward(2 * c)
    /\ UNCHANGED <<setup, status, answer, faults>>

RunCode(v) ==
    /\ At("experiment") /\ Oracle = "code"
    /\ v \in CodeVerdicts \/ (v = Refusal /\ setup.sandboxed)
    /\ CommitStep("transition", "antithesis", v)
    /\ UNCHANGED <<setup, status, answer, drive, faults>>

\* an answer that does not parse is no valid check
Judge(v, c) ==
    /\ At("experiment") /\ Oracle = "judge" /\ CanCall
    /\ v \in JudgeVerdicts
    /\ CommitStep("transition", "antithesis", v)
    /\ Onward(c)
    /\ UNCHANGED <<setup, status, answer, faults>>

Challenge(d, c) ==
    /\ At("antithesis") /\ CanCall
    /\ CommitStep("transition", "evaluate", d)
    /\ Onward(2 * c)
    /\ UNCHANGED <<setup, status, answer, faults>>

Evaluate ==
    /\ At("evaluate")
    /\ LET result == RouteResult(Route(LastOutput("experiment"), LastOutput("antithesis"),
                                       LastOutput("thesis").claim = None))
       IN /\ CommitStep(result.kind, result.to, None)
          /\ IF result.kind = "await-human" THEN Settling ELSE UNCHANGED drive
    /\ UNCHANGED <<setup, status, answer, faults>>

\* the most recent step that leads to the conclusion
Routing == SelectLastInSeq(log, LAMBDA s : s.to = "conclude")

ExecSuccess == /\ \E v \in InWindow(Routing, "experiment") : Passes(v)
               /\ InWindow(Routing, "antithesis") = {"could_not_break"}

HumanInput == IF answer.step = Routing THEN answer.data ELSE None

\* mutant: whoever did not decline has confirmed
ConclusionUnasked ==
    CASE log[Routing].kind = "transition" /\ ExecSuccess -> "verified"
      [] log[Routing].kind = "await-human" /\ HumanInput # "decline" -> "human-confirmed"
      [] OTHER -> "unverified"

Conclusion ==
    CASE log[Routing].kind = "transition" /\ ExecSuccess -> "verified"
      [] log[Routing].kind = "await-human" /\ HumanInput = "confirm-success" -> "human-confirmed"
      [] OTHER -> "unverified"

Conclude ==
    /\ At("conclude")
    /\ CommitStep(IF Conclusion = "unverified" THEN "degraded" ELSE "done", None, Conclusion)
    /\ Settling
    /\ UNCHANGED <<setup, status, answer, faults>>

\* the status that parks or ends the run, written after the commit
WriteStatus ==
    /\ drive.pc = "settle"
    /\ status' = CASE Last(log).kind = "await-human" -> "AWAITING_HUMAN"
                   [] Last(log).kind = "done" -> "COMPLETED"
                   [] OTHER -> "DEGRADED"
    /\ drive' = Down
    /\ UNCHANGED <<setup, log, attempts, answer, faults>>

CallsModel == drive.pc = "stage" /\ Current \in ModelStages
                  /\ (Current = "experiment" => Oracle = "judge")

\* BudgetExceededError is not retryable: it ends the drive, not the run
OverBudget ==
    /\ CallsModel /\ ~CanCall
    /\ drive' = Down
    /\ UNCHANGED <<setup, log, status, attempts, answer, faults>>

(* The provider raises, or the antithesis model contradicts itself (broke  *)
(* without a breakage): the exception leaves the drive, nothing is         *)
(* committed, the run stays RUNNING.                                       *)
StageRaises ==
    /\ CallsModel /\ CanCall
    /\ faults < MaxFaults /\ faults' = faults + 1
    /\ drive' = Down
    /\ UNCHANGED <<setup, log, status, attempts, answer>>

\* TimeoutError alone is retried; the last time it degrades the run
TimesOut ==
    /\ CallsModel /\ CanCall
    /\ faults < MaxFaults /\ faults' = faults + 1
    /\ IF attempts + 1 < max_attempts
       THEN /\ attempts' = attempts + 1
            /\ status' = "RETRYING" /\ drive' = Down
            /\ UNCHANGED log
       ELSE CommitStep("degraded", None, None) /\ Settling /\ UNCHANGED status
    /\ UNCHANGED <<setup, answer>>

Crash ==
    /\ drive.pc # "down"
    /\ faults < MaxFaults /\ faults' = faults + 1
    /\ drive' = Down
    /\ UNCHANGED <<setup, log, status, attempts, answer>>

\* mutant: a replayed question parks the run again
StartDriveReparking ==
    drive' = [pc |-> IF log # <<>> /\ (Current = None \/ Last(log).kind = "await-human") THEN "settle" ELSE "stage",
              spent |-> 0]

(* A new drive has a guard of its own.  It replays the log: a question     *)
(* whose status was never written is passed over, an end is written again. *)
StartDrive == drive' = [pc |-> IF log # <<>> /\ Current = None THEN "settle" ELSE "stage", spent |-> 0]

Resume ==
    /\ status = "RUNNING" /\ drive.pc = "down"
    /\ StartDrive
    /\ UNCHANGED <<setup, log, status, attempts, answer, faults>>

FireRetry ==
    /\ status = "RETRYING" /\ drive.pc = "down"
    /\ status' = "RUNNING"
    /\ StartDrive
    /\ UNCHANGED <<setup, log, attempts, answer, faults>>

\* the first answer recorded stays; the status moves in a statement of its own
RecordAnswer(data) ==
    /\ status = "AWAITING_HUMAN" /\ drive.pc = "down"
    /\ answer' = IF answer.step = 0 THEN [step |-> Len(log), data |-> data] ELSE answer
    /\ drive' = [drive EXCEPT !.pc = "answered"]
    /\ UNCHANGED <<setup, log, status, attempts, faults>>

TakeAnswer ==
    /\ drive.pc = "answered"
    /\ status' = "RUNNING"
    /\ StartDrive
    /\ UNCHANGED <<setup, log, attempts, answer, faults>>

Init ==
    /\ setup \in Setups
    /\ log = <<>> /\ status = "RUNNING" /\ attempts = 0
    /\ answer = [step |-> 0, data |-> None]
    /\ drive = [pc |-> "stage", spent |-> 0]
    /\ faults = 0

RunStage ==
    \/ \E th \in Theses, c \in Costs : ProposeThesis(th, c)
    \/ \E v \in Verdict : RunCode(v) \/ \E c \in Costs : Judge(v, c)
    \/ \E d \in Dispositions, c \in Costs : Challenge(d, c)
    \/ Evaluate \/ Conclude \/ WriteStatus
    \/ OverBudget \/ StageRaises \/ TimesOut

Answers == \E data \in {"confirm-success", "decline", "malformed"} : RecordAnswer(data)

Next == RunStage \/ Crash \/ Resume \/ FireRetry \/ Answers \/ TakeAnswer

Spec == Init /\ [][Next]_vars

(* The driver gets on; a sweeper fires retries, a supervisor resumes runs  *)
(* that stay RUNNING with no drive, and a human answers in the end.        *)
FairSpec == /\ Spec
            /\ WF_vars(RunStage) /\ WF_vars(TakeAnswer)
            /\ WF_vars(Resume) /\ WF_vars(FireRetry) /\ WF_vars(Answers)

-----------------------------------------------------------------------------
(* The evidence projector's reading of the same log.                       *)

\* mutant: a judge's verdict is recorded as a proof
OracleRecordOfAny(v) ==
    IF ~v.valid_check THEN {}
    ELSE IF v.holds THEN {[type |-> "tool_proof", epistemic |-> "confirmed"]}
    ELSE {[type |-> "refutation", epistemic |-> "confirmed"]}

\* record_for, in the oracle's role
OracleRecord(v) ==
    IF ~v.valid_check \/ ~is_executable(v) THEN {}
    ELSE IF v.holds THEN {[type |-> "tool_proof", epistemic |-> "confirmed"]}
    ELSE {[type |-> "refutation", epistemic |-> "confirmed"]}

\* verdict_from_antithesis and record_for: only survival says something
AntithesisRecord(d) ==
    IF d = "could_not_break" THEN {[type |-> "antithesis_survival", epistemic |-> "inference"]} ELSE {}

\* the claim a verdict step carries is that of the thesis before it
ClaimAt(i) == log[SelectLastInSubSeq(log, 1, i, LAMBDA s : s.stage = "thesis")].output.claim

RecordsAt(i) ==
    IF log[i].kind # "transition" THEN {}
    ELSE IF log[i].stage = "experiment" THEN OracleRecord(log[i].output)
    ELSE IF log[i].stage = "antithesis" THEN AntithesisRecord(log[i].output)
    ELSE {}

Evidence(i) == IF log[i].stage \notin {"experiment", "antithesis"} \/ ClaimAt(i) = None THEN {} ELSE RecordsAt(i)

-----------------------------------------------------------------------------
(* What the dialectic promises.                                            *)

Concluded == log # <<>> /\ Last(log).stage = "conclude"
Asked == Routing # 0 /\ log[Routing].kind = "await-human"

(* A run is concluded as verified exactly when the router sent it there as *)
(* a success, and as confirmed exactly when a human confirmed this very    *)
(* question: the two gates (EvaluateStage over the last outputs of the     *)
(* whole run, ConcludeStage over the window of one cycle) never disagree,  *)
(* whatever crashed or was resumed between them.  A question skipped by a  *)
(* crash between its commit and its status concludes nothing.              *)
HonestConclusion ==
    Concluded =>
        /\ Last(log).output = "verified" <=> log[Routing].kind = "transition"
        /\ Last(log).output = "human-confirmed" <=> Asked /\ HumanInput = "confirm-success"
        /\ Last(log).kind = "done" <=> Last(log).output # "unverified"
        /\ answer.step # 0 => answer.step = Routing

(* What the projector writes about the run agrees with how it ends: a      *)
(* verified run has, in its last cycle and about the claim of its thesis,  *)
(* a proof by an executed check and a survival, and only an executed check *)
(* ever confirms or refutes a claim (record_for, _exec_success_predicate). *)
EvidenceAgrees ==
    /\ Concluded /\ Last(log).output = "verified" =>
           \E i, j \in Window(Routing) :
               /\ [type |-> "tool_proof", epistemic |-> "confirmed"] \in Evidence(i)
               /\ [type |-> "antithesis_survival", epistemic |-> "inference"] \in Evidence(j)
               /\ ClaimAt(i) = ClaimAt(j) /\ ClaimAt(i) # None
    /\ \A i \in 1..Len(log) : \A e \in Evidence(i) :
           e.epistemic = "confirmed" => Oracle = "code" /\ log[i].output.source = "tool"

(* Every dialectic ends, completed or degraded, if the drives that die of  *)
(* an exception or a crash are resumed and the questions answered.         *)
Concludes == <>[](status \in Ended)

=============================================================================
