------------------------------ MODULE GateRun -------------------------------
(***************************************************************************)
(* A run of the evaluation gate, from the planted items to the manifest:   *)
(* run_bring_up and what it composes (the roster's preflight, the budget   *)
(* guard, the per-arm answer caches, run_and_stamp, the ledger of looks,   *)
(* score_gate_live and the two files it writes), and callers that compose  *)
(* the same parts with a corpus whose contamination was audited.           *)
(*                                                                         *)
(* A process runs designs one after another and holds their ledger, the    *)
(* in-memory journal.  It can be killed at any time, between two bytes of  *)
(* an append too; caches and files outlive it.                             *)
(***************************************************************************)
EXTENDS Labeling, Scoring

CONSTANTS
    ModelArms,          \* the cached arms, in the order of the driver's map
    Scenarios,          \* what is planted, which designs are run, what may go wrong
    Answers(_, _),      \* what the model may answer for an arm and an item
    Leaky,              \* seeds whose permutation test refuses
    MaxCalls            \* bound: as far as the calls for a cell are counted

\* Planted items have ids of their own, and pairs join an error and a clean item.
paired(items) ==
    \A i, j \in items :
        /\ i.id = j.id => i = j
        /\ i.sibling # 0 /\ i.sibling = j.id => i.isError # j.isError

\* Every arm of the artifact is a cached one, or one of the two that ask no model.
\* The five that score_gate compares are there: without one of them there is no
\* PASS, whatever the others say.
ASSUME GateAssumption ==
    /\ look_budget_max \in Nat \ {0} /\ MaxCalls \in Nat \ {0}
    /\ ModelArms \in Seq(STRING) /\ ToSet(ArmLabels) \subseteq ToSet(ModelArms) \cup {"A", "PC"}
    /\ {"A", "B", "C", "D", "PC"} \subseteq ToSet(ArmLabels)
    /\ MaxStratum \in Nat
    /\ \A s \in Scenarios :
          /\ s.items \subseteq PlantedItem /\ paired(s.items)
          /\ \A e \in BOOLEAN : LET side == {i \in s.items : i.isError = e}
                               IN  IsFiniteSet(side) /\ Cardinality(side) <= MaxStratum

VARIABLES
    world,      \* the scenario
    caches,     \* per arm: its file
    out,        \* cells.json and manifest.json
    run,        \* the run in progress, or the process's lack of one
    ledger,     \* the looks that this process's journal knows, each of a configuration
    decided,    \* history: the looks of this ledger that got a PASS or a FAIL
    calls,      \* history: calls of the model, per fingerprint, item and arm
    kills       \* bound

vars == <<world, caches, out, run, ledger, decided, calls, kills>>

Nothing == [is |-> "nothing"]   \* no file, no unfinished line
Torn == [is |-> "torn"]         \* a prefix of what was being written
NoMap == [x \in {} |-> FALSE]
put(map, key, value) == [k \in DOMAIN map \cup {key} |-> IF k = key THEN value ELSE map[k]]

\* A file holds whole lines, and perhaps a last one without its newline: a
\* prefix of a record, or a record that lacks the newline only.
EmptyFile == [lines |-> NoMap, tail |-> Nothing]

Down == [phase |-> "down"]
Idle == [phase |-> "idle"]
Up == run.phase # "down"

Init ==
    /\ world \in Scenarios
    /\ caches = [a \in ToSet(ModelArms) |-> EmptyFile]
    /\ out = [cells |-> Nothing, manifest |-> Nothing]
    /\ run = Down
    /\ ledger = {} /\ decided = {}
    /\ calls = NoMap
    /\ kills = 0

-----------------------------------------------------------------------------
(* What a measurement is told by.  Its fingerprint is made of the locked    *)
(* corpus, the master seed and what surrounds them, and not of the models  *)
(* that answer; its configuration of the mode and the models, and not of   *)
(* the corpus.  One out_dir and one lineage are all there is here.         *)

fingerprint(d) == [seed |-> d.seed, audited |-> d.audited]
config_hash(d) == [mode |-> d.settings.mode, arm |-> d.settings.arm]

-----------------------------------------------------------------------------
(* The cache of an arm: keys are <<fingerprint, item id>>. *)

\* Fault: an answer is kept in memory only.
NotKept(file, key, flag) == file

\* Fault: a line that is glued to an unfinished one does not end it either.
StaysTorn(file, key, flag) ==
    IF file.tail = Nothing THEN [file EXCEPT !.lines = put(@, key, flag)] ELSE file

\* Opened for append: what follows an unfinished line is glued to it, and the
\* line they make is no record.
appended(file, key, flag) ==
    IF file.tail = Nothing THEN [file EXCEPT !.lines = put(@, key, flag)]
    ELSE [file EXCEPT !.tail = Nothing]

\* A kill inside the append leaves a prefix of the line, or all but its newline.
TornAppends(file, key, flag) ==
    {[file EXCEPT !.tail = Torn]}
        \cup (IF file.tail = Nothing THEN {[file EXCEPT !.tail = [key |-> key, flag |-> flag]]}
              ELSE {})

\* A last line that lacks only its newline still parses.
readable(file) ==
    IF file.tail \in {Nothing, Torn} THEN file.lines
    ELSE put(file.lines, file.tail.key, file.tail.flag)

\* Fault: a new process does not look.
LoadsNothing(d) == NoMap

\* What the arms of a design find in their files.
loaded(d) ==
    LET known == {c \in UNION {{<<k[2], a>> : k \in {x \in DOMAIN readable(caches[a]) : x[1] = fingerprint(d)}} :
                                a \in DOMAIN caches} : TRUE}
    IN  [c \in known |-> readable(caches[c[2]])[<<fingerprint(d), c[1]>>]]

-----------------------------------------------------------------------------
(* The roster. *)

families(s) == ({s.arm, s.planter, s.adversary, s.d_prime} \ {""}) \cup ToSet(s.panel)

binding_blocked(s) ==
    LET arms == {s.arm, s.d_prime} \ {""}
        used == s.panel \o (IF s.adversary = "" THEN <<>> ELSE <<s.adversary>>)
        forbidden == arms \cup ({s.planter} \ {""})
    IN  \/ "" \in {s.planter, s.adversary, s.d_prime} \/ s.panel = <<>>
        \/ s.planter # "" /\ s.planter \in arms
        \/ ~IsInjective(used) \/ ToSet(used) \cap forbidden # {}

\* A bring-up run must be blocked, a binding run must not be.
roster_unsound(s) == (s.mode = "bring-up") # binding_blocked(s)

-----------------------------------------------------------------------------
(* The corpus: promoted and locked; an audited one is converted first, has  *)
(* its pairs re-validated and is loaded as a measurement.                   *)

planted(d) == IF d.audited THEN convert_k_pool(world.items) ELSE world.items

\* A caller that re-validates puts the parts together again.
locked(d) ==
    LET kept == promote_corpus(planted(d))
        pairs == revalidate_bijection(kept, dropped_ids(planted(d)))
        alone == {i \in kept : i.sibling = 0}
    IN  lock_corpus(IF d.audited THEN pairs.paired \cup pairs.demoted \cup alone ELSE kept)

\* Left out: assert_no_contamination, which holds a corpus against the log of
\* the tuning runs.
corpus_refused(d) ==
    \/ \E i \in planted(d) : regime_mismatch(i) \/ too_few_people(i)
    \/ lock_refused(promote_corpus(planted(d)))
    \/ d.audited /\ bijection_refused(promote_corpus(planted(d)), dropped_ids(planted(d)))

\* The cells that the caches do not answer, and the first of them: items in the
\* order of their ids, the arms of an item in the order of the map.
missing == (Ids(run.corpus) \X ToSet(ModelArms)) \ DOMAIN run.answered

place(arm) == CHOOSE n \in DOMAIN ModelArms : ModelArms[n] = arm

next_cell ==
    CHOOSE c \in missing : \A e \in missing :
        c[1] < e[1] \/ (c[1] = e[1] /\ place(c[2]) <= place(e[2]))

arm_a_flags(i) == is_o_catch(i.verdict)
scripted_flags(i) == i.isError

cell_artifact ==
    [c \in Ids(run.corpus) \X ToSet(ArmLabels) |->
        LET i == ById(run.corpus, c[1])
        IN  CASE c[2] = "A" -> arm_a_flags(i)
              [] c[2] = "PC" -> scripted_flags(i)
              [] OTHER -> run.answered[c]]

-----------------------------------------------------------------------------
(* The steps of a process. *)

StartProcess ==
    /\ run.phase = "down"
    /\ run' = Idle /\ ledger' = {} /\ decided' = {}
    /\ UNCHANGED <<world, caches, out, calls, kills>>

Dies ==
    /\ run' = Down /\ ledger' = {} /\ decided' = {}
    /\ UNCHANGED world

\* The driver's preflight, and a corpus that cannot be promoted or locked, end
\* the process.
Refused(d) ==
    /\ run.phase = "idle" /\ d \in world.designs
    /\ (~d.audited /\ roster_unsound(d.settings)) \/ corpus_refused(d)
    /\ Dies
    /\ UNCHANGED <<caches, out, calls, kills>>

StartRun(d) ==
    /\ run.phase = "idle" /\ d \in world.designs
    /\ d.audited \/ ~roster_unsound(d.settings)
    /\ ~corpus_refused(d)
    /\ run' = [phase |-> "arms", design |-> d, corpus |-> locked(d), answered |-> loaded(d),
               spent |-> 0, cells |-> NoMap, verdict |-> "none"]
    /\ UNCHANGED <<world, caches, out, ledger, decided, calls, kills>>

Ask(id, arm) ==
    LET key == <<fingerprint(run.design), id, arm>>
    IN  calls' = put(calls, key, IF key \notin DOMAIN calls THEN 1
                                 ELSE IF calls[key] < MaxCalls THEN calls[key] + 1 ELSE MaxCalls)

within_ceiling == run.spent + 1 <= world.max_usd

\* The next cell without an answer is asked for, recorded and remembered.
AnswerCell ==
    /\ run.phase = "arms" /\ missing # {} /\ within_ceiling
    /\ LET id == next_cell[1]
           arm == next_cell[2]
       IN  \E flag \in Answers(arm, id) :
             /\ Ask(id, arm)
             /\ caches' = [caches EXCEPT ![arm] = appended(@, <<fingerprint(run.design), id>>, flag)]
             /\ run' = [run EXCEPT !.answered = put(@, next_cell, flag), !.spent = @ + 1]
    /\ UNCHANGED <<world, out, ledger, decided, kills>>

\* The guard refuses the next call: nothing catches its error.
OverCeiling ==
    /\ run.phase = "arms" /\ missing # {} /\ ~within_ceiling
    /\ Dies
    /\ UNCHANGED <<caches, out, calls, kills>>

\* Fault: the look is not charged.
NotCharged(looks, d) == looks

\* A look is one measurement under one configuration: taken again, it is the same.
a_look(d) == [config |-> config_hash(d), fingerprint |-> fingerprint(d)]
look(looks, d) == looks \cup {a_look(d)}
looks_taken(d) == Cardinality({x \in ledger : x.config = config_hash(d)})

\* Every cell has its answer: the look is charged, and only then counted.
AppendLook ==
    /\ run.phase = "arms" /\ missing = {}
    /\ ledger' = look(ledger, run.design)
    /\ run' = [run EXCEPT !.phase = "score", !.cells = cell_artifact]
    /\ UNCHANGED <<world, caches, out, decided, calls, kills>>

ScoreGate ==
    /\ run.phase = "score"
    /\ LET verdict == score_gate(run.design.audited, run.corpus, run.cells,
                                 run.design.seed \notin Leaky, looks_taken(run.design))
       IN  /\ run' = [run EXCEPT !.phase = "cells", !.verdict = verdict]
           /\ decided' = IF verdict \in {"PASS", "FAIL"} THEN decided \cup {a_look(run.design)} ELSE decided
    /\ UNCHANGED <<world, caches, out, ledger, calls, kills>>

WriteCells ==
    /\ run.phase = "cells"
    /\ out' = [out EXCEPT !.cells = [design |-> run.design, flags |-> run.cells]]
    /\ run' = [run EXCEPT !.phase = "manifest"]
    /\ UNCHANGED <<world, caches, ledger, decided, calls, kills>>

WriteManifest ==
    /\ run.phase = "manifest"
    /\ out' = [out EXCEPT !.manifest = [design |-> run.design, verdict |-> run.verdict]]
    /\ run' = Idle
    /\ UNCHANGED <<world, caches, ledger, decided, calls, kills>>

-----------------------------------------------------------------------------
(* Kills. *)

Killed == kills < world.kills /\ kills' = kills + 1 /\ Dies

Kill ==
    /\ Up /\ Killed
    /\ UNCHANGED <<caches, out, calls>>

\* The model has answered: the line is not written, or not to its end.
KillInCell ==
    /\ run.phase = "arms" /\ missing # {} /\ within_ceiling /\ Killed
    /\ LET id == next_cell[1]
           arm == next_cell[2]
       IN  \E flag \in Answers(arm, id) :
             /\ Ask(id, arm)
             /\ \E file \in {caches[arm]} \cup TornAppends(caches[arm], <<fingerprint(run.design), id>>, flag) :
                   caches' = [caches EXCEPT ![arm] = file]
    /\ UNCHANGED out

\* write_text empties the file, then fills it.
KillInWrite ==
    /\ run.phase \in {"cells", "manifest"} /\ Killed
    /\ out' = [out EXCEPT ![run.phase] = Torn]
    /\ UNCHANGED <<caches, calls>>

\* A process with nothing to do ends.
Exit ==
    /\ run.phase = "idle" /\ Dies
    /\ UNCHANGED <<caches, out, calls, kills>>

Next ==
    \/ StartProcess
    \/ \E d \in world.designs : Refused(d) \/ StartRun(d)
    \/ AnswerCell \/ OverCeiling \/ AppendLook \/ ScoreGate \/ WriteCells \/ WriteManifest
    \/ Kill \/ KillInCell \/ KillInWrite \/ Exit

\* The designs that no roster refuses.
admitted == {d \in UNION {s.designs : s \in Scenarios} : d.audited \/ ~roster_unsound(d.settings)}

\* Somebody starts the process again until a run ends, and runs every design
\* time and again; a process that has started does not stop by itself.
Fairness ==
    /\ WF_vars(StartProcess)
    /\ WF_vars(AnswerCell \/ OverCeiling \/ AppendLook \/ ScoreGate \/ WriteCells \/ WriteManifest)
    /\ \A d \in admitted : SF_vars(StartRun(d))

Spec == Init /\ [][Next]_vars /\ Fairness

-----------------------------------------------------------------------------
(* Properties. *)

Running == run.phase \notin {"down", "idle"}

\* A kill costs at most two answers: the one it tears, and the next one of that
\* arm, which is glued to the torn line.  Every other answer is asked for once,
\* however often the ceiling or an operator stops the run.
KillsCostTwo ==
    LET again == {c \in (DOMAIN calls) \X (2..MaxCalls) : c[2] <= calls[c[1]]}
    IN  Cardinality(again) <= 2 * kills

\* Without a kill, a design that is run again publishes the same answers, and
\* asks for none.
RerunReplays ==
    [][\A d \in world.designs :
         /\ out.cells \notin {Nothing, Torn} /\ out'.cells \notin {Nothing, Torn}
         /\ out.cells.design = d /\ out'.cells.design = d /\ kills = 0
         => out'.cells = out.cells]_vars

\* The looks of a lineage that get an answer under one configuration stay below
\* the budget, however often they are taken again and whatever else is run.
LooksBounded ==
    \A x \in decided : Cardinality({y \in decided : y.config = x.config}) < look_budget_max

\* An error that is neither a probe nor converted and that the oracle does not see.
binding(i) == i.stratum = "K" /\ ~i.converted /\ ~i.detk /\ ~is_o_catch(i.verdict)

\* A PASS rests on an audited corpus, on a binding error that D catches, and on
\* an item that D gets right and the baseline C wrong: a binding error that only
\* D flags, or a clean item that only C flags.
PassIsEarned ==
    Running /\ run.verdict = "PASS"
    => /\ run.design.audited
       /\ \E i \in run.corpus : binding(i) /\ run.cells[<<i.id, "D">>]
       /\ \E i \in run.corpus :
            LET D == run.cells[<<i.id, "D">>]
                C == run.cells[<<i.id, "C">>]
            IN  (binding(i) /\ D /\ ~C) \/ (is_clean(i) /\ C /\ ~D)

\* The labeller and the oracle arm agree on every item that is scored: the arm
\* flags the O stratum, and nothing else.  And whatever items were dropped, the
\* loader has nothing against an audited corpus that was locked.
CorpusSound ==
    Running => /\ \A i \in run.corpus : arm_a_flags(i) <=> i.stratum = "O"
               /\ run.design.audited => ~load_refused(run.corpus)

\* A design that is not refused gets its manifest in the end.
RunsEnd ==
    \A d \in admitted :
        (d \in world.designs /\ world.max_usd > 0 /\ ~corpus_refused(d))
        ~> (out.manifest \notin {Nothing, Torn} /\ out.manifest.design = d)

\* lock.py: no regime carries more than its share of what D catches.
NoLoadedPass ==
    Running /\ run.verdict = "PASS" => spread(run.corpus, run.cells, "D")

=============================================================================
