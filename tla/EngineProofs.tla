---------------------------- MODULE EngineProofs ----------------------------
(***************************************************************************)
(* Theorems about Engine for every value of its constants, in three parts. *)
(*                                                                         *)
(* 1. Frames and the in-process mutex.  Typed is the strengthening that    *)
(*    makes TypeOK inductive: what a frame holds depends on where it       *)
(*    stands (GoodFrame), a frame past start_run means that the run exists *)
(*    (Begun), and the timers are finitely many, so that a tick's count of *)
(*    them is a number.                                                    *)
(* 2. The log.  What is written stays written, for any fleet.  That a      *)
(*    committed step is never run again, and that the log is one walk of   *)
(*    the pathway's graph, hold for every graph and any number of tasks    *)
(*    while one drive at a time is inside the loop, with the graph the run *)
(*    was started with (Sole).  One process always keeps to that.  A fleet *)
(*    does while its operators do (part 3); a pause and an unpause in a    *)
(*    second process while a stage runs break it (README, section 3).      *)
(* 3. A run and the drives that carry it: one drive at a time over all     *)
(*    processes, the journal as an implementation of DurableRun, the       *)
(*    failure ceiling, and what a parked or stopped run can rely on, for   *)
(*    every graph, every stage behaviour and any number of engines and     *)
(*    tasks that keep the rules the driver leaves to its callers (Orderly).*)
(***************************************************************************)
EXTENDS Engine, FiniteSetTheorems, TLAPS

GoodFrame ==
    {f \in Frame :
        /\ f.pc \in Loop => f.cur \in Stages
        /\ f.pc = "unwait" => f.res.to \in Stages
        /\ f.pc = "settle" => f.goal \in RunStatus
        /\ f.op = "sweep" => f.pending > 0}

Inside == (Driving \ {"start"}) \cup {"load"}
Begun == \A t \in Tasks : pc(t) \in Inside => status # "none"

(* The journal's part, the run's own row, the engines' registries.         *)
JournalTyped == JournalTypeOK /\ IsFiniteSet(DOMAIN timers)

RunTyped ==
    /\ fingerprint \in {NoFingerprint} \cup {Fingerprint(GraphOf[e]) : e \in Engines}
    /\ status = "none" <=> fingerprint = NoFingerprint

BooksTyped ==
    driving \subseteq Engines /\ bg \subseteq Engines
        /\ crashes \in 0..MaxCrashes /\ pauses \in 0..MaxPauses

Typed ==
    /\ JournalTyped /\ RunTyped /\ BooksTyped
    /\ task \in [Tasks -> GoodFrame]
    /\ Begun

-----------------------------------------------------------------------------
(* The journal's operations keep its types. *)

(* A table's keys and rows keep their types under an insert of a row of    *)
(* the right type, and under any delete; both keep the table finite.       *)
TableOf(table, K, R) ==
    DOMAIN table \subseteq K /\ \A k \in DOMAIN table : table[k] \in R

LEMMA InsertTyped ==
    ASSUME NEW table, NEW K, NEW R, TableOf(table, K, R), NEW key \in K, NEW row \in R
    PROVE  TableOf(Insert(table, key, row), K, R)
<1> DEFINE new == Insert(table, key, row)
<1>1. DOMAIN new = DOMAIN table \cup {key}
  BY DEF Insert
<1>2. \A k \in DOMAIN new : new[k] = IF k = key THEN row ELSE table[k]
  BY DEF Insert
<1> QED
  BY <1>1, <1>2 DEF TableOf

LEMMA DeleteTyped ==
    ASSUME NEW table, NEW K, NEW R, TableOf(table, K, R), NEW keys
    PROVE  TableOf(Delete(table, keys), K, R)
  BY DEF Delete, TableOf

LEMMA Finite ==
    ASSUME NEW table, IsFiniteSet(DOMAIN table), NEW key, NEW row
    PROVE  /\ IsFiniteSet(DOMAIN Insert(table, key, row))
           /\ IsFiniteSet(DOMAIN Delete(table, key))
<1>1. IsFiniteSet(DOMAIN table \cup {key})
  BY FS_AddElement
<1>2. DOMAIN Delete(table, key) \subseteq DOMAIN table
  BY DEF Delete
<1>3. IsFiniteSet(DOMAIN Delete(table, key))
  BY <1>2, FS_Subset
<1> QED
  BY <1>1, <1>3 DEF Insert

(* An operation that leaves the journal alone.                             *)
LEMMA UnchangedTyped ==
    ASSUME JournalTyped, UNCHANGED journal PROVE JournalTyped'
  BY DEF JournalTyped, JournalTypeOK, journal

LEMMA StartRunTyped ==
    ASSUME JournalTyped, NEW fp, StartRun(fp) PROVE JournalTyped'
  BY DEF JournalTyped, JournalTypeOK, StartRun, RunStatus

LEMMA SetRunStatusTyped ==
    ASSUME JournalTyped, NEW s \in RunStatus, SetRunStatus(s) PROVE JournalTyped'
  BY DEF JournalTyped, JournalTypeOK, SetRunStatus

LEMMA CommitStepTyped ==
    ASSUME JournalTyped, NEW i \in Nat, NEW r \in StepRecord, CommitStep(i, r)
    PROVE  JournalTyped'
<1>1. TableOf(steps, Nat, StepRecord)
  BY DEF JournalTyped, JournalTypeOK, TableOf
<1>2. TableOf(steps', Nat, StepRecord)
  BY <1>1, InsertTyped DEF CommitStep
<1> QED
  BY <1>2 DEF CommitStep, JournalTyped, JournalTypeOK, TableOf

LEMMA IncrementAttemptTyped ==
    ASSUME JournalTyped, NEW i \in Nat, IncrementAttempt(i)
    PROVE  JournalTyped' /\ ReadAttempt(i) \in Nat
<1>1. ReadAttempt(i) \in Nat /\ ReadAttempt(i) + 1 \in Nat \ {0}
  BY DEF JournalTyped, JournalTypeOK, ReadAttempt
<1>2. TableOf(attempts, Nat, Nat \ {0})
  BY DEF JournalTyped, JournalTypeOK, TableOf
<1>3. TableOf(attempts', Nat, Nat \ {0})
  BY <1>1, <1>2, InsertTyped DEF IncrementAttempt
<1> QED
  BY <1>1, <1>3 DEF IncrementAttempt, JournalTyped, JournalTypeOK, TableOf

LEMMA RecordHumanInputTyped ==
    ASSUME JournalTyped, NEW i \in Nat, NEW a \in Answers, RecordHumanInput(i, a)
    PROVE  JournalTyped'
<1>1. TableOf(answers, Nat, Answers)
  BY DEF JournalTyped, JournalTypeOK, TableOf
<1>2. TableOf(answers', Nat, Answers)
  BY <1>1, InsertTyped DEF RecordHumanInput
<1> QED
  BY <1>2 DEF RecordHumanInput, JournalTyped, JournalTypeOK, TableOf

LEMMA SetTimerTyped ==
    ASSUME JournalTyped, NEW id \in Nat \X Nat, SetTimer(id) PROVE JournalTyped'
<1>1. TableOf(timers, Nat \X Nat, TimerRow)
  BY DEF JournalTyped, JournalTypeOK, TableOf
<1>2. [due |-> FALSE, lease |-> "none"] \in TimerRow
  BY DEF TimerRow
<1>3. TableOf(timers', Nat \X Nat, TimerRow)
  BY <1>1, <1>2, InsertTyped DEF SetTimer
<1>4. IsFiniteSet(DOMAIN timers')
  BY Finite DEF SetTimer, JournalTyped
<1> QED
  BY <1>3, <1>4 DEF SetTimer, JournalTyped, JournalTypeOK, TableOf

LEMMA CancelTyped ==
    ASSUME JournalTyped, NEW keys, timers' = Delete(timers, keys),
           UNCHANGED <<status, fingerprint, steps, attempts, answers>>
    PROVE  JournalTyped'
<1>1. TableOf(timers, Nat \X Nat, TimerRow)
  BY DEF JournalTyped, JournalTypeOK, TableOf
<1>2. TableOf(timers', Nat \X Nat, TimerRow)
  BY <1>1, DeleteTyped
<1>3. IsFiniteSet(DOMAIN timers')
  BY Finite DEF JournalTyped
<1> QED
  BY <1>2, <1>3 DEF JournalTyped, JournalTypeOK, TableOf

LEMMA ClaimTyped ==
    ASSUME JournalTyped, ClaimDueTimers
    PROVE  JournalTyped' /\ Cardinality(Claimable) \in Nat
                         /\ (Claimable # {} => Cardinality(Claimable) > 0)
<1>1. IsFiniteSet(Claimable)
  BY FS_Subset DEF Claimable, JournalTyped
<1>2. Cardinality(Claimable) \in Nat /\ (Claimable # {} => Cardinality(Claimable) > 0)
  BY <1>1, FS_CardinalityType, FS_EmptySet
<1>3. DOMAIN timers' = DOMAIN timers
  BY DEF ClaimDueTimers
<1>4. \A id \in DOMAIN timers : timers'[id] \in TimerRow
  BY DEF ClaimDueTimers, JournalTyped, JournalTypeOK, TimerRow
<1> QED
  BY <1>2, <1>3, <1>4 DEF ClaimDueTimers, JournalTyped, JournalTypeOK

LEMMA TimeTyped ==
    ASSUME JournalTyped, NEW id, TimerFallsDue(id) \/ LeaseGoesStale(id)
    PROVE  JournalTyped'
<1>1. DOMAIN timers' = DOMAIN timers
  BY DEF TimerFallsDue, LeaseGoesStale
<1>2. \A k \in DOMAIN timers : timers'[k] \in TimerRow
  <2> TAKE k \in DOMAIN timers
  <2>1. timers[k] \in TimerRow
    BY DEF JournalTyped, JournalTypeOK
  <2>2. CASE TimerFallsDue(id)
    BY <2>1, <2>2 DEF TimerFallsDue, TimerRow
  <2>3. CASE LeaseGoesStale(id)
    BY <2>1, <2>3 DEF LeaseGoesStale, TimerRow
  <2> QED
    BY <2>2, <2>3
<1> QED
  BY <1>1, <1>2 DEF TimerFallsDue, LeaseGoesStale, JournalTyped, JournalTypeOK

-----------------------------------------------------------------------------
(* Frames. *)

(* A result that routes names a stage; so does every wait and every        *)
(* await-human.                                                            *)
LEMMA Results ==
    ASSUME NEW r \in StageResult
    PROVE  /\ Routes(r) => r.to \in Stages
           /\ r.kind \in {"wait", "await-human"} => r.to \in Stages
  BY DEF StageResult, Routes, Done, Degraded

LEMMA DoneTyped == Done \in StageResult
  BY DEF StageResult

LEMMA IdleGood == Idle \in GoodFrame /\ [Idle EXCEPT !.pc = "stopped"] \in GoodFrame
  BY DEF Idle, GoodFrame, Frame, Labels, Driving, Opening, Loop, Leaving, Operations,
         StageResult, Done

(* A frame that moves to a label that asks for nothing.                    *)
LEMMA GotoGood ==
    ASSUME NEW f \in GoodFrame, NEW label \in Labels \ (Loop \cup {"settle"})
    PROVE  [f EXCEPT !.pc = label] \in GoodFrame
  BY DEF GoodFrame, Frame, Loop

(* Within the loop it keeps its stage.                                     *)
LEMMA LoopGood ==
    ASSUME NEW f \in GoodFrame, f.pc \in Loop, NEW label \in Loop \ {"unwait", "settle"}
    PROVE  [f EXCEPT !.pc = label] \in GoodFrame
  BY DEF GoodFrame, Frame, Loop, Labels, Driving

LEMMA SettleGood ==
    ASSUME NEW f \in GoodFrame, f.pc \in Loop, NEW s \in RunStatus
    PROVE  [f EXCEPT !.pc = "settle", !.goal = s] \in GoodFrame
  BY ZenonT(40) DEF GoodFrame, Frame, Loop, Labels, Driving

LEMMA CasGood ==
    ASSUME NEW f \in GoodFrame, NEW s \in RunStatus
    PROVE  [f EXCEPT !.pc = "cas", !.seen = s] \in GoodFrame
  BY ZenonT(40) DEF GoodFrame, Frame, Labels, Driving, Opening, Loop

LEMMA UnwaitGood ==
    ASSUME NEW f \in GoodFrame, f.pc \in Loop, NEW r \in StageResult, r.to \in Stages
    PROVE  [f EXCEPT !.pc = "unwait", !.res = r] \in GoodFrame
  BY ZenonT(40) DEF GoodFrame, Frame, Loop, Labels, Driving

LEMMA CommitGood ==
    ASSUME NEW f \in GoodFrame, f.pc \in Loop, NEW r \in StageResult
    PROVE  [f EXCEPT !.pc = "commit", !.res = r] \in GoodFrame
  BY ZenonT(40) DEF GoodFrame, Frame, Loop, Labels, Driving

LEMMA ArmGood ==
    ASSUME NEW f \in GoodFrame, f.pc \in Loop, NEW n \in Nat
    PROVE  [f EXCEPT !.pc = "arm-retry", !.tries = n] \in GoodFrame
  BY ZenonT(40) DEF GoodFrame, Frame, Loop, Labels, Driving

LEMMA RetryingGood ==
    ASSUME NEW f \in GoodFrame, f.pc \in Loop
    PROVE  [f EXCEPT !.pc = "settle", !.goal = "retrying", !.tries = 0] \in GoodFrame
<1>1. "retrying" \in RunStatus /\ 0 \in Nat
  BY DEF RunStatus
<1> QED
  BY <1>1, ZenonT(40) DEF GoodFrame, Frame, Loop, Labels, Driving

LEMMA AdvanceGood ==
    ASSUME NEW f \in GoodFrame, NEW s \in Stages
    PROVE  [f EXCEPT !.pc = "top", !.seq = @ + 1, !.cur = s, !.res = Done] \in GoodFrame
<1> DEFINE g == [f EXCEPT !.pc = "top", !.seq = f.seq + 1, !.cur = s, !.res = Done]
<1>1. Done \in StageResult /\ f \in Frame /\ f.seq + 1 \in Nat
  BY DEF StageResult, GoodFrame, Frame
<1>2. g \in Frame
  BY <1>1 DEF Frame, Loop, Labels, Driving
<1>3. g.pc = "top" /\ g.cur = s /\ g.op = f.op /\ g.pending = f.pending
  BY DEF GoodFrame, Frame
<1> QED
  BY <1>2, <1>3 DEF GoodFrame

(* The graph a task's engine has is valid.                                 *)
LEMMA Graphs ==
    ASSUME NEW t \in Tasks
    PROVE  /\ Host[t] \in Engines /\ G(t) = GraphOf[Host[t]] /\ G(t) \in Graph
           /\ ValidGraph(G(t)) /\ G(t).entry \in G(t).names /\ G(t).names \subseteq Stages
  BY EngineAssumption DEF G, Graph, ValidGraph

LEMMA EntryGood ==
    ASSUME task \in [Tasks -> GoodFrame], NEW t \in Tasks
    PROVE  AtEntry(t) \in GoodFrame
<1>1. G(t).entry \in Stages
  BY Graphs
<1>2. task[t] \in Frame
  BY DEF GoodFrame
<1>3. AtEntry(t) \in Frame
  BY <1>1, <1>2 DEF AtEntry, Frame, Loop, Labels, Driving
<1>4. /\ AtEntry(t).pc = "top" /\ AtEntry(t).cur \in Stages
      /\ AtEntry(t).op = task[t].op /\ AtEntry(t).pending = task[t].pending
  BY <1>1, <1>2 DEF AtEntry, Frame
<1> QED
  BY <1>3, <1>4 DEF GoodFrame, Loop

LEMMA ReturnedGood ==
    ASSUME task \in [Tasks -> GoodFrame], NEW t \in Tasks
    PROVE  Returned(t) \in GoodFrame
<1> DEFINE left == IF task[t].op = "sweep" THEN task[t].pending - 1 ELSE 0
<1>1. left \in Nat
  BY DEF GoodFrame, Frame
<1>2. Idle \in Frame /\ Idle.pc = "idle"
  BY IdleGood DEF GoodFrame, Idle
<1>3. Returned(t) = [Idle EXCEPT !.pending = left, !.op = IF left > 0 THEN "sweep" ELSE "none"]
  BY DEF Returned
<1>4. Returned(t) \in Frame
  BY <1>1, <1>2, <1>3 DEF Frame, Operations
<1>5. Returned(t).pc = "idle" /\ (Returned(t).op = "sweep" => Returned(t).pending > 0)
  BY <1>1, <1>2, <1>3 DEF Frame
<1> QED
  BY <1>4, <1>5 DEF GoodFrame, Loop

(* One task moves to a good frame: what is left to show of a step.         *)
LEMMA StepTyped ==
    ASSUME Typed, JournalTyped', RunTyped', BooksTyped',
           NEW t \in Tasks, NEW f \in GoodFrame, Become(t, f),
           status # "none" => status' # "none",
           f.pc \in Inside => status' # "none"
    PROVE  Typed'
<1>1. task' \in [Tasks -> GoodFrame]
  BY DEF Typed, Become
<1>2. task'[t] = f /\ \A u \in Tasks : u # t => task'[u] = task[u]
  BY DEF Typed, Become
<1>3. Begun'
  BY <1>2 DEF Typed, Begun, pc
<1> QED
  BY <1>1, <1>3 DEF Typed

(* The same when the journal stays as it is.                               *)
LEMMA QuietStep ==
    ASSUME Typed, UNCHANGED journal, BooksTyped',
           NEW t \in Tasks, NEW f \in GoodFrame, Become(t, f),
           f.pc \in Inside => status # "none"
    PROVE  Typed'
<1>1. JournalTyped' /\ RunTyped' /\ status' = status
  BY UnchangedTyped DEF Typed, RunTyped, journal
<1> QED
  BY <1>1, StepTyped

(* And when the step is a task inside the run that leaves its row alone.   *)
LEMMA InnerStep ==
    ASSUME Typed, JournalTyped', UNCHANGED <<fingerprint, driving, bg, crashes, pauses>>,
           NEW t \in Tasks, pc(t) \in Inside,
           NEW f \in GoodFrame, Become(t, f), status' = status \/ status' \in RunStatus
    PROVE  Typed'
<1>1. status # "none" /\ status' # "none"
  BY DEF Typed, Begun, RunStatus
<1>2. RunTyped' /\ BooksTyped'
  BY <1>1 DEF Typed, RunTyped, BooksTyped
<1> QED
  BY <1>1, <1>2, StepTyped

-----------------------------------------------------------------------------
(* The steps, one by one. *)

LEMMA Books ==
    ASSUME BooksTyped, NEW t \in Tasks,
           driving' \subseteq driving \cup {Host[t]}, bg' \subseteq bg \cup {Host[t]},
           crashes' = crashes, pauses' \in 0..MaxPauses
    PROVE  BooksTyped'
  BY EngineAssumption DEF BooksTyped

LEMMA EntryTyped == ASSUME Typed, NEW t \in Tasks, Entry(t) PROVE Typed'
<1>1. CASE Run(t)
  <2> DEFINE f == [Idle EXCEPT !.pc = "start", !.op = "run"]
  <2>1. f \in GoodFrame /\ f.pc = "start"
    BY DoneTyped DEF Idle, GoodFrame, Frame, Labels, Driving, Opening, Operations, Loop
  <2>2. BooksTyped'
    BY <1>1, Books DEF Typed, BooksTyped, Run, Register, KeepBooks
  <2> QED
    BY <1>1, <2>1, <2>2, QuietStep DEF Run, Inside
<1>2. CASE Start(t)
  <2> DEFINE f == [Idle EXCEPT !.pc = "spawned", !.op = "start"]
  <2>1. f \in GoodFrame /\ f.pc \notin Inside
    BY DoneTyped DEF Inside, Idle, GoodFrame, Frame, Labels, Driving, Opening, Operations, Loop, Leaving
  <2>2. BooksTyped'
    BY <1>2, Books DEF Typed, BooksTyped, Start
  <2> QED
    BY <1>2, <2>1, <2>2, QuietStep DEF Start
<1>3. CASE Resume(t)
  <2> DEFINE f == [AtEntry(t) EXCEPT !.op = "resume"]
  <2>1. AtEntry(t) \in GoodFrame
    BY EntryGood DEF Typed
  <2>2. f \in GoodFrame
    BY <2>1 DEF GoodFrame, Frame, Operations
  <2>3. BooksTyped'
    BY <1>3, Books DEF Typed, BooksTyped, Resume, Register, KeepBooks
  <2>4. status # "none"
    BY <1>3 DEF Resume
  <2> QED
    BY <1>3, <2>2, <2>3, <2>4, QuietStep DEF Resume
<1>4. CASE Unpause(t)
  <2> DEFINE f == [Idle EXCEPT !.pc = "cas", !.op = "unpause", !.seen = "paused"]
  <2>1. f \in GoodFrame
    BY DoneTyped DEF Idle, GoodFrame, Frame, Labels, Driving, Opening, Operations, Loop, RunStatus
  <2>2. BooksTyped'
    BY <1>4, Books DEF Typed, BooksTyped, Unpause, Register, KeepBooks
  <2> QED
    BY <1>4, <2>1, <2>2, QuietStep DEF Unpause
<1>5. CASE ProvideHumanInput(t)
  <2> DEFINE f == [Idle EXCEPT !.pc = "load", !.op = "answer"]
  <2>1. f \in GoodFrame
    BY DoneTyped DEF Idle, GoodFrame, Frame, Labels, Driving, Opening, Operations, Loop
  <2>2. BooksTyped'
    BY <1>5, Books DEF Typed, BooksTyped, ProvideHumanInput, KeepBooks
  <2>3. status # "none"
    BY <1>5 DEF ProvideHumanInput
  <2> QED
    BY <1>5, <2>1, <2>2, <2>3, QuietStep DEF ProvideHumanInput
<1>6. CASE Pause(t)
  <2>1. status # "none" /\ pauses < MaxPauses /\ pauses' = pauses + 1
    BY <1>6 DEF Pause
  <2>2. BooksTyped'
    BY <1>6, <2>1, EngineAssumption DEF Typed, BooksTyped, Pause
  <2>3. CASE CasWins("running", "paused") /\ UNCHANGED task
    <3>1. JournalTyped' /\ RunTyped' /\ status' = "paused"
      BY <2>1, <2>3, SetRunStatusTyped DEF CasWins, SetRunStatus, Typed, RunTyped, RunStatus
    <3> QED
      BY <2>2, <2>3, <3>1 DEF Typed, Begun, pc
  <2>4. CASE CasLoses("running") /\ Become(t, [Idle EXCEPT !.pc = "pause", !.op = "pause"])
    <3> DEFINE f == [Idle EXCEPT !.pc = "pause", !.op = "pause"]
    <3>1. f \in GoodFrame
      BY DoneTyped DEF Idle, GoodFrame, Frame, Labels, Operations, Loop
    <3> QED
      BY <2>1, <2>2, <2>4, <3>1, QuietStep DEF CasLoses
  <2> QED
    BY <1>6, <2>3, <2>4 DEF Pause
<1>7. CASE Tick(t)
  <2> DEFINE f == [Idle EXCEPT !.op = "sweep", !.pending = Cardinality(Claimable)]
  <2>1. JournalTyped' /\ Cardinality(Claimable) \in Nat /\ Cardinality(Claimable) > 0
    BY <1>7, ClaimTyped DEF Tick, Typed
  <2>2. f \in GoodFrame /\ f.pc = "idle"
    BY <2>1, DoneTyped DEF Idle, GoodFrame, Frame, Labels, Operations, Loop
  <2>3. f.pc \notin Inside
    BY <2>2 DEF Inside, Driving, Opening, Loop, Leaving
  <2>4. BooksTyped' /\ RunTyped' /\ status' = status
    BY <1>7 DEF Typed, BooksTyped, RunTyped, Tick, KeepBooks, ClaimDueTimers
  <2> QED
    BY <1>7, <2>1, <2>2, <2>3, <2>4, StepTyped DEF Tick
<1> QED
  BY <1>1, <1>2, <1>3, <1>4, <1>5, <1>6, <1>7 DEF Entry

(* What every step of a task may use of the frame it leaves.               *)
LEMMA Here ==
    ASSUME Typed, NEW t \in Tasks
    PROVE  /\ task[t] \in GoodFrame /\ task[t].seq \in Nat /\ task[t].tries \in Nat
           /\ task[t].res \in StageResult /\ task[t].seen \in RunStatus \cup {"none"}
           /\ pc(t) \in Loop => task[t].cur \in Stages
           /\ pc(t) = "settle" => task[t].goal \in RunStatus
           /\ pc(t) = "unwait" => task[t].res.to \in Stages
           /\ Idle \in GoodFrame /\ [Idle EXCEPT !.pc = "stopped"] \in GoodFrame
           /\ AtEntry(t) \in GoodFrame /\ AtEntry(t).pc = "top"
           /\ Returned(t) \in GoodFrame /\ Returned(t).pc = "idle"
<1>1. task[t] \in GoodFrame /\ task[t] \in Frame
  BY DEF Typed, GoodFrame
<1>2. AtEntry(t).pc = "top" /\ Returned(t).pc = "idle" /\ Idle.pc = "idle"
  BY <1>1 DEF AtEntry, Returned, Idle, Frame
<1> QED
  BY <1>1, <1>2, IdleGood, EntryGood, ReturnedGood DEF Typed, GoodFrame, Frame, pc

(* A task leaves: normally, or with an exception.                          *)
LEMMA LeaveTyped ==
    ASSUME Typed, NEW t \in Tasks, UNCHANGED <<journal, crashes, pauses>>,
           Return(t) \/ Raise(t)
    PROVE  Typed'
<1>1. BooksTyped'
  BY Books DEF Return, Raise, Deregister, Typed, BooksTyped
<1>2. PICK f \in {Returned(t), Idle, [Idle EXCEPT !.pc = "stopped"]} : Become(t, f)
  BY DEF Return, Raise
<1>3. f \in GoodFrame /\ f.pc \notin Inside
  BY Here DEF Inside, Idle, Driving, Opening, Loop, Leaving
<1> QED
  BY <1>1, <1>2, <1>3, QuietStep

(* Before the loop.                                                        *)
LEMMA OpeningTyped ==
    ASSUME Typed, NEW t \in Tasks,
           \/ BackgroundRun(t) \/ StartJournal(t) \/ LoadSteps(t) \/ RecordAnswer(t)
           \/ FireTimer(t) \/ CasWon(t) \/ CasLost(t) \/ ClearFiredTimers(t) \/ PauseWaiting(t)
    PROVE  Typed'
<1>1. CASE BackgroundRun(t)
  <2>1. BooksTyped'
    BY <1>1, Books DEF BackgroundRun, Register, Typed, BooksTyped
  <2>2. PICK f \in {Idle, [task[t] EXCEPT !.pc = "start"]} : Become(t, f)
    BY <1>1 DEF BackgroundRun, Goto
  <2>3. [task[t] EXCEPT !.pc = "start"] \in GoodFrame
    BY Here, GotoGood DEF Labels, Driving, Opening, Loop
  <2>4. f \in GoodFrame /\ f.pc \in {"idle", "start"}
    BY <2>3, Here DEF Idle, GoodFrame, Frame
  <2>5. f.pc \notin Inside
    BY <2>4 DEF Inside, Driving, Opening, Loop, Leaving
  <2> QED
    BY <1>1, <2>1, <2>2, <2>4, <2>5, QuietStep DEF BackgroundRun
<1>2. CASE StartJournal(t)
  <2>1. JournalTyped' /\ status' # "none"
    BY <1>2, StartRunTyped DEF StartJournal, StartRun, Typed
  <2>2. Fingerprint(G(t)) \in {Fingerprint(GraphOf[e]) : e \in Engines}
    BY EngineAssumption DEF G
  <2>3. Fingerprint(G(t)) # NoFingerprint
    BY NoStageAssumption, Graphs DEF Fingerprint, NoFingerprint
  <2>4. RunTyped' /\ BooksTyped'
    BY <1>2, <2>2, <2>3 DEF StartJournal, StartRun, Typed, RunTyped, BooksTyped, KeepBooks
  <2> QED
    BY <1>2, <2>1, <2>4, Here, StepTyped DEF StartJournal
<1>3. CASE RecordAnswer(t)
  <2> DEFINE f == [task[t] EXCEPT !.pc = "cas"]
  <2>1. JournalTyped'
    BY <1>3, Here, RecordHumanInputTyped DEF RecordAnswer, Typed
  <2>2. f \in GoodFrame
    BY Here, GotoGood DEF Labels, Driving, Opening, Loop
  <2>3. UNCHANGED <<status, fingerprint, driving, bg, crashes, pauses>>
    BY <1>3 DEF RecordAnswer, RecordHumanInput, KeepBooks
  <2>4. pc(t) \in Inside
    BY <1>3 DEF Inside, RecordAnswer, Driving, Opening
  <2> QED
    BY <1>3, <2>1, <2>2, <2>3, <2>4, InnerStep DEF RecordAnswer, Goto
<1>4. CASE FireTimer(t)
  <2> DEFINE g == [task[t] EXCEPT !.pc = "cas", !.seen = status]
  <2>1. BooksTyped'
    BY <1>4, Books DEF FireTimer, Register, KeepBooks, Typed, BooksTyped
  <2>2. CASE status \in {"waiting", "retrying"} /\ Become(t, g)
    <3>1. status \in RunStatus
      BY <2>2 DEF RunStatus
    <3>2. g \in GoodFrame
      BY <3>1, Here, CasGood
    <3> QED
      BY <1>4, <2>1, <2>2, <3>2, QuietStep DEF FireTimer
  <2>3. CASE Become(t, [Idle EXCEPT !.pc = "stopped"]) \/ Become(t, Returned(t))
    <3>1. [Idle EXCEPT !.pc = "stopped"].pc \notin Inside /\ Returned(t).pc \notin Inside
      BY Here DEF Inside, Idle, Driving, Opening, Loop, Leaving
    <3> QED
      BY <1>4, <2>1, <2>3, <3>1, Here, QuietStep DEF FireTimer
  <2> QED
    BY <1>4, <2>2, <2>3 DEF FireTimer
<1>5. CASE CasWon(t)
  <2>1. JournalTyped' /\ status' = "running"
    BY <1>5, SetRunStatusTyped DEF CasWon, CasWins, SetRunStatus, Typed, RunStatus
  <2>2. PICK f \in {AtEntry(t), [task[t] EXCEPT !.pc = "clear"]} : Become(t, f)
    BY <1>5 DEF CasWon, Goto
  <2>3. "clear" \in Labels \ (Loop \cup {"settle"})
    BY DEF Labels, Driving, Opening, Loop
  <2>4. f \in GoodFrame
    BY <2>3, Here, GotoGood
  <2>5. pc(t) \in Inside /\ UNCHANGED <<fingerprint, driving, bg, crashes, pauses>>
    BY <1>5 DEF Inside, CasWon, CasWins, SetRunStatus, Driving, Opening, KeepBooks
  <2> QED
    BY <2>1, <2>2, <2>4, <2>5, InnerStep DEF RunStatus
<1>6. CASE CasLost(t)
  BY <1>6, LeaveTyped DEF CasLost, CasLoses
<1>7. CASE ClearFiredTimers(t)
  <2>1. JournalTyped'
    BY <1>7, CancelTyped DEF ClearFiredTimers, CancelTimersForRun, Typed
  <2>2. /\ pc(t) \in Inside
        /\ UNCHANGED <<status, fingerprint, driving, bg, crashes, pauses>>
    BY <1>7 DEF Inside, ClearFiredTimers, CancelTimersForRun, Driving, Opening, KeepBooks
  <2> QED
    BY <1>7, <2>1, <2>2, Here, InnerStep DEF ClearFiredTimers
<1>8. CASE PauseWaiting(t)
  <2>1. Become(t, Idle) /\ Idle.pc \notin Inside /\ BooksTyped'
    BY <1>8 DEF Inside, PauseWaiting, Idle, Driving, Opening, Loop, Leaving, KeepBooks, Typed, BooksTyped
  <2>2. CASE CasWins("waiting", "paused")
    <3>1. JournalTyped' /\ RunTyped' /\ status' # "none"
      BY <2>2, SetRunStatusTyped DEF CasWins, SetRunStatus, Typed, RunTyped, RunStatus
    <3> QED
      BY <2>1, <3>1, Here, StepTyped
  <2>3. CASE CasLoses("waiting")
    BY <2>1, <2>3, Here, QuietStep DEF CasLoses
  <2> QED
    BY <1>8, <2>2, <2>3 DEF PauseWaiting
<1>9. CASE LoadSteps(t)
  <2>1. BooksTyped' /\ status # "none"
    BY <1>9, Books DEF LoadSteps, Register, KeepBooks, Typed, BooksTyped, Begun, Inside
  <2>2. CASE Become(t, Idle)
    BY <1>9, <2>1, <2>2, Here, QuietStep DEF LoadSteps
  <2>3. CASE ~Become(t, Idle)
    <3>1. PICK last \in DOMAIN steps :
            Become(t, [Idle EXCEPT !.pc = "record", !.op = "answer",
                                   !.seq = last, !.seen = "awaiting_human"])
      BY <1>9, <2>3 DEF LoadSteps
    <3> DEFINE f == [Idle EXCEPT !.pc = "record", !.op = "answer",
                                 !.seq = last, !.seen = "awaiting_human"]
    <3>2. last \in Nat
      BY DEF Typed, JournalTyped, JournalTypeOK
    <3>3. f \in GoodFrame
      BY <3>2, DoneTyped
         DEF Idle, GoodFrame, Frame, Labels, Driving, Opening, Operations, Loop, RunStatus
    <3> QED
      BY <1>9, <2>1, <3>1, <3>3, QuietStep DEF LoadSteps
  <2> QED
    BY <2>2, <2>3
<1> QED
  BY <1>1, <1>2, <1>3, <1>4, <1>5, <1>6, <1>7, <1>8, <1>9

(* In the loop, up to the stage's result.                                  *)
LEMMA ReadingTyped ==
    ASSUME Typed, NEW t \in Tasks,
           \/ StepBoundary(t) \/ ReadCommitted(t) \/ ReadNothing(t) \/ CancelReplayedWait(t)
           \/ StageReturns(t) \/ StageBug(t) \/ StageFails(t)
    PROVE  Typed'
<1>0. /\ Loop \subseteq Inside
      /\ {"exit", "cleanup"} \subseteq Labels \ (Loop \cup {"settle"})
      /\ {"top", "read", "unwait", "stage", "settle"} \subseteq Loop
  BY DEF Inside, Driving, Loop, Leaving, Labels, Opening
<1>1. CASE StepBoundary(t)
  <2>1. PICK f \in {[task[t] EXCEPT !.pc = "exit"], [task[t] EXCEPT !.pc = "read"],
                    [task[t] EXCEPT !.pc = "settle", !.goal = "failed"]} : Become(t, f)
    BY <1>1 DEF StepBoundary, Goto, Settle
  <2>2. pc(t) = "top" /\ task[t].pc \in Loop
    BY <1>0, <1>1 DEF StepBoundary, pc
  <2>3. [task[t] EXCEPT !.pc = "exit"] \in GoodFrame
    BY <1>0, Here, GotoGood
  <2>4. [task[t] EXCEPT !.pc = "read"] \in GoodFrame
    BY <2>2, Here, LoopGood, ZenonT(30) DEF Loop
  <2>5. [task[t] EXCEPT !.pc = "settle", !.goal = "failed"] \in GoodFrame
    BY <2>2, Here, SettleGood, ZenonT(30) DEF RunStatus
  <2> QED
    BY <1>0, <1>1, <2>1, <2>2, <2>3, <2>4, <2>5, InnerStep, UnchangedTyped
       DEF StepBoundary, KeepBooks, Typed, journal
<1>2. CASE ReadCommitted(t)
  <2> DEFINE r == steps[task[t].seq].result
  <2>1. r \in StageResult
    BY <1>2 DEF ReadCommitted, Typed, JournalTyped, JournalTypeOK, StepRecord
  <2>2. pc(t) = "read" /\ task[t].pc \in Loop
    BY <1>0, <1>2 DEF ReadCommitted, pc
  <2>3. CASE Raise(t)
    BY <1>2, <2>3, LeaveTyped DEF ReadCommitted
  <2>4. CASE Replay(t, r) /\ UNCHANGED <<driving, bg>>
    <3>1. CASE r.kind = "wait"
      <4>1. Become(t, [task[t] EXCEPT !.pc = "unwait", !.res = r])
        BY <2>4, <3>1 DEF Replay
      <4>2. r.to \in Stages
        BY <2>1, <3>1, Results
      <4>3. [task[t] EXCEPT !.pc = "unwait", !.res = r] \in GoodFrame
        BY <2>1, <2>2, <4>2, Here, UnwaitGood
      <4> QED
        BY <1>0, <1>2, <2>2, <2>4, <4>1, <4>3, InnerStep, UnchangedTyped
           DEF ReadCommitted, Typed, journal
    <3>2. CASE r.kind # "wait" /\ Routes(r)
      <4>1. Advance(t, r.to) /\ r.to \in Stages
        BY <2>1, <2>4, <3>2, Results DEF Replay
      <4> QED
        BY <1>0, <1>2, <2>2, <2>4, <4>1, Here, AdvanceGood, InnerStep, UnchangedTyped
           DEF ReadCommitted, Advance, Typed, journal
    <3>3. CASE r.kind # "wait" /\ ~Routes(r)
      <4>1. Settle(t, EndOf(r)) /\ EndOf(r) \in RunStatus
        BY <2>4, <3>3 DEF Replay, EndOf, RunStatus
      <4> QED
        BY <1>0, <1>2, <2>2, <2>4, <4>1, Here, SettleGood, InnerStep, UnchangedTyped
           DEF ReadCommitted, Settle, Typed, journal
    <3> QED
      BY <3>1, <3>2, <3>3
  <2> QED
    BY <1>2, <2>3, <2>4 DEF ReadCommitted
<1>3. CASE ReadNothing(t)
  <2>1. pc(t) = "read" /\ task[t].pc \in Loop
    BY <1>0, <1>3 DEF ReadNothing, pc
  <2>2. [task[t] EXCEPT !.pc = "stage"] \in GoodFrame
    BY <2>1, Here, LoopGood DEF Loop
  <2> QED
    BY <1>0, <1>3, <2>1, <2>2, InnerStep, UnchangedTyped
       DEF ReadNothing, Goto, KeepBooks, Typed, journal
<1>4. CASE CancelReplayedWait(t)
  <2>1. JournalTyped' /\ task[t].res.to \in Stages
    BY <1>4, Here, CancelTyped DEF CancelReplayedWait, CancelTimer, Typed
  <2> QED
    BY <1>0, <1>4, <2>1, Here, AdvanceGood, InnerStep
       DEF CancelReplayedWait, CancelTimer, Advance, KeepBooks
<1>5. CASE StageReturns(t)
  <2>1. pc(t) = "stage" /\ task[t].pc \in Loop /\ task[t].cur \in Stages
    BY <1>0, <1>5, Here DEF StageReturns, pc
  <2>2. PICK r \in Returns[task[t].cur] :
          \/ Raise(t)
          \/ Become(t, [task[t] EXCEPT !.pc = "commit", !.res = r]) /\ UNCHANGED <<driving, bg>>
    BY <1>5 DEF StageReturns
  <2>3. r \in StageResult
    BY <2>1, EngineAssumption
  <2>4. [task[t] EXCEPT !.pc = "commit", !.res = r] \in GoodFrame
    BY <2>1, <2>3, Here, CommitGood
  <2> QED
    BY <1>0, <1>5, <2>1, <2>2, <2>4, InnerStep, UnchangedTyped, LeaveTyped
       DEF StageReturns, Typed, journal
<1>6. CASE StageBug(t)
  BY <1>6, LeaveTyped DEF StageBug
<1>7. CASE StageFails(t)
  <2>1. pc(t) = "stage" /\ task[t].pc \in Loop
    BY <1>0, <1>7 DEF StageFails, pc
  <2>2. [task[t] EXCEPT !.pc = "count"] \in GoodFrame
    BY <2>1, Here, LoopGood DEF Loop
  <2> QED
    BY <1>0, <1>7, <2>1, <2>2, InnerStep, UnchangedTyped
       DEF StageFails, Goto, KeepBooks, Typed, journal
<1> QED
  BY <1>1, <1>2, <1>3, <1>4, <1>5, <1>6, <1>7

(* In the loop, from the stage's result or failure on, and out of it.      *)
LEMMA WritingTyped ==
    ASSUME Typed, NEW t \in Tasks,
           \/ CountFailure(t) \/ ArmRetry(t) \/ Commit(t) \/ ArmWait(t)
           \/ WriteStatus(t) \/ CleanUp(t) \/ Exit(t)
    PROVE  Typed'
<1>0. /\ Loop \cup Leaving \subseteq Inside
      /\ {"exit", "cleanup"} \subseteq Labels \ (Loop \cup {"settle"})
      /\ {"count", "arm-retry", "commit", "arm-wait", "settle"} \subseteq Loop
      /\ {"failed", "retrying", "waiting", "awaiting_human"} \subseteq RunStatus
  BY DEF Inside, Driving, Loop, Leaving, Labels, Opening, RunStatus
<1>1. CASE CountFailure(t)
  <2> DEFINE s == task[t].cur
             attempt == ReadAttempt(task[t].seq) + 1
             r == Degraded(G(t).exhausted_to[s])
  <2>1. pc(t) = "count" /\ task[t].pc \in Loop /\ s \in Stages
    BY <1>0, <1>1, Here DEF CountFailure, pc
  <2>2. JournalTyped' /\ attempt \in Nat
    BY <1>1, Here, IncrementAttemptTyped DEF CountFailure, Typed
  <2>3. r \in StageResult
    BY <2>1, EngineAssumption DEF G, Graph, Degraded, StageResult
  <2>4. PICK f \in {[task[t] EXCEPT !.pc = "arm-retry", !.tries = attempt],
                    [task[t] EXCEPT !.pc = "settle", !.goal = "failed"],
                    [task[t] EXCEPT !.pc = "commit", !.res = r]} : Become(t, f)
    BY <1>1 DEF CountFailure, Settle
  <2>5. f \in GoodFrame
    <3>1. [task[t] EXCEPT !.pc = "arm-retry", !.tries = attempt] \in GoodFrame
      BY <2>1, <2>2, Here, ArmGood
    <3>2. [task[t] EXCEPT !.pc = "settle", !.goal = "failed"] \in GoodFrame
      BY <1>0, <2>1, Here, SettleGood
    <3>3. [task[t] EXCEPT !.pc = "commit", !.res = r] \in GoodFrame
      BY <2>1, <2>3, Here, CommitGood
    <3> QED
      BY <2>4, <3>1, <3>2, <3>3
  <2> QED
    BY <1>0, <1>1, <2>1, <2>2, <2>4, <2>5, InnerStep
       DEF CountFailure, IncrementAttempt, KeepBooks
<1>2. CASE ArmRetry(t)
  <2>1. pc(t) = "arm-retry" /\ task[t].pc \in Loop
    BY <1>0, <1>2 DEF ArmRetry, pc
  <2>2. RetryTimer(task[t].seq, task[t].tries) \in Nat \X Nat
    BY Here DEF RetryTimer
  <2>3. JournalTyped'
    BY <1>2, <2>2, SetTimerTyped DEF ArmRetry, Typed
  <2> QED
    BY <1>0, <1>2, <2>1, <2>3, Here, RetryingGood, InnerStep DEF ArmRetry, SetTimer, KeepBooks
<1>3. CASE Commit(t)
  <2> DEFINE r == task[t].res
             record == [stage |-> task[t].cur, result |-> r]
  <2>1. pc(t) = "commit" /\ task[t].pc \in Loop /\ r \in StageResult
    BY <1>0, <1>3, Here DEF Commit, pc
  <2>2. record \in StepRecord
    BY <1>0, <2>1, Here DEF StepRecord
  <2>3. JournalTyped' /\ UNCHANGED <<status, fingerprint, driving, bg, crashes, pauses>>
    BY <1>3, <2>2, Here, CommitStepTyped DEF Commit, CommitStep, KeepBooks, Typed
  <2>4. PICK f \in GoodFrame : Become(t, f)
    <3>1. CASE Goto(t, "arm-wait")
      BY <1>0, <2>1, <3>1, Here, LoopGood DEF Goto
    <3>2. CASE Settle(t, "awaiting_human")
      BY <1>0, <2>1, <3>2, Here, SettleGood DEF Settle
    <3>3. CASE Routes(r) /\ Advance(t, r.to)
      <4>1. r.to \in Stages
        BY <2>1, <3>3, Results
      <4> QED
        BY <3>3, <4>1, Here, AdvanceGood DEF Advance
    <3>4. CASE Settle(t, EndOf(r))
      <4>1. EndOf(r) \in RunStatus
        BY DEF EndOf, RunStatus
      <4> QED
        BY <2>1, <3>4, <4>1, Here, SettleGood DEF Settle
    <3> QED
      BY <1>3, <3>1, <3>2, <3>3, <3>4 DEF Commit
  <2> QED
    BY <1>0, <2>1, <2>3, <2>4, InnerStep
<1>4. CASE ArmWait(t)
  <2>1. pc(t) = "arm-wait" /\ task[t].pc \in Loop
    BY <1>0, <1>4 DEF ArmWait, pc
  <2>2. WaitTimer(task[t].seq) \in Nat \X Nat
    BY Here DEF WaitTimer
  <2>3. JournalTyped'
    BY <1>4, <2>2, SetTimerTyped DEF ArmWait, Typed
  <2> QED
    BY <1>0, <1>4, <2>1, <2>3, Here, SettleGood, InnerStep DEF ArmWait, Settle, SetTimer, KeepBooks
<1>5. CASE WriteStatus(t)
  <2>1. pc(t) = "settle" /\ task[t].goal \in RunStatus
    BY <1>5, Here DEF WriteStatus
  <2>2. JournalTyped' /\ status' \in RunStatus
    BY <1>5, <2>1, SetRunStatusTyped DEF WriteStatus, SetRunStatus, Typed
  <2>3. PICK f \in {[task[t] EXCEPT !.pc = "exit"], [task[t] EXCEPT !.pc = "cleanup"]} :
          Become(t, f)
    BY <1>5 DEF WriteStatus, Goto
  <2>4. f \in GoodFrame
    BY <1>0, Here, GotoGood
  <2> QED
    BY <1>0, <1>5, <2>1, <2>2, <2>3, <2>4, InnerStep DEF WriteStatus, SetRunStatus, KeepBooks
<1>6. CASE CleanUp(t)
  <2>1. JournalTyped' /\ pc(t) \in Leaving
    BY <1>6, CancelTyped DEF CleanUp, CancelTimersForRun, Typed, Leaving
  <2>2. [task[t] EXCEPT !.pc = "exit"] \in GoodFrame
    BY <1>0, Here, GotoGood
  <2> QED
    BY <1>0, <1>6, <2>1, <2>2, InnerStep DEF CleanUp, CancelTimersForRun, Goto, KeepBooks
<1>7. CASE Exit(t)
  BY <1>7, LeaveTyped DEF Exit
<1> QED
  BY <1>1, <1>2, <1>3, <1>4, <1>5, <1>6, <1>7

LEMMA CrashTyped == ASSUME Typed, NEW e \in Engines, Crash(e) PROVE Typed'
<1>1. JournalTyped' /\ RunTyped' /\ status' = status
  BY UnchangedTyped DEF Crash, Typed, RunTyped, journal
<1>2. BooksTyped'
  BY EngineAssumption DEF Crash, Typed, BooksTyped
<1>3. task' \in [Tasks -> GoodFrame] /\ \A t \in Tasks : task'[t] \in {Idle, task[t]}
  BY IdleGood DEF Crash, Typed
<1>4. Idle.pc \notin Inside
  BY DEF Inside, Idle, Driving, Opening, Loop, Leaving
<1>5. Begun'
  BY <1>1, <1>3, <1>4 DEF Begun, pc, Typed
<1> QED
  BY <1>1, <1>2, <1>3, <1>5 DEF Typed

LEMMA ClockTyped == ASSUME Typed, Time PROVE Typed'
<1>1. JournalTyped' /\ UNCHANGED <<status, fingerprint>>
  BY TimeTyped DEF Time, TimerFallsDue, LeaseGoesStale, Typed
<1> QED
  BY <1>1 DEF Time, Typed, RunTyped, BooksTyped, Begun, pc

LEMMA InitTyped == Init => Typed
<1> SUFFICES ASSUME Init PROVE Typed
  OBVIOUS
<1>1. JournalTyped /\ RunTyped
  BY FS_EmptySet DEF Init, JournalInit, EmptyTable, JournalTyped, JournalTypeOK, RunTyped
<1>2. BooksTyped
  BY EngineAssumption DEF Init, BooksTyped
<1>3. task \in [Tasks -> GoodFrame] /\ Begun
  BY IdleGood DEF Init, Begun, Inside, pc, Idle, Driving, Opening, Loop, Leaving
<1> QED
  BY <1>1, <1>2, <1>3 DEF Typed

LEMMA StepKeepsTyped == Typed /\ [Next]_vars => Typed'
<1> SUFFICES ASSUME Typed, [Next]_vars PROVE Typed'
  OBVIOUS
<1>1. CASE UNCHANGED vars
  <2>1. JournalTyped' /\ RunTyped' /\ BooksTyped' /\ Begun'
    BY <1>1, UnchangedTyped DEF vars, journal, Typed, RunTyped, BooksTyped, Begun, pc
  <2> QED
    BY <1>1, <2>1 DEF vars, Typed
<1>2. CASE Next
  BY <1>2, EntryTyped, OpeningTyped, ReadingTyped, WritingTyped, CrashTyped, ClockTyped
     DEF Next, Progress
<1> QED
  BY <1>1, <1>2

(* Whatever the graphs, the fleet and its calls, the model's variables     *)
(* keep their types: what resume replays is a committed record, what a     *)
(* drive is about to write is a run status, and no drive is inside a run   *)
(* whose row does not exist.                                               *)
THEOREM Typing == Spec => []TypeOK
<1>1. Typed => TypeOK
  BY DEF Typed, TypeOK, JournalTyped, RunTyped, BooksTyped, GoodFrame
<1> QED
  BY <1>1, InitTyped, StepKeepsTyped, PTL DEF Spec

-----------------------------------------------------------------------------
(* The in-process mutex. *)

Mutex == Typed /\ InProcessMutex

(* A task moves, and stays inside a drive or outside of one.               *)
LEMMA Stay ==
    ASSUME Mutex, NEW t \in Tasks, NEW f, Become(t, f), driving' = driving,
           f.pc \in Driving <=> pc(t) \in Driving
    PROVE  InProcessMutex'
<1>1. \A u \in Tasks : pc(u)' \in Driving <=> pc(u) \in Driving
  BY ZenonT(30) DEF Mutex, Typed, Become, pc
<1> QED
  BY <1>1 DEF Mutex, InProcessMutex

(* It moves on inside its drive.                                           *)
LEMMA Onward ==
    ASSUME Mutex, NEW t \in Tasks, UNCHANGED driving, pc(t) \in Driving,
           \/ \E l \in Driving : Goto(t, l)
           \/ \E s : Settle(t, s)
           \/ \E s : Advance(t, s)
           \/ Become(t, AtEntry(t))
           \/ \E r : Become(t, [task[t] EXCEPT !.pc = "unwait", !.res = r])
           \/ \E r : Become(t, [task[t] EXCEPT !.pc = "commit", !.res = r])
           \/ \E n : Become(t, [task[t] EXCEPT !.pc = "arm-retry", !.tries = n])
           \/ Become(t, [task[t] EXCEPT !.pc = "settle", !.goal = "retrying", !.tries = 0])
    PROVE  InProcessMutex'
<1>1. task[t] \in Frame /\ AtEntry(t).pc = "top"
  BY Here DEF Mutex, GoodFrame
<1>2. {"settle", "top", "unwait", "commit", "arm-retry"} \subseteq Driving
  BY DEF Driving, Loop
<1>3. CASE \E l \in Driving : Goto(t, l)
  <2>1. PICK l \in Driving : Become(t, [task[t] EXCEPT !.pc = l])
    BY <1>3 DEF Goto
  <2> QED
    BY <1>1, <2>1, Stay DEF Frame
<1>4. CASE \E s : Settle(t, s)
  <2>1. PICK s : Become(t, [task[t] EXCEPT !.pc = "settle", !.goal = s])
    BY <1>4 DEF Settle
  <2> QED
    BY <1>1, <1>2, <2>1, Stay DEF Frame
<1>5. CASE \E s : Advance(t, s)
  <2>1. PICK s : Become(t, [task[t] EXCEPT !.pc = "top", !.seq = @ + 1, !.cur = s, !.res = Done])
    BY <1>5 DEF Advance
  <2> QED
    BY <1>1, <1>2, <2>1, Stay DEF Frame
<1>6. CASE Become(t, AtEntry(t))
  BY <1>1, <1>2, <1>6, Stay
<1>7. CASE \E r : Become(t, [task[t] EXCEPT !.pc = "unwait", !.res = r])
  BY <1>1, <1>2, <1>7, Stay DEF Frame
<1>8. CASE \E r : Become(t, [task[t] EXCEPT !.pc = "commit", !.res = r])
  BY <1>1, <1>2, <1>8, Stay DEF Frame
<1>9. CASE \E n : Become(t, [task[t] EXCEPT !.pc = "arm-retry", !.tries = n])
  BY <1>1, <1>2, <1>9, Stay DEF Frame
<1>10. CASE Become(t, [task[t] EXCEPT !.pc = "settle", !.goal = "retrying", !.tries = 0])
  BY <1>1, <1>2, <1>10, Stay DEF Frame
<1> QED
  BY <1>3, <1>4, <1>5, <1>6, <1>7, <1>8, <1>9, <1>10, ZenonT(40)

(* It enters a drive of an engine that has none.                           *)
LEMMA Enter ==
    ASSUME Mutex, NEW t \in Tasks, NEW f, Become(t, f), Register(t),
           f.pc \in Driving, ~Driven(t)
    PROVE  InProcessMutex'
<1>1. Host[t] \in Engines /\ \A u \in Tasks : pc(u) \in Driving => Host[u] # Host[t]
  BY EngineAssumption DEF Mutex, InProcessMutex, Driven
<1>2. \A u \in Tasks : pc(u)' \in Driving <=> (u = t \/ pc(u) \in Driving)
  BY DEF Mutex, Typed, Become, pc
<1> QED
  BY <1>1, <1>2 DEF Mutex, InProcessMutex, Register

(* It leaves its drive.                                                    *)
LEMMA Leave ==
    ASSUME Mutex, NEW t \in Tasks, pc(t) \in Driving, Return(t) \/ Raise(t)
    PROVE  InProcessMutex'
<1>1. PICK f \in {Returned(t), Idle, [Idle EXCEPT !.pc = "stopped"]} : Become(t, f)
  BY DEF Return, Raise
<1>2. f.pc \notin Driving
  BY Here DEF Mutex, Idle, Driving, Opening, Loop, Leaving
<1>3. driving' = driving \ {Host[t]}
  BY DEF Return, Raise, Deregister
<1>4. \A u \in Tasks : pc(u)' \in Driving <=> (u # t /\ pc(u) \in Driving)
  BY <1>1, <1>2 DEF Mutex, Typed, Become, pc
<1> QED
  BY <1>3, <1>4 DEF Mutex, InProcessMutex

LEMMA EntryMutex == ASSUME Mutex, NEW t \in Tasks, Entry(t) PROVE InProcessMutex'
<1>0. "idle" \notin Driving /\ {"start", "cas", "record", "top"} \subseteq Driving
      /\ "spawned" \notin Driving /\ "pause" \notin Driving /\ "load" \notin Driving
  BY DEF Driving, Opening, Loop, Leaving
<1>1. CASE Run(t)
  BY <1>0, <1>1, Enter DEF Run, Idle
<1>2. CASE Start(t)
  BY <1>0, <1>2, Stay DEF Start, Ready, Idle
<1>3. CASE Resume(t)
  <2>1. AtEntry(t).pc = "top"
    BY Here DEF Mutex
  <2>2. [AtEntry(t) EXCEPT !.op = "resume"].pc = "top"
    BY <2>1, Here DEF Mutex, GoodFrame, Frame
  <2> QED
    BY <1>0, <1>3, <2>2, Enter DEF Resume
<1>4. CASE Unpause(t)
  BY <1>0, <1>4, Enter DEF Unpause, Idle
<1>5. CASE ProvideHumanInput(t)
  BY <1>0, <1>5, Stay DEF ProvideHumanInput, Ready, Idle
<1>6. CASE Pause(t)
  <2>1. CASE UNCHANGED task
    BY <1>6, <2>1 DEF Pause, Mutex, InProcessMutex, pc
  <2>2. CASE Become(t, [Idle EXCEPT !.pc = "pause", !.op = "pause"])
    BY <1>0, <1>6, <2>2, Stay DEF Pause, Ready, Idle
  <2> QED
    BY <1>6, <2>1, <2>2 DEF Pause
<1>7. CASE Tick(t)
  BY <1>0, <1>7, Stay DEF Tick, Ready, Idle
<1> QED
  BY <1>1, <1>2, <1>3, <1>4, <1>5, <1>6, <1>7 DEF Entry

LEMMA ProgressMutex == ASSUME Mutex, NEW t \in Tasks, Progress(t) PROVE InProcessMutex'
<1>0. /\ "idle" \notin Driving /\ "spawned" \notin Driving /\ "pause" \notin Driving
      /\ "stopped" \notin Driving /\ "load" \notin Driving
      /\ {"start", "record", "cas", "clear", "top", "read", "unwait", "stage", "count",
          "arm-retry", "commit", "arm-wait", "settle", "cleanup", "exit"} \subseteq Driving
  BY DEF Driving, Opening, Loop, Leaving
<1>f. task[t] \in Frame
  BY DEF Mutex, Typed, GoodFrame
<1>1. CASE BackgroundRun(t)
  <2>1. CASE Driven(t)
    BY <1>0, <1>1, <2>1, Stay DEF BackgroundRun, Idle
  <2>2. CASE ~Driven(t)
    <3>1. [task[t] EXCEPT !.pc = "start"].pc = "start"
      BY <1>f DEF Frame
    <3> QED
      BY <1>0, <1>1, <2>2, <3>1, Enter DEF BackgroundRun, Goto
  <2> QED
    BY <2>1, <2>2
<1>2. CASE FireTimer(t)
  <2>1. CASE Become(t, [Idle EXCEPT !.pc = "stopped"]) /\ UNCHANGED driving
    BY <1>0, <1>2, <2>1, Stay DEF FireTimer, Idle
  <2>2. CASE /\ ~Driven(t) /\ Register(t)
             /\ Become(t, [task[t] EXCEPT !.pc = "cas", !.seen = status])
    <3>1. [task[t] EXCEPT !.pc = "cas", !.seen = status].pc = "cas"
      BY <1>f DEF Frame
    <3> QED
      BY <1>0, <2>2, <3>1, Enter
  <2>3. CASE Become(t, Returned(t)) /\ UNCHANGED driving
    <3>1. Returned(t).pc = "idle"
      BY Here DEF Mutex
    <3> QED
      BY <1>0, <1>2, <2>3, <3>1, Stay DEF FireTimer
  <2> QED
    BY <1>2, <2>1, <2>2, <2>3 DEF FireTimer
<1>3. CASE CasLost(t) \/ Exit(t)
  BY <1>0, <1>3, Leave DEF CasLost, Exit
<1>4. CASE StageBug(t)
  BY <1>0, <1>4, Leave DEF StageBug
<1>5. CASE ReadCommitted(t) /\ Raise(t)
  BY <1>0, <1>5, Leave DEF ReadCommitted
<1>6. CASE StageReturns(t) /\ Raise(t)
  BY <1>0, <1>6, Leave DEF StageReturns
<1>7. CASE PauseWaiting(t)
  BY <1>0, <1>7, Stay DEF PauseWaiting, KeepBooks, Idle
<1>8. CASE StartJournal(t) \/ CasWon(t) \/ ClearFiredTimers(t) \/ RecordAnswer(t)
  <2>1. CASE StartJournal(t)
    BY <1>0, <2>1, Onward, ZenonT(40) DEF StartJournal
  <2>2. CASE CasWon(t)
    BY <1>0, <2>2, Onward, ZenonT(40) DEF CasWon
  <2>3. CASE ClearFiredTimers(t)
    BY <1>0, <2>3, Onward, ZenonT(40) DEF ClearFiredTimers
  <2>4. CASE RecordAnswer(t)
    BY <1>0, <2>4, Onward, ZenonT(40) DEF RecordAnswer
  <2> QED
    BY <1>8, <2>1, <2>2, <2>3, <2>4, ZenonT(40)
<1>9. CASE StepBoundary(t) \/ ReadNothing(t) \/ StageFails(t) \/ CancelReplayedWait(t)
  <2>1. CASE StepBoundary(t)
    BY <1>0, <2>1, Onward, ZenonT(40) DEF StepBoundary
  <2>2. CASE ReadNothing(t)
    BY <1>0, <2>2, Onward, ZenonT(40) DEF ReadNothing
  <2>3. CASE StageFails(t)
    BY <1>0, <2>3, Onward, ZenonT(40) DEF StageFails
  <2>4. CASE CancelReplayedWait(t)
    BY <1>0, <2>4, Onward, ZenonT(40) DEF CancelReplayedWait
  <2> QED
    BY <1>9, <2>1, <2>2, <2>3, <2>4
<1>11. CASE StageReturns(t) /\ ~Raise(t)
  BY <1>0, <1>11, Onward, ZenonT(40) DEF StageReturns
<1>12. CASE CountFailure(t) \/ ArmRetry(t)
  <2>1. CASE CountFailure(t)
    BY <1>0, <2>1, Onward, ZenonT(40) DEF CountFailure
  <2>2. CASE ArmRetry(t)
    BY <1>0, <2>2, Onward, ZenonT(40) DEF ArmRetry
  <2> QED
    BY <1>12, <2>1, <2>2, ZenonT(40)
<1>13. CASE Commit(t) \/ ArmWait(t)
  <2>1. CASE Commit(t)
    BY <1>0, <2>1, Onward, ZenonT(40) DEF Commit
  <2>2. CASE ArmWait(t)
    BY <1>0, <2>2, Onward, ZenonT(40) DEF ArmWait
  <2> QED
    BY <1>13, <2>1, <2>2
<1>14. CASE WriteStatus(t) \/ CleanUp(t)
  <2>1. CASE WriteStatus(t)
    BY <1>0, <2>1, Onward, ZenonT(40) DEF WriteStatus
  <2>2. CASE CleanUp(t)
    BY <1>0, <2>2, Onward, ZenonT(40) DEF CleanUp
  <2> QED
    BY <1>14, <2>1, <2>2
<1>10. CASE ReadCommitted(t) /\ ~Raise(t)
  <2>1. \E r : Replay(t, r)
    BY <1>10 DEF ReadCommitted
  <2> QED
    BY <1>0, <1>10, <2>1, Onward DEF ReadCommitted, Replay
<1>15. CASE LoadSteps(t)
  <2>1. CASE Driven(t)
    BY <1>0, <1>15, <2>1, Stay DEF LoadSteps, Idle
  <2>2. CASE ~Driven(t)
    <3>1. PICK last \in DOMAIN steps :
            Become(t, [Idle EXCEPT !.pc = "record", !.op = "answer",
                                   !.seq = last, !.seen = "awaiting_human"])
      BY <1>15, <2>2 DEF LoadSteps
    <3> QED
      BY <1>0, <1>15, <2>2, <3>1, Enter DEF LoadSteps, Idle
  <2> QED
    BY <2>1, <2>2
<1> QED
  BY <1>1, <1>2, <1>3, <1>4, <1>5, <1>6, <1>7, <1>8, <1>9, <1>11, <1>12, <1>13, <1>14,
     <1>10, <1>15 DEF Progress

LEMMA CrashMutex == ASSUME Mutex, NEW e \in Engines, Crash(e) PROVE InProcessMutex'
<1>1. Idle.pc \notin Driving
  BY DEF Idle, Driving, Opening, Loop, Leaving
<1>2. \A t \in Tasks : pc(t)' \in Driving <=> (Host[t] # e /\ pc(t) \in Driving)
  BY <1>1 DEF Crash, pc
<1> QED
  BY <1>2 DEF Crash, Mutex, InProcessMutex

LEMMA MutexKept == Mutex /\ [Next]_vars => Mutex'
<1> SUFFICES ASSUME Mutex, [Next]_vars PROVE InProcessMutex'
  BY StepKeepsTyped DEF Mutex
<1>1. CASE UNCHANGED vars
  BY <1>1 DEF vars, Mutex, InProcessMutex, pc
<1>2. CASE Time
  BY <1>2 DEF Time, Mutex, InProcessMutex, pc
<1> QED
  BY <1>1, <1>2, EntryMutex, ProgressMutex, CrashMutex DEF Next

(* An engine's set of driven runs is exactly the truth, and no two         *)
(* coroutines of one engine are ever inside the run at once: for any       *)
(* number of engines and tasks, whatever they call, in whatever order      *)
(* their awaits return, through any number of crashes.                     *)
THEOREM MutualExclusion == Spec => []InProcessMutex
<1>1. Init => Mutex
  <2> SUFFICES ASSUME Init PROVE InProcessMutex
    BY InitTyped DEF Mutex
  <2> QED
    BY DEF Init, InProcessMutex, pc, Idle, Driving, Opening, Loop, Leaving
<1>2. Mutex => InProcessMutex
  BY DEF Mutex
<1> QED
  BY <1>1, <1>2, MutexKept, PTL DEF Spec

-----------------------------------------------------------------------------
(* Part 2: what the committed steps of a run amount to. *)

OneProcess == \A d, e \in Engines : d = e

(* A table keeps every row it has.                                         *)
Keeps(table, later) ==
    \A i \in DOMAIN table : i \in DOMAIN later /\ later[i] = table[i]

LEMMA InsertKeeps ==
    ASSUME NEW table, NEW key, NEW row, key \notin DOMAIN table
    PROVE  Keeps(table, Insert(table, key, row))
  BY DEF Insert, Keeps

(* A step commits at most one record, at the position of the drive that    *)
(* makes it, and touches no other; answers likewise.                       *)
LEMMA StepKeeps ==
    ASSUME [Next]_vars PROVE Keeps(steps, steps') /\ Keeps(answers, answers')
<1>1. CASE UNCHANGED <<steps, answers>>
  BY <1>1 DEF Keeps
<1>2. ASSUME NEW i, NEW r, CommitStep(i, r)
      PROVE  Keeps(steps, steps') /\ Keeps(answers, answers')
  <2>1. steps' = steps \/ (i \notin DOMAIN steps /\ steps' = Insert(steps, i, r))
    BY <1>2 DEF CommitStep
  <2>2. Keeps(steps, steps')
    BY <2>1, InsertKeeps DEF Keeps
  <2> QED
    BY <1>2, <2>2 DEF CommitStep, Keeps
<1>3. ASSUME NEW i, NEW a, RecordHumanInput(i, a)
      PROVE  Keeps(steps, steps') /\ Keeps(answers, answers')
  <2>1. answers' = answers \/ (i \notin DOMAIN answers /\ answers' = Insert(answers, i, a))
    BY <1>3 DEF RecordHumanInput
  <2>2. Keeps(answers, answers')
    BY <2>1, InsertKeeps DEF Keeps
  <2> QED
    BY <1>3, <2>2 DEF RecordHumanInput, Keeps
<1>4. ASSUME NEW t \in Tasks, Entry(t) PROVE UNCHANGED <<steps, answers>>
  BY <1>4 DEF Entry, Run, Start, Resume, Unpause, ProvideHumanInput, Pause, Tick, journal,
              CasWins, CasLoses, SetRunStatus, ClaimDueTimers
<1>5. ASSUME NEW t \in Tasks, Progress(t)
      PROVE  Keeps(steps, steps') /\ Keeps(answers, answers')
  <2>1. CASE BackgroundRun(t) \/ StartJournal(t) \/ LoadSteps(t) \/ FireTimer(t) \/ CasWon(t) \/ CasLost(t)
             \/ ClearFiredTimers(t) \/ PauseWaiting(t)
    BY <1>1, <2>1 DEF BackgroundRun, StartJournal, LoadSteps, FireTimer, CasWon, CasLost,
       ClearFiredTimers, PauseWaiting, journal, CasWins, CasLoses, SetRunStatus,
       StartRun, CancelTimersForRun
  <2>2. CASE StepBoundary(t) \/ ReadCommitted(t) \/ ReadNothing(t) \/ CancelReplayedWait(t)
             \/ StageReturns(t) \/ StageBug(t) \/ StageFails(t)
    BY <1>1, <2>2 DEF StepBoundary, ReadCommitted, ReadNothing, CancelReplayedWait,
       StageReturns, StageBug, StageFails, journal, CancelTimer
  <2>3. CASE CountFailure(t) \/ ArmRetry(t) \/ ArmWait(t) \/ WriteStatus(t) \/ CleanUp(t)
             \/ Exit(t)
    BY <1>1, <2>3 DEF CountFailure, ArmRetry, ArmWait, WriteStatus, CleanUp, Exit, journal,
       IncrementAttempt, SetTimer, SetRunStatus, CancelTimersForRun
  <2>4. CASE Commit(t)
    BY <1>2, <2>4 DEF Commit
  <2>5. CASE RecordAnswer(t)
    BY <1>3, <2>5 DEF RecordAnswer
  <2> QED
    BY <1>5, <2>1, <2>2, <2>3, <2>4, <2>5 DEF Progress
<1>6. ASSUME NEW e \in Engines, Crash(e) PROVE UNCHANGED <<steps, answers>>
  BY <1>6 DEF Crash, journal
<1>7. Time => UNCHANGED <<steps, answers>>
  BY DEF Time, TimerFallsDue, LeaseGoesStale
<1>8. UNCHANGED vars => UNCHANGED <<steps, answers>>
  BY DEF vars, journal
<1> QED
  BY <1>1, <1>4, <1>5, <1>6, <1>7, <1>8 DEF Next

(* The log is append-only and an answer is final: no retry, replay,        *)
(* duplicate answer or crashed drive, of any process, rewrites or loses a  *)
(* committed step or a recorded answer.                                    *)
THEOREM LogIsDurable == Spec => WrittenOnce
<1>1. [Next]_vars =>
        [/\ \A i \in DOMAIN steps : i \in DOMAIN steps' /\ steps'[i] = steps[i]
         /\ \A i \in DOMAIN answers : i \in DOMAIN answers' /\ answers'[i] = answers[i]]_vars
  BY StepKeeps DEF Keeps
<1> QED
  BY <1>1, PTL DEF Spec, WrittenOnce

-----------------------------------------------------------------------------
(* The walk.  A drive inside the loop has only committed positions behind  *)
(* it, stands where the last of them sent it, and from the moment it runs  *)
(* a stage until it commits has no committed position at or ahead of it.   *)

Fresh(f) == f.pc \in {"stage", "count", "arm-retry", "commit"} => f.seq \notin DOMAIN steps

Stands(f) ==
    /\ f.cur \in DOMAIN fingerprint.edges
    /\ \A j \in 0..(f.seq - 1) : j \in DOMAIN steps
    /\ f.cur = IF f.seq = 0 THEN fingerprint.entry ELSE steps[f.seq - 1].result.to

HoldsReplayed(f) ==
    f.seq \in DOMAIN steps /\ steps[f.seq].result = f.res
        /\ f.res.to \in DOMAIN fingerprint.edges

HoldsDeclared(f) == Routes(f.res) => f.res.to \in fingerprint.edges[f.cur]

Placed(f) ==
    /\ f.pc \in Loop => Stands(f)
    /\ f.pc = "unwait" => HoldsReplayed(f)
    /\ f.pc = "commit" => HoldsDeclared(f)

Walk ==
    /\ Mutex
    /\ \A t \in Tasks : Fresh(task[t]) /\ Placed(task[t])
    /\ LogIsWalk
    /\ status = "none" => DOMAIN steps = {}

(* One drive at a time, and every drive has the graph on record.           *)
Sole ==
    /\ SingleDriver
    /\ \A t \in Tasks : status # "none" /\ pc(t) \in Loop \cup {"start", "cas", "clear"}
                           => SameFingerprint(t)

(* Among the engines of one process it cannot be otherwise.                *)
LEMMA OneProcessSole == ASSUME OneProcess, Mutex PROVE Sole
<1>1. SingleDriver
  BY EngineAssumption
     DEF SingleDriver, OneProcess, Mutex, InProcessMutex, Driving
<1>2. ASSUME NEW t \in Tasks, status # "none" PROVE SameFingerprint(t)
  BY <1>2, Graphs DEF Mutex, Typed, RunTyped, OneProcess, SameFingerprint
<1> QED
  BY <1>1, <1>2 DEF Sole

(* What the fingerprint on record says of a graph that has it.             *)
LEMMA OnRecord ==
    ASSUME NEW t \in Tasks, SameFingerprint(t)
    PROVE  /\ fingerprint.entry = G(t).entry
           /\ DOMAIN fingerprint.edges = G(t).names
           /\ G(t).entry \in G(t).names
           /\ \A s \in G(t).names : /\ fingerprint.edges[s] = Edges(G(t), s)
                                   /\ fingerprint.edges[s] \subseteq G(t).names
<1> QED
  BY Graphs DEF SameFingerprint, Fingerprint, ValidGraph

(* A step that writes no record, to a frame that is well placed.           *)
LEMMA WalksOn ==
    ASSUME Walk, Mutex', UNCHANGED <<steps, fingerprint>>, status' = "none" => status = "none",
           NEW t \in Tasks, NEW f, Become(t, f), Fresh(f), Placed(f)
    PROVE  Walk'
<1>1. \A u \in Tasks : task'[u] \in {task[u], f}
  BY DEF Become, Walk, Mutex, Typed
<1>2. \A u \in Tasks : Fresh(task[u])' /\ Placed(task[u])'
  <2> TAKE u \in Tasks
  <2>1. CASE task'[u] = task[u]
    BY <2>1 DEF Walk, Fresh, Placed, Stands, HoldsReplayed, HoldsDeclared
  <2>2. CASE task'[u] = f
    BY <2>2 DEF Fresh, Placed, Stands, HoldsReplayed, HoldsDeclared
  <2> QED
    BY <1>1, <2>1, <2>2
<1>3. LogIsWalk'
  BY DEF Walk, LogIsWalk
<1> QED
  BY <1>2, <1>3 DEF Walk

(* A frame outside of the loop.                                            *)
LEMMA OutsideWalks ==
    ASSUME Walk, Mutex', UNCHANGED <<steps, fingerprint>>, status' = "none" => status = "none",
           NEW t \in Tasks, NEW f, Become(t, f), f.pc \notin Loop
    PROVE  Walk'
<1>1. Fresh(f) /\ Placed(f)
  BY DEF Fresh, Placed, Loop
<1> QED
  BY <1>1, WalksOn

(* A frame that goes on at the same position of the loop.                  *)
LEMMA SamePlace ==
    ASSUME NEW f, NEW g, f.pc \in Loop, Placed(f), g.seq = f.seq, g.cur = f.cur,
           g.pc \notin {"unwait", "commit"}
    PROVE  Placed(g)
  BY DEF Placed, Stands

(* A frame sent on from a committed position.                              *)
LEMMA NextPlace ==
    ASSUME Typed, NEW f \in GoodFrame, f.pc \in Loop, Placed(f),
           f.seq \in DOMAIN steps, NEW s \in DOMAIN fingerprint.edges,
           steps[f.seq].result.to = s
    PROVE  LET g == [f EXCEPT !.pc = "top", !.seq = @ + 1, !.cur = s, !.res = Done]
           IN  Placed(g) /\ Fresh(g)
<1> DEFINE g == [f EXCEPT !.pc = "top", !.seq = @ + 1, !.cur = s, !.res = Done]
<1>1. f.seq \in Nat /\ f \in Frame
  BY DEF GoodFrame, Frame
<1>2. g.pc = "top" /\ g.seq = f.seq + 1 /\ g.cur = s
  BY <1>1 DEF Frame
<1>3. \A j \in 0..(g.seq - 1) : j \in DOMAIN steps
  BY <1>1, <1>2 DEF Placed, Stands
<1>4. Stands(g)
  BY <1>1, <1>2, <1>3 DEF Stands
<1> QED
  BY <1>2, <1>4 DEF Placed, Fresh

(* The first iteration.                                                    *)
LEMMA EntryPlace ==
    ASSUME NEW t \in Tasks, SameFingerprint(t), NEW f \in Frame,
           f.pc = "top", f.seq = 0, f.cur = G(t).entry
    PROVE  Placed(f) /\ Fresh(f)
<1>1. \A j \in 0..(f.seq - 1) : j \in DOMAIN steps
  OBVIOUS
<1> QED
  BY <1>1, OnRecord DEF Placed, Stands, Fresh

-----------------------------------------------------------------------------
(* The steps. *)

LEMMA EntryWalks ==
    ASSUME Walk, Mutex', NEW t \in Tasks, Entry(t) PROVE Walk'
<1>0. {"idle", "start", "spawned", "cas", "load", "pause"} \cap Loop = {}
  BY DEF Loop
<1>1. CASE Run(t)
  BY <1>0, <1>1, OutsideWalks DEF Run, Idle, journal
<1>2. CASE Start(t)
  BY <1>0, <1>2, OutsideWalks DEF Start, Idle, journal
<1>3. CASE Resume(t)
  <2> DEFINE f == [AtEntry(t) EXCEPT !.op = "resume"]
  <2>1. AtEntry(t) \in Frame /\ task[t] \in Frame
    BY Here DEF Walk, Mutex, GoodFrame
  <2>2. f \in Frame /\ f.pc = "top" /\ f.seq = 0 /\ f.cur = G(t).entry
    BY <2>1 DEF AtEntry, Frame, Operations
  <2>3. Placed(f) /\ Fresh(f)
    BY <1>3, <2>2, EntryPlace DEF Resume
  <2> QED
    BY <1>3, <2>3, WalksOn DEF Resume, journal
<1>4. CASE Unpause(t)
  BY <1>0, <1>4, OutsideWalks DEF Unpause, Idle, journal
<1>5. CASE ProvideHumanInput(t)
  BY <1>0, <1>5, OutsideWalks DEF ProvideHumanInput, Idle, journal
<1>6. CASE Pause(t)
  <2>1. UNCHANGED <<steps, fingerprint>> /\ (status' = "none" => status = "none")
    BY <1>6 DEF Pause, CasWins, CasLoses, SetRunStatus, journal
  <2>2. CASE UNCHANGED task
    <3>1. \A u \in Tasks : Fresh(task[u])' /\ Placed(task[u])'
      BY <2>1, <2>2 DEF Walk, Fresh, Placed, Stands, HoldsReplayed, HoldsDeclared
    <3> QED
      BY <2>1, <3>1 DEF Walk, LogIsWalk
  <2>3. CASE Become(t, [Idle EXCEPT !.pc = "pause", !.op = "pause"])
    BY <1>0, <2>1, <2>3, OutsideWalks DEF Idle
  <2> QED
    BY <1>6, <2>2, <2>3 DEF Pause
<1>7. CASE Tick(t)
  BY <1>0, <1>7, OutsideWalks DEF Tick, ClaimDueTimers, Idle
<1> QED
  BY <1>1, <1>2, <1>3, <1>4, <1>5, <1>6, <1>7 DEF Entry

LEMMA LeaveWalks ==
    ASSUME Walk, Mutex', NEW t \in Tasks, UNCHANGED <<steps, fingerprint, status>>,
           Return(t) \/ Raise(t)
    PROVE  Walk'
<1>1. PICK f \in {Returned(t), Idle, [Idle EXCEPT !.pc = "stopped"]} : Become(t, f)
  BY DEF Return, Raise
<1>2. f.pc \notin Loop
  BY Here DEF Walk, Mutex, Idle, Loop
<1> QED
  BY <1>1, <1>2, OutsideWalks

LEMMA OpeningWalks ==
    ASSUME Sole, Walk, Mutex', NEW t \in Tasks,
           \/ BackgroundRun(t) \/ StartJournal(t) \/ LoadSteps(t) \/ RecordAnswer(t)
           \/ FireTimer(t) \/ CasWon(t) \/ CasLost(t) \/ ClearFiredTimers(t) \/ PauseWaiting(t)
    PROVE  Walk'
<1>0. {"idle", "start", "record", "cas", "clear", "stopped"} \cap Loop = {}
  BY DEF Loop
<1>f. /\ task[t] \in Frame /\ AtEntry(t) \in Frame /\ AtEntry(t).pc = "top"
      /\ AtEntry(t).seq = 0 /\ AtEntry(t).cur = G(t).entry /\ Returned(t).pc = "idle"
  <2>1. task[t] \in Frame /\ AtEntry(t) \in Frame /\ Returned(t).pc = "idle"
    BY Here DEF Walk, Mutex, GoodFrame
  <2> QED
    BY <2>1 DEF AtEntry, Frame
<1>1. CASE BackgroundRun(t)
  <2>1. PICK f \in {Idle, [task[t] EXCEPT !.pc = "start"]} : Become(t, f)
    BY <1>1 DEF BackgroundRun, Goto
  <2>2. f.pc \notin Loop
    BY <1>0, <1>f DEF Idle, Frame
  <2> QED
    BY <1>1, <2>1, <2>2, OutsideWalks DEF BackgroundRun, journal
<1>2. CASE StartJournal(t)
  <2>1. status' # "none" /\ UNCHANGED steps
    BY <1>2 DEF StartJournal, StartRun
  <2>2. CASE status # "none"
    <3>1. Placed(AtEntry(t)) /\ Fresh(AtEntry(t))
      BY <1>2, <1>f, <2>2, EntryPlace DEF Sole, StartJournal
    <3> QED
      BY <1>2, <2>1, <2>2, <3>1, WalksOn DEF StartJournal, StartRun
  <2>3. CASE status = "none"
    <3>1. DOMAIN steps = {}
      BY <2>3 DEF Walk
    <3>2. \A u \in Tasks : u # t => pc(u) \notin Loop /\ task'[u] = task[u]
      BY <1>2, <2>3
         DEF StartJournal, Become, Walk, Mutex, Typed, Begun, Inside, Driving, Loop
    <3>3. task'[t] = AtEntry(t)
      BY <1>2 DEF StartJournal, Become, Walk, Mutex, Typed
    <3>4. fingerprint' = Fingerprint(G(t))
      BY <1>2, <2>3 DEF StartJournal, StartRun
    <3>5. /\ fingerprint'.entry = G(t).entry /\ DOMAIN fingerprint'.edges = G(t).names
          /\ G(t).entry \in G(t).names
      BY <3>4, Graphs DEF Fingerprint
    <3>6. \A j \in 0..(AtEntry(t).seq - 1) : j \in DOMAIN steps'
      BY <1>f
    <3>7. Placed(task[t])' /\ Fresh(task[t])'
      BY <1>f, <3>3, <3>5, <3>6 DEF Placed, Fresh, Stands
    <3>8. \A u \in Tasks : u # t => Placed(task[u])' /\ Fresh(task[u])'
      BY <3>2 DEF Placed, Fresh, Loop, pc
    <3>9. LogIsWalk'
      BY <2>1, <3>1 DEF LogIsWalk
    <3> QED
      BY <2>1, <3>7, <3>8, <3>9 DEF Walk
  <2> QED
    BY <2>2, <2>3
<1>3. CASE RecordAnswer(t)
  <2>1. [task[t] EXCEPT !.pc = "cas"].pc = "cas"
    BY <1>f DEF Frame
  <2> QED
    BY <1>0, <1>3, <2>1, OutsideWalks DEF RecordAnswer, RecordHumanInput, Goto
<1>4. CASE FireTimer(t)
  <2>1. PICK f \in {Returned(t), [Idle EXCEPT !.pc = "stopped"],
                    [task[t] EXCEPT !.pc = "cas", !.seen = status]} : Become(t, f)
    BY <1>4 DEF FireTimer
  <2>2. f.pc \notin Loop
    BY <1>0, <1>f DEF Idle, Frame
  <2> QED
    BY <1>4, <2>1, <2>2, OutsideWalks DEF FireTimer, journal
<1>5. CASE CasWon(t)
  <2>1. UNCHANGED <<steps, fingerprint>> /\ status' # "none" /\ status # "none"
    BY <1>5 DEF CasWon, CasWins, SetRunStatus, Walk, Mutex, Typed, Begun, Inside, Driving, Opening
  <2>2. CASE Goto(t, "clear")
    <3>1. [task[t] EXCEPT !.pc = "clear"].pc = "clear"
      BY <1>f DEF Frame
    <3> QED
      BY <1>0, <2>1, <2>2, <3>1, OutsideWalks DEF Goto
  <2>3. CASE Become(t, AtEntry(t))
    <3>1. Placed(AtEntry(t)) /\ Fresh(AtEntry(t))
      BY <1>5, <1>f, <2>1, EntryPlace DEF Sole, CasWon
    <3> QED
      BY <2>1, <2>3, <3>1, WalksOn
  <2> QED
    BY <1>5, <2>2, <2>3 DEF CasWon
<1>6. CASE CasLost(t)
  BY <1>6, LeaveWalks DEF CasLost, CasLoses, journal
<1>7. CASE ClearFiredTimers(t)
  <2>1. UNCHANGED <<status, steps, fingerprint>> /\ status # "none"
    BY <1>7 DEF ClearFiredTimers, CancelTimersForRun, Walk, Mutex, Typed, Begun, Inside, Driving, Opening
  <2>2. Placed(AtEntry(t)) /\ Fresh(AtEntry(t))
    BY <1>7, <1>f, <2>1, EntryPlace DEF Sole, ClearFiredTimers
  <2> QED
    BY <1>7, <2>1, <2>2, WalksOn DEF ClearFiredTimers
<1>8. CASE PauseWaiting(t)
  <2>1. UNCHANGED <<steps, fingerprint>> /\ (status' = "none" => status = "none")
    BY <1>8 DEF PauseWaiting, CasWins, CasLoses, SetRunStatus, journal
  <2> QED
    BY <1>0, <1>8, <2>1, OutsideWalks DEF PauseWaiting, Idle
<1>9. CASE LoadSteps(t)
  <2>1. CASE Become(t, Idle)
    BY <1>0, <1>9, <2>1, OutsideWalks DEF LoadSteps, Idle, journal
  <2>2. CASE ~Become(t, Idle)
    <3>1. PICK last : Become(t, [Idle EXCEPT !.pc = "record", !.op = "answer",
                                             !.seq = last, !.seen = "awaiting_human"])
      BY <1>9, <2>2 DEF LoadSteps
    <3> QED
      BY <1>0, <1>9, <3>1, OutsideWalks DEF LoadSteps, Idle, journal
  <2> QED
    BY <2>1, <2>2
<1> QED
  BY <1>1, <1>2, <1>3, <1>4, <1>5, <1>6, <1>7, <1>8, <1>9

(* In the loop, everything but the commit.                                 *)
LEMMA LoopWalks ==
    ASSUME Sole, Walk, Mutex', NEW t \in Tasks,
           \/ StepBoundary(t) \/ ReadCommitted(t) \/ ReadNothing(t) \/ CancelReplayedWait(t)
           \/ StageReturns(t) \/ StageBug(t) \/ StageFails(t)
           \/ CountFailure(t) \/ ArmRetry(t) \/ ArmWait(t)
           \/ WriteStatus(t) \/ CleanUp(t) \/ Exit(t)
    PROVE  Walk'
<1> DEFINE f == task[t]
<1>f. /\ f \in Frame /\ f \in GoodFrame /\ Typed /\ Placed(f) /\ Fresh(f)
      /\ pc(t) = f.pc /\ f.seq \in Nat
  BY Here DEF Walk, Mutex, GoodFrame, Frame, pc
<1>l. /\ Loop \subseteq Driving \ {"start"} /\ {"exit", "cleanup"} \cap Loop = {}
      /\ {"top", "read", "unwait", "stage", "count", "arm-retry", "commit", "arm-wait",
          "settle"} = Loop
  BY DEF Loop, Driving, Opening
<1>m. ASSUME f.pc \in Loop PROVE SameFingerprint(t)
  BY <1>f, <1>l, <1>m DEF Typed, Begun, Inside, Sole
<1>1. CASE StepBoundary(t)
  <2>1. f.pc \in Loop /\ UNCHANGED <<status, steps, fingerprint>>
    BY <1>f, <1>l, <1>1 DEF StepBoundary, journal
  <2>2. PICK g \in {[f EXCEPT !.pc = "exit"], [f EXCEPT !.pc = "read"],
                    [f EXCEPT !.pc = "settle", !.goal = "failed"]} : Become(t, g)
    BY <1>1 DEF StepBoundary, Goto, Settle
  <2>3. g.seq = f.seq /\ g.cur = f.cur /\ g.pc \in {"exit", "read", "settle"}
    BY <1>f DEF Frame
  <2>4. Placed(g) /\ Fresh(g)
    BY <1>f, <2>1, <2>3, SamePlace DEF Fresh
  <2> QED
    BY <2>1, <2>2, <2>4, WalksOn
<1>2. CASE ReadCommitted(t)
  <2> DEFINE x == steps[f.seq]
             r == x.result
  <2>1. f.pc \in Loop /\ UNCHANGED <<status, steps, fingerprint>> /\ f.seq \in DOMAIN steps
    BY <1>f, <1>l, <1>2 DEF ReadCommitted, journal
  <2>2. CASE Raise(t)
    BY <2>1, <2>2, LeaveWalks
  <2>3. CASE x.stage = f.cur /\ Replay(t, r)
    <3>1. f.cur \in G(t).names
      BY <1>f, <1>m, <2>1, OnRecord DEF Placed, Stands
    <3>2. r \in StageResult
      BY <1>f, <2>1 DEF Typed, JournalTyped, JournalTypeOK, StepRecord
    <3>3. Routes(r) => r.to \in DOMAIN fingerprint.edges
      BY <1>f, <1>m, <2>1, <2>3, <3>1, OnRecord DEF Walk, LogIsWalk
    <3>4. CASE r.kind = "wait" /\ Become(t, [f EXCEPT !.pc = "unwait", !.res = r])
      <4> DEFINE g == [f EXCEPT !.pc = "unwait", !.res = r]
      <4>1. g.pc = "unwait" /\ g.res = r /\ g.seq = f.seq /\ g.cur = f.cur
        BY <1>f DEF Frame
      <4>2. Routes(r)
        BY <3>2, <3>4, NoStageAssumption, Results DEF Routes
      <4>3. Placed(g) /\ Fresh(g)
        BY <1>f, <2>1, <3>3, <4>1, <4>2 DEF Placed, Stands, HoldsReplayed, Fresh
      <4> QED
        BY <2>1, <3>4, <4>3, WalksOn
    <3>5. CASE Routes(r) /\ Advance(t, r.to)
      BY <1>f, <2>1, <3>3, <3>5, NextPlace, WalksOn DEF Advance
    <3>6. CASE Settle(t, EndOf(r))
      <4> DEFINE g == [f EXCEPT !.pc = "settle", !.goal = EndOf(r)]
      <4>1. g.pc = "settle" /\ g.seq = f.seq /\ g.cur = f.cur
        BY <1>f DEF Frame
      <4>2. Placed(g) /\ Fresh(g)
        BY <1>f, <2>1, <4>1, SamePlace DEF Fresh
      <4> QED
        BY <2>1, <3>6, <4>2, WalksOn DEF Settle
    <3> QED
      BY <2>3, <3>4, <3>5, <3>6 DEF Replay
  <2> QED
    BY <1>2, <2>2, <2>3 DEF ReadCommitted
<1>3. CASE ReadNothing(t) \/ StageFails(t)
  <2>1. f.pc \in Loop /\ UNCHANGED <<status, steps, fingerprint>> /\ f.seq \notin DOMAIN steps
    BY <1>f, <1>l, <1>3 DEF ReadNothing, StageFails, journal, Fresh
  <2>2. PICK g \in {[f EXCEPT !.pc = "stage"], [f EXCEPT !.pc = "count"]} : Become(t, g)
    BY <1>3 DEF ReadNothing, StageFails, Goto
  <2>3. g.seq = f.seq /\ g.cur = f.cur /\ g.pc \in {"stage", "count"}
    BY <1>f DEF Frame
  <2>4. Placed(g) /\ Fresh(g)
    BY <1>f, <2>1, <2>3, SamePlace DEF Fresh
  <2> QED
    BY <2>1, <2>2, <2>4, WalksOn
<1>4. CASE CancelReplayedWait(t)
  <2>1. /\ f.pc \in Loop /\ UNCHANGED <<status, steps, fingerprint>> /\ HoldsReplayed(f)
        /\ Advance(t, f.res.to)
    BY <1>f, <1>l, <1>4 DEF CancelReplayedWait, CancelTimer, Placed
  <2> QED
    BY <1>f, <2>1, NextPlace, WalksOn DEF Advance, HoldsReplayed
<1>5. CASE StageReturns(t)
  <2>1. f.pc \in Loop /\ f.pc = "stage" /\ UNCHANGED <<status, steps, fingerprint>>
    BY <1>f, <1>l, <1>5 DEF StageReturns, journal
  <2>2. PICK r \in Returns[f.cur] :
          \/ Raise(t)
          \/ Declared(G(t), f.cur, r) /\ Become(t, [f EXCEPT !.pc = "commit", !.res = r])
    BY <1>5 DEF StageReturns
  <2>3. CASE Raise(t)
    BY <2>1, <2>3, LeaveWalks
  <2>4. CASE Declared(G(t), f.cur, r) /\ Become(t, [f EXCEPT !.pc = "commit", !.res = r])
    <3> DEFINE g == [f EXCEPT !.pc = "commit", !.res = r]
    <3>1. g.pc = "commit" /\ g.res = r /\ g.seq = f.seq /\ g.cur = f.cur
      BY <1>f DEF Frame
    <3>2. f.cur \in G(t).names
      BY <1>f, <1>m, <2>1, OnRecord DEF Placed, Stands
    <3>3. HoldsDeclared(g)
      BY <1>f, <1>m, <2>1, <2>4, <3>1, <3>2, OnRecord DEF HoldsDeclared, Declared
    <3>4. Placed(g) /\ Fresh(g)
      BY <1>f, <2>1, <3>1, <3>3 DEF Placed, Stands, Fresh
    <3> QED
      BY <2>1, <2>4, <3>4, WalksOn
  <2> QED
    BY <2>2, <2>3, <2>4
<1>6. CASE StageBug(t)
  BY <1>6, LeaveWalks DEF StageBug, journal
<1>7. CASE CountFailure(t)
  <2> DEFINE to == G(t).exhausted_to[f.cur]
             attempt == ReadAttempt(f.seq) + 1
  <2>1. f.pc \in Loop /\ f.pc = "count" /\ UNCHANGED <<status, steps, fingerprint>>
    BY <1>f, <1>l, <1>7 DEF CountFailure, IncrementAttempt
  <2>2. PICK g \in {[f EXCEPT !.pc = "arm-retry", !.tries = attempt],
                    [f EXCEPT !.pc = "settle", !.goal = "failed"],
                    [f EXCEPT !.pc = "commit", !.res = Degraded(to)]} : Become(t, g)
    BY <1>7 DEF CountFailure, Settle
  <2>3. /\ g.seq = f.seq /\ g.cur = f.cur /\ g.pc \in {"arm-retry", "settle", "commit"}
        /\ g.pc = "commit" => g.res = Degraded(to)
    BY <1>f DEF Frame
  <2>4. f.cur \in G(t).names
    BY <1>f, <1>m, <2>1, OnRecord DEF Placed, Stands
  <2>5. g.pc = "commit" => HoldsDeclared(g)
    BY <1>f, <1>m, <2>1, <2>3, <2>4, OnRecord DEF HoldsDeclared, Degraded, Routes, Edges
  <2>6. Placed(g) /\ Fresh(g)
    BY <1>f, <2>1, <2>3, <2>5 DEF Placed, Stands, Fresh
  <2> QED
    BY <2>1, <2>2, <2>6, WalksOn
<1>8. CASE ArmRetry(t) \/ ArmWait(t)
  <2>1. f.pc \in Loop /\ UNCHANGED <<status, steps, fingerprint>>
    BY <1>f, <1>l, <1>8 DEF ArmRetry, ArmWait, SetTimer
  <2>2. PICK g \in {[f EXCEPT !.pc = "settle", !.goal = "retrying", !.tries = 0],
                    [f EXCEPT !.pc = "settle", !.goal = "waiting"]} : Become(t, g)
    BY <1>8 DEF ArmRetry, ArmWait, Settle
  <2>3. g.seq = f.seq /\ g.cur = f.cur /\ g.pc = "settle"
    BY <1>f DEF Frame
  <2>4. Placed(g) /\ Fresh(g)
    BY <1>f, <2>1, <2>3, SamePlace DEF Fresh
  <2> QED
    BY <2>1, <2>2, <2>4, WalksOn
<1>9. CASE WriteStatus(t) \/ CleanUp(t)
  <2>1. UNCHANGED <<steps, fingerprint>> /\ status' # "none"
    BY <1>9, <1>f, Here
       DEF WriteStatus, CleanUp, SetRunStatus, CancelTimersForRun, RunStatus, Typed, Begun, Inside,
           Driving, Leaving
  <2>2. PICK g \in {[f EXCEPT !.pc = "exit"], [f EXCEPT !.pc = "cleanup"]} : Become(t, g)
    BY <1>9 DEF WriteStatus, CleanUp, Goto
  <2>3. g.pc \notin Loop
    BY <1>f, <1>l DEF Frame
  <2> QED
    BY <2>1, <2>2, <2>3, OutsideWalks
<1>10. CASE Exit(t)
  BY <1>10, LeaveWalks DEF Exit, journal
<1> QED
  BY <1>1, <1>2, <1>3, <1>4, <1>5, <1>6, <1>7, <1>8, <1>9, <1>10

(* The commit extends the walk by one record, and no other drive is there  *)
(* to be overtaken by it.                                                  *)
LEMMA CommitWalks ==
    ASSUME Sole, Walk, Mutex', NEW t \in Tasks, Commit(t) PROVE Walk'
<1> DEFINE f == task[t]
           r == f.res
           record == [stage |-> f.cur, result |-> r]
<1>1. /\ f \in Frame /\ f \in GoodFrame /\ Typed /\ Placed(f) /\ Fresh(f) /\ f.seq \in Nat
      /\ f.pc = "commit" /\ f.pc \in Loop /\ r \in StageResult
  BY Here DEF Commit, Walk, Mutex, GoodFrame, Frame, pc, Loop
<1>2. f.seq \notin DOMAIN steps /\ Stands(f) /\ HoldsDeclared(f)
  BY <1>1 DEF Fresh, Placed
<1>3. UNCHANGED <<status, fingerprint>> /\ steps' = Insert(steps, f.seq, record)
  BY <1>2 DEF Commit, CommitStep
<1>4. DOMAIN steps' = DOMAIN steps \cup {f.seq} /\ steps'[f.seq] = record
      /\ \A j \in DOMAIN steps : steps'[j] = steps[j]
  BY <1>2, <1>3 DEF Insert
<1>5. status # "none" /\ SameFingerprint(t)
  BY <1>1 DEF Typed, Begun, Inside, Driving, Loop, Opening, pc, Sole
<1>6. LogIsWalk'
  <2> SUFFICES ASSUME NEW i \in DOMAIN steps'
               PROVE  /\ IF i = 0 THEN steps'[i].stage = fingerprint.entry
                         ELSE i - 1 \in DOMAIN steps'
                              /\ steps'[i].stage = steps'[i - 1].result.to
                      /\ Routes(steps'[i].result) =>
                            steps'[i].result.to \in fingerprint.edges[steps'[i].stage]
    BY <1>3 DEF LogIsWalk
  <2>1. CASE i \in DOMAIN steps
    BY <1>4, <2>1 DEF Walk, LogIsWalk
  <2>2. CASE i = f.seq
    <3>1. i = 0 => f.cur = fingerprint.entry
      BY <1>2, <2>2 DEF Stands
    <3>2. i # 0 => i - 1 \in DOMAIN steps /\ f.cur = steps[i - 1].result.to
      BY <1>1, <1>2, <2>2 DEF Stands
    <3> QED
      BY <1>2, <1>4, <2>2, <3>1, <3>2 DEF HoldsDeclared
  <2> QED
    BY <1>4, <2>1, <2>2
<1>7. ASSUME NEW u \in Tasks, u # t PROVE Fresh(task[u])' /\ Placed(task[u])'
  <2>1. task'[u] = task[u]
    BY <1>7 DEF Commit, Become, Goto, Settle, Advance, Walk, Mutex, Typed
  <2>2. pc(u) \notin Loop
    BY <1>1, <1>7 DEF Sole, SingleDriver, pc
  <2> QED
    BY <2>1, <2>2 DEF Fresh, Placed, Loop, pc
<1>8. Fresh(task[t])' /\ Placed(task[t])'
  <2>1. PICK g : Become(t, g) /\ task'[t] = g /\
          \/ g.pc \in {"arm-wait", "settle"} /\ g.seq = f.seq /\ g.cur = f.cur
          \/ /\ Routes(r) /\ g.pc = "top" /\ g.seq = f.seq + 1 /\ g.cur = r.to
    <3>0. \A g : Become(t, g) => task'[t] = g
      BY <1>1 DEF Become, Typed
    <3>1. CASE Goto(t, "arm-wait")
      <4> DEFINE g == [f EXCEPT !.pc = "arm-wait"]
      <4>1. g.pc = "arm-wait" /\ g.seq = f.seq /\ g.cur = f.cur
        BY <1>1 DEF Frame
      <4> QED
        BY <3>0, <3>1, <4>1 DEF Goto
    <3>2. CASE Settle(t, "awaiting_human") \/ Settle(t, EndOf(r))
      <4>1. PICK s : Become(t, [f EXCEPT !.pc = "settle", !.goal = s])
        BY <3>2 DEF Settle
      <4> DEFINE g == [f EXCEPT !.pc = "settle", !.goal = s]
      <4>2. g.pc = "settle" /\ g.seq = f.seq /\ g.cur = f.cur
        BY <1>1 DEF Frame
      <4> QED
        BY <3>0, <4>1, <4>2
    <3>3. CASE Routes(r) /\ Advance(t, r.to)
      <4> DEFINE g == [f EXCEPT !.pc = "top", !.seq = @ + 1, !.cur = r.to, !.res = Done]
      <4>1. g.pc = "top" /\ g.seq = f.seq + 1 /\ g.cur = r.to
        BY <1>1 DEF Frame
      <4> QED
        BY <3>0, <3>3, <4>1 DEF Advance
    <3> QED
      BY <3>1, <3>2, <3>3 DEF Commit
  <2>2. CASE g.pc \in {"arm-wait", "settle"} /\ g.seq = f.seq /\ g.cur = f.cur
    <3>1. \A j \in 0..(g.seq - 1) : j \in DOMAIN steps'
      BY <1>2, <1>4, <2>2 DEF Stands
    <3>2. g.seq # 0 => steps'[g.seq - 1] = steps[g.seq - 1]
      BY <1>1, <1>2, <1>4, <2>2, SMTT(30) DEF Stands
    <3>3. Stands(g)'
      BY <1>2, <1>3, <2>2, <3>1, <3>2, SMTT(30) DEF Stands
    <3> QED
      BY <2>1, <2>2, <3>3 DEF Placed, Fresh, Stands
  <2>3. CASE Routes(r) /\ g.pc = "top" /\ g.seq = f.seq + 1 /\ g.cur = r.to
    <3>1. r.to \in DOMAIN fingerprint.edges
      BY <1>1, <1>2, <1>5, <2>3, OnRecord DEF HoldsDeclared, Stands
    <3>2. \A j \in 0..(g.seq - 1) : j \in DOMAIN steps'
      BY <1>1, <1>2, <1>4, <2>3 DEF Stands
    <3>3. g.seq # 0 /\ g.seq - 1 = f.seq /\ steps'[g.seq - 1].result.to = g.cur
      BY <1>1, <1>4, <2>3
    <3>4. Stands(g)'
      BY <1>3, <2>3, <3>1, <3>2, <3>3 DEF Stands
    <3> QED
      BY <2>1, <2>3, <3>4 DEF Placed, Fresh, Stands
  <2> QED
    BY <2>1, <2>2, <2>3
<1>9. \A u \in Tasks : Fresh(task[u])' /\ Placed(task[u])'
  BY <1>7, <1>8
<1> QED
  BY <1>3, <1>5, <1>6, <1>9 DEF Walk

LEMMA EnvironmentWalks ==
    ASSUME Walk, Mutex', Time \/ (\E e \in Engines : Crash(e)) \/ UNCHANGED vars PROVE Walk'
<1>1. UNCHANGED <<status, fingerprint, steps>>
  BY DEF Time, TimerFallsDue, LeaseGoesStale, Crash, vars, journal
<1>2. \A u \in Tasks : task'[u] \in {Idle, task[u]}
  BY DEF Time, Crash, vars, Walk, Mutex, Typed
<1>3. Fresh(Idle) /\ Placed(Idle)
  BY DEF Idle, Fresh, Placed, Loop
<1>4. \A u \in Tasks : Fresh(task[u])' /\ Placed(task[u])'
  <2> TAKE u \in Tasks
  <2>1. PICK g \in {Idle, task[u]} : task'[u] = g
    BY <1>2
  <2>2. Fresh(g) /\ Placed(g)
    BY <1>3 DEF Walk
  <2> QED
    BY <1>1, <2>1, <2>2 DEF Fresh, Placed, Stands, HoldsReplayed, HoldsDeclared
<1> QED
  BY <1>1, <1>4 DEF Walk, LogIsWalk

LEMMA WalkBegins == Init => Walk
<1> SUFFICES ASSUME Init PROVE Walk
  OBVIOUS
<1>1. Typed /\ InProcessMutex
  BY InitTyped DEF Init, InProcessMutex, pc, Idle, Driving, Opening, Loop, Leaving
<1> QED
  BY <1>1
     DEF Init, JournalInit, EmptyTable, Walk, Mutex, LogIsWalk, Fresh, Placed, Idle, Loop

LEMMA WalkGoesOn == Walk /\ Sole /\ [Next]_vars => Walk'
<1> SUFFICES ASSUME Walk, Sole, [Next]_vars PROVE Walk'
  OBVIOUS
<1>1. Mutex'
  BY MutexKept DEF Walk
<1> QED
  BY <1>1, EntryWalks, OpeningWalks, LoopWalks, CommitWalks, EnvironmentWalks
     DEF Next, Progress

(* In one process no committed step is run again, whatever crashes,        *)
(* pauses, retries and resumes befall the run: a drive that is about to    *)
(* execute, retry or commit a stage is past everything committed.          *)
THEOREM ReplayNeverReruns ==
    ASSUME OneProcess PROVE Spec => []NeverRunAgain
<1>1. Walk => NeverRunAgain
  BY DEF Walk, NeverRunAgain, Fresh, pc
<1>2. Walk /\ [Next]_vars => Walk'
  BY WalkGoesOn, OneProcessSole DEF Walk
<1> QED
  BY <1>1, <1>2, WalkBegins, PTL DEF Spec

(* In one process the log is a walk of the graph the run was started with, *)
(* from its entry, with no gap, along declared edges only, for every valid *)
(* graph and every stage behaviour, undeclared results and bugs included.  *)
THEOREM LogFollowsGraph ==
    ASSUME OneProcess PROVE Spec => []LogIsWalk
<1>1. Walk => LogIsWalk
  BY DEF Walk
<1>2. Walk /\ [Next]_vars => Walk'
  BY WalkGoesOn, OneProcessSole DEF Walk
<1> QED
  BY <1>1, <1>2, WalkBegins, PTL DEF Spec

-----------------------------------------------------------------------------
(* Part 3: a run and the drives that carry it. *)

(* A run_id is run or started by one caller.                               *)
OneCaller ==
    \A t, u \in Tasks :
        Calls[t] \cap {"run", "start"} # {} /\ Calls[u] \cap {"run", "start"} # {} => t = u

(* The callers' side: a run_id is not used again, and either one process   *)
(* has the run, or nobody resumes a run that is being driven, nor pauses   *)
(* one.                                                                    *)
Orderly ==
    /\ ~Reissue /\ OneCaller
    /\ OneProcess \/ (SingleFlight /\ MaxPauses = 0)

-----------------------------------------------------------------------------
(* What a step of task t does, from frame f to frame g, field by field: the*)
(* actions of Engine without their EXCEPTs.                                *)

Moved(f, g, labels) == g.pc \in labels /\ g.seq = f.seq /\ g.cur = f.cur
Sent(f, g, to) == g.pc = "top" /\ g.seq = f.seq + 1 /\ g.cur = to
AtTop(t, g) == g.pc = "top" /\ g.seq = 0 /\ g.cur = G(t).entry

(* It comes to the run, or turns away from it.                             *)
Comes(t, f, g) ==
    /\ UNCHANGED journal
    /\ \/ f.pc = "idle" /\ g.pc \in {"start", "spawned"}
          /\ (status = "none" \/ Reissue) /\ Calls[t] \cap {"run", "start"} # {}
       \/ f.pc = "spawned" /\ g.pc = "start"
       \/ f.pc = "idle" /\ AtTop(t, g) /\ status = "running" /\ SameFingerprint(t)
          /\ ~Driven(t) /\ (SingleFlight => \A u \in Tasks : pc(u) \notin Driving)
       \/ f.pc = "idle" /\ g.pc = "cas" /\ SameFingerprint(t) /\ status # "none"
          /\ (g.seen = "paused" \/ (g.seen = status /\ status \in {"waiting", "retrying"}))
       \/ f.pc = "idle" /\ g.pc = "load" /\ SameFingerprint(t) /\ status = "awaiting_human"
       \/ f.pc = "load" /\ g.pc = "record" /\ g.seen = "awaiting_human"
          /\ g.seq \in DOMAIN steps /\ \A i \in DOMAIN steps : i <= g.seq
       \/ f.pc = "idle" /\ g.pc = "pause" /\ pauses < MaxPauses
       \/ f.pc \notin {"start", "commit", "settle", "cleanup"} /\ g.pc \in {"idle", "stopped"}

(* It writes to the journal before the loop, or without a drive.           *)
Opens(t, f, g) ==
    \/ f.pc = "start" /\ AtTop(t, g) /\ StartRun(Fingerprint(G(t)))
    \/ f.pc = "record" /\ g.pc = "cas" /\ g.seen = f.seen
       /\ \E a \in Answers : RecordHumanInput(f.seq, a)
    \/ f.pc = "idle" /\ g.pc = "idle" /\ ClaimDueTimers
    \/ f.pc = "cas" /\ (g.pc = "clear" \/ AtTop(t, g)) /\ CasWins(f.seen, "running")
    \/ f.pc = "clear" /\ AtTop(t, g) /\ CancelTimersForRun
    \/ f.pc = "idle" /\ g = f /\ pauses < MaxPauses /\ CasWins("running", "paused")
    \/ f.pc = "pause" /\ g.pc = "idle" /\ CasWins("waiting", "paused")

(* It replays the log up to its end.                                       *)
Reads(f, g) ==
    \/ UNCHANGED journal /\ f.pc = "top"
       /\ \/ Moved(f, g, {"exit"}) /\ status = "paused"
          \/ Moved(f, g, {"settle"}) /\ f.seq >= max_steps /\ g.goal = "failed"
          \/ Moved(f, g, {"read"}) /\ f.seq < max_steps
    \/ UNCHANGED journal /\ f.pc = "read" /\ f.seq \in DOMAIN steps
       /\ LET r == steps[f.seq].result IN
          /\ steps[f.seq].stage = f.cur
          /\ \/ Moved(f, g, {"unwait"}) /\ g.res = r /\ r.kind = "wait"
             \/ Sent(f, g, r.to) /\ Routes(r) /\ r.kind # "wait"
             \/ Moved(f, g, {"settle"}) /\ ~Routes(r) /\ g.goal = EndOf(r)
    \/ UNCHANGED journal /\ f.pc = "read" /\ f.seq \notin DOMAIN steps
       /\ Moved(f, g, {"stage"})
    \/ f.pc = "unwait" /\ Sent(f, g, f.res.to) /\ CancelTimer(WaitTimer(f.seq))

(* It runs a stage.                                                        *)
Runs(t, f, g) ==
    \/ UNCHANGED journal /\ f.pc = "stage"
       /\ Moved(f, g, {"commit"}) /\ g.res \in StageResult /\ Declared(G(t), f.cur, g.res)
    \/ UNCHANGED journal /\ f.pc = "stage" /\ Moved(f, g, {"count"})
    \/ f.pc = "count" /\ IncrementAttempt(f.seq)
       /\ LET attempt == ReadAttempt(f.seq) + 1
          IN  IF attempt < G(t).max_attempts[f.cur]
              THEN Moved(f, g, {"arm-retry"}) /\ g.tries = attempt
              ELSE \/ Moved(f, g, {"settle"}) /\ g.goal = "failed"
                   \/ Moved(f, g, {"commit"}) /\ g.res = Degraded(G(t).exhausted_to[f.cur])
    \/ f.pc = "arm-retry" /\ Moved(f, g, {"settle"}) /\ g.goal = "retrying"
       /\ SetTimer(RetryTimer(f.seq, f.tries))

(* It commits, parks or ends the run, and leaves it.                       *)
Writes(f, g) ==
    \/ /\ f.pc = "commit" /\ CommitStep(f.seq, [stage |-> f.cur, result |-> f.res])
       /\ \/ Moved(f, g, {"arm-wait"}) /\ f.res.kind = "wait"
          \/ Moved(f, g, {"settle"}) /\ f.res.kind = "await-human" /\ g.goal = "awaiting_human"
          \/ Sent(f, g, f.res.to) /\ Routes(f.res) /\ f.res.kind \notin {"wait", "await-human"}
          \/ Moved(f, g, {"settle"}) /\ ~Routes(f.res) /\ g.goal = EndOf(f.res)
    \/ f.pc = "arm-wait" /\ Moved(f, g, {"settle"}) /\ g.goal = "waiting"
       /\ SetTimer(WaitTimer(f.seq))
    \/ f.pc = "settle" /\ SetRunStatus(f.goal)
       /\ Moved(f, g, {IF f.goal \in {"waiting", "retrying"} THEN "exit" ELSE "cleanup"})
    \/ f.pc = "cleanup" /\ Moved(f, g, {"exit"}) /\ CancelTimersForRun

Moves(t, f, g) == Comes(t, f, g) \/ Opens(t, f, g) \/ Reads(f, g) \/ Runs(t, f, g) \/ Writes(f, g)

(* A step is one task's move, a crash, or one that touches nothing but the *)
(* timers' flags.                                                          *)
TaskMoves(t) ==
    /\ Moves(t, task[t], task'[t])
    /\ \A u \in Tasks : u # t => task'[u] = task[u]
    /\ crashes' = crashes

Dies(e) ==
    /\ UNCHANGED journal
    /\ crashes' = crashes + 1
    /\ \A t \in Tasks : task'[t] = IF Host[t] = e THEN Idle ELSE task[t]

Passes ==
    /\ UNCHANGED <<status, fingerprint, steps, attempts, answers, task, crashes>>
    /\ DOMAIN timers' = DOMAIN timers

-----------------------------------------------------------------------------
(* Every action of a task is such a move.                                  *)

(* A task's frame after Become.                                            *)
LEMMA Became ==
    ASSUME Typed, NEW t \in Tasks, NEW f, Become(t, f)
    PROVE  task'[t] = f /\ \A u \in Tasks : u # t => task'[u] = task[u]
  BY DEF Typed, Become

(* Leaving, normally or with an exception.                                 *)
LEMMA MovesOut ==
    ASSUME Typed, NEW t \in Tasks, UNCHANGED <<journal, crashes>>,
           Return(t) \/ Raise(t) \/ Become(t, Idle) \/ Become(t, Returned(t))
             \/ Become(t, [Idle EXCEPT !.pc = "stopped"]),
           pc(t) \notin {"start", "commit", "settle", "cleanup"}
    PROVE  TaskMoves(t)
<1>1. PICK f \in {Returned(t), Idle, [Idle EXCEPT !.pc = "stopped"]} : Become(t, f)
  BY DEF Return, Raise
<1>2. f.pc \in {"idle", "stopped"}
  BY Here DEF Idle
<1>3. Comes(t, task[t], task'[t])
  BY <1>1, <1>2, Became DEF Comes, pc
<1> QED
  BY <1>1, <1>3, Became DEF TaskMoves, Moves

(* One task moves to a frame that is the other end of such a move.         *)
LEMMA MovesTo ==
    ASSUME Typed, NEW t \in Tasks, NEW g, Become(t, g), crashes' = crashes,
           Moves(t, task[t], g)
    PROVE  TaskMoves(t)
  BY Became DEF TaskMoves

LEMMA EntryMoves == ASSUME Typed, NEW t \in Tasks, Entry(t) PROVE TaskMoves(t)
<1> DEFINE f == task[t]
<1>f. f \in Frame /\ AtEntry(t) \in Frame
  BY Here DEF GoodFrame
<1>1. CASE Run(t)
  <2> DEFINE g == [Idle EXCEPT !.pc = "start", !.op = "run"]
  <2>1. Comes(t, f, g)
    BY <1>1 DEF Run, Ready, Comes, Idle, pc
  <2> QED
    BY <1>1, <2>1, MovesTo DEF Run, KeepBooks, Moves
<1>2. CASE Start(t)
  <2> DEFINE g == [Idle EXCEPT !.pc = "spawned", !.op = "start"]
  <2>1. Comes(t, f, g)
    BY <1>2 DEF Start, Ready, Comes, Idle, pc
  <2> QED
    BY <1>2, <2>1, MovesTo DEF Start, Moves
<1>3. CASE Resume(t)
  <2> DEFINE g == [AtEntry(t) EXCEPT !.op = "resume"]
  <2>1. AtTop(t, g)
    BY <1>f DEF AtEntry, AtTop, Frame
  <2>2. Comes(t, f, g)
    BY <1>3, <2>1 DEF Resume, Ready, Comes, pc
  <2> QED
    BY <1>3, <2>2, MovesTo DEF Resume, KeepBooks, Moves
<1>4. CASE Unpause(t)
  <2> DEFINE g == [Idle EXCEPT !.pc = "cas", !.op = "unpause", !.seen = "paused"]
  <2>1. Comes(t, f, g)
    BY <1>4 DEF Unpause, Ready, Comes, Idle, pc
  <2> QED
    BY <1>4, <2>1, MovesTo DEF Unpause, KeepBooks, Moves
<1>5. CASE ProvideHumanInput(t)
  <2> DEFINE g == [Idle EXCEPT !.pc = "load", !.op = "answer"]
  <2>1. Comes(t, f, g)
    BY <1>5 DEF ProvideHumanInput, Ready, Comes, Idle, pc
  <2> QED
    BY <1>5, <2>1, MovesTo DEF ProvideHumanInput, KeepBooks, Moves
<1>6. CASE Pause(t)
  <2>1. CASE CasWins("running", "paused") /\ UNCHANGED task
    <3>1. Opens(t, f, task'[t])
      BY <1>6, <2>1 DEF Pause, Ready, Opens, pc
    <3> QED
      BY <1>6, <2>1, <3>1 DEF Pause, TaskMoves, Moves
  <2>2. CASE CasLoses("running") /\ Become(t, [Idle EXCEPT !.pc = "pause", !.op = "pause"])
    <3> DEFINE g == [Idle EXCEPT !.pc = "pause", !.op = "pause"]
    <3>1. Comes(t, f, g)
      BY <1>6, <2>2 DEF Pause, CasLoses, Ready, Comes, Idle, pc
    <3> QED
      BY <1>6, <2>2, <3>1, MovesTo DEF Pause, Moves
  <2> QED
    BY <1>6, <2>1, <2>2 DEF Pause
<1>7. CASE Tick(t)
  <2> DEFINE g == [Idle EXCEPT !.op = "sweep", !.pending = Cardinality(Claimable)]
  <2>1. Opens(t, f, g)
    BY <1>7 DEF Tick, Ready, Opens, Idle, pc
  <2> QED
    BY <1>7, <2>1, MovesTo DEF Tick, KeepBooks, Moves
<1> QED
  BY <1>1, <1>2, <1>3, <1>4, <1>5, <1>6, <1>7 DEF Entry

LEMMA OpeningMoves ==
    ASSUME Typed, NEW t \in Tasks,
           \/ BackgroundRun(t) \/ StartJournal(t) \/ LoadSteps(t) \/ RecordAnswer(t)
           \/ FireTimer(t) \/ CasWon(t) \/ CasLost(t) \/ ClearFiredTimers(t) \/ PauseWaiting(t)
    PROVE  TaskMoves(t)
<1> DEFINE f == task[t]
<1>f. f \in Frame /\ AtTop(t, AtEntry(t))
  <2>1. f \in Frame
    BY Here DEF GoodFrame
  <2> QED
    BY <2>1 DEF AtEntry, AtTop, Frame
<1>1. CASE BackgroundRun(t)
  <2>1. CASE Become(t, Idle)
    BY <1>1, <2>1, MovesOut DEF BackgroundRun
  <2>2. CASE Goto(t, "start")
    <3> DEFINE g == [f EXCEPT !.pc = "start"]
    <3>1. Comes(t, f, g)
      BY <1>1, <1>f DEF BackgroundRun, Comes, Frame, pc
    <3> QED
      BY <1>1, <2>2, <3>1, MovesTo DEF BackgroundRun, Goto, Moves
  <2> QED
    BY <1>1, <2>1, <2>2 DEF BackgroundRun
<1>2. CASE StartJournal(t)
  <2>1. Opens(t, f, AtEntry(t))
    BY <1>2, <1>f DEF StartJournal, Opens, pc
  <2> QED
    BY <1>2, <2>1, MovesTo DEF StartJournal, KeepBooks, Moves
<1>3. CASE LoadSteps(t)
  <2>1. CASE Become(t, Idle)
    BY <1>3, <2>1, MovesOut DEF LoadSteps, KeepBooks
  <2>2. CASE ~Become(t, Idle)
    <3>1. PICK last \in DOMAIN steps :
            /\ \A i \in DOMAIN steps : i <= last
            /\ Become(t, [Idle EXCEPT !.pc = "record", !.op = "answer",
                                      !.seq = last, !.seen = "awaiting_human"])
      BY <1>3, <2>2 DEF LoadSteps
    <3> DEFINE g == [Idle EXCEPT !.pc = "record", !.op = "answer",
                                 !.seq = last, !.seen = "awaiting_human"]
    <3>2. Comes(t, f, g)
      BY <1>3, <3>1 DEF LoadSteps, Comes, Idle, pc
    <3> QED
      BY <1>3, <3>1, <3>2, MovesTo DEF LoadSteps, KeepBooks, Moves
  <2> QED
    BY <2>1, <2>2
<1>4. CASE RecordAnswer(t)
  <2> DEFINE g == [f EXCEPT !.pc = "cas"]
  <2>1. Opens(t, f, g)
    BY <1>4, <1>f DEF RecordAnswer, Opens, Frame, pc
  <2> QED
    BY <1>4, <2>1, MovesTo DEF RecordAnswer, Goto, KeepBooks, Moves
<1>5. CASE FireTimer(t)
  <2> DEFINE g == [f EXCEPT !.pc = "cas", !.seen = status]
  <2>1. CASE SameFingerprint(t) /\ status \in {"waiting", "retrying"} /\ Become(t, g)
    <3>1. Comes(t, f, g)
      BY <1>5, <1>f, <2>1 DEF FireTimer, Comes, Frame, pc
    <3> QED
      BY <1>5, <2>1, <3>1, MovesTo DEF FireTimer, KeepBooks, Moves
  <2>2. CASE Become(t, [Idle EXCEPT !.pc = "stopped"]) \/ Become(t, Returned(t))
    BY <1>5, <2>2, MovesOut DEF FireTimer, KeepBooks
  <2> QED
    BY <1>5, <2>1, <2>2 DEF FireTimer
<1>6. CASE CasWon(t)
  <2>1. PICK g \in {AtEntry(t), [f EXCEPT !.pc = "clear"]} : Become(t, g)
    BY <1>6 DEF CasWon, Goto
  <2>2. Opens(t, f, g)
    BY <1>6, <1>f DEF CasWon, Opens, Frame, pc
  <2> QED
    BY <1>6, <2>1, <2>2, MovesTo DEF CasWon, KeepBooks, Moves
<1>7. CASE CasLost(t)
  BY <1>7, MovesOut DEF CasLost, CasLoses
<1>8. CASE ClearFiredTimers(t)
  <2>1. Opens(t, f, AtEntry(t))
    BY <1>8, <1>f DEF ClearFiredTimers, Opens, pc
  <2> QED
    BY <1>8, <2>1, MovesTo DEF ClearFiredTimers, KeepBooks, Moves
<1>9. CASE PauseWaiting(t)
  <2>1. CASE CasWins("waiting", "paused")
    <3>1. Opens(t, f, Idle)
      BY <1>9, <2>1 DEF PauseWaiting, Opens, Idle, pc
    <3> QED
      BY <1>9, <3>1, MovesTo DEF PauseWaiting, KeepBooks, Moves
  <2>2. CASE CasLoses("waiting")
    BY <1>9, <2>2, MovesOut DEF PauseWaiting, CasLoses, KeepBooks
  <2> QED
    BY <1>9, <2>1, <2>2 DEF PauseWaiting
<1> QED
  BY <1>1, <1>2, <1>3, <1>4, <1>5, <1>6, <1>7, <1>8, <1>9

LEMMA ReadingMoves ==
    ASSUME Typed, NEW t \in Tasks,
           StepBoundary(t) \/ ReadCommitted(t) \/ ReadNothing(t) \/ CancelReplayedWait(t)
    PROVE  TaskMoves(t)
<1> DEFINE f == task[t]
           sent(to) == [f EXCEPT !.pc = "top", !.seq = @ + 1, !.cur = to, !.res = Done]
<1>f. f \in Frame
  BY Here DEF GoodFrame
<1>s. \A to : Sent(f, sent(to), to)
  BY <1>f DEF Sent, Frame
<1>1. CASE StepBoundary(t)
  <2> DEFINE g(l) == [f EXCEPT !.pc = l]
             h == [f EXCEPT !.pc = "settle", !.goal = "failed"]
  <2>1. CASE status = "paused" /\ Become(t, g("exit"))
    <3>1. Reads(f, g("exit"))
      BY <1>1, <1>f, <2>1 DEF StepBoundary, Reads, Moved, Frame, pc
    <3> QED
      BY <1>1, <2>1, <3>1, MovesTo DEF StepBoundary, KeepBooks, Moves
  <2>2. CASE f.seq >= max_steps /\ Become(t, h)
    <3>1. Reads(f, h)
      BY <1>1, <1>f, <2>2 DEF StepBoundary, Reads, Moved, Frame, pc
    <3> QED
      BY <1>1, <2>2, <3>1, MovesTo DEF StepBoundary, KeepBooks, Moves
  <2>3. CASE f.seq < max_steps /\ Become(t, g("read"))
    <3>1. Reads(f, g("read"))
      BY <1>1, <1>f, <2>3 DEF StepBoundary, Reads, Moved, Frame, pc
    <3> QED
      BY <1>1, <2>3, <3>1, MovesTo DEF StepBoundary, KeepBooks, Moves
  <2> QED
    BY <1>1, <1>f, <2>1, <2>2, <2>3, EngineAssumption DEF StepBoundary, Goto, Settle, Frame
<1>2. CASE ReadCommitted(t)
  <2> DEFINE r == steps[f.seq].result
             g == [f EXCEPT !.pc = "unwait", !.res = r]
             h == [f EXCEPT !.pc = "settle", !.goal = EndOf(r)]
  <2>1. CASE Raise(t)
    BY <1>2, <2>1, MovesOut DEF ReadCommitted
  <2>2. CASE steps[f.seq].stage = f.cur /\ r.kind = "wait" /\ Become(t, g)
    <3>1. Reads(f, g)
      BY <1>2, <1>f, <2>2 DEF ReadCommitted, Reads, Moved, Frame, pc
    <3> QED
      BY <1>2, <2>2, <3>1, MovesTo DEF ReadCommitted, Moves
  <2>3. CASE steps[f.seq].stage = f.cur /\ r.kind # "wait" /\ Routes(r) /\ Become(t, sent(r.to))
    <3>1. Reads(f, sent(r.to))
      BY <1>2, <1>s, <2>3 DEF ReadCommitted, Reads, pc
    <3> QED
      BY <1>2, <2>3, <3>1, MovesTo DEF ReadCommitted, Moves
  <2>4. CASE steps[f.seq].stage = f.cur /\ ~Routes(r) /\ Become(t, h)
    <3>1. Reads(f, h)
      BY <1>2, <1>f, <2>4 DEF ReadCommitted, Reads, Moved, Frame, pc
    <3> QED
      BY <1>2, <2>4, <3>1, MovesTo DEF ReadCommitted, Moves
  <2> QED
    BY <1>2, <2>1, <2>2, <2>3, <2>4 DEF ReadCommitted, Replay, Advance, Settle
<1>3. CASE ReadNothing(t)
  <2> DEFINE g == [f EXCEPT !.pc = "stage"]
  <2>1. Reads(f, g)
    BY <1>3, <1>f DEF ReadNothing, Reads, Moved, Frame, pc
  <2> QED
    BY <1>3, <2>1, MovesTo DEF ReadNothing, Goto, KeepBooks, Moves
<1>4. CASE CancelReplayedWait(t)
  <2>1. Reads(f, sent(f.res.to))
    BY <1>4, <1>s DEF CancelReplayedWait, Reads, pc
  <2> QED
    BY <1>4, <2>1, MovesTo DEF CancelReplayedWait, Advance, KeepBooks, Moves
<1> QED
  BY <1>1, <1>2, <1>3, <1>4

LEMMA RunningMoves ==
    ASSUME Typed, NEW t \in Tasks,
           StageReturns(t) \/ StageBug(t) \/ StageFails(t) \/ CountFailure(t) \/ ArmRetry(t)
    PROVE  TaskMoves(t)
<1> DEFINE f == task[t]
           commit(r) == [f EXCEPT !.pc = "commit", !.res = r]
<1>f. f \in Frame
  BY Here DEF GoodFrame
<1>c. \A r : Moved(f, commit(r), {"commit"}) /\ commit(r).res = r
  BY <1>f DEF Moved, Frame
<1>1. CASE StageReturns(t)
  <2>1. CASE Raise(t)
    BY <1>1, <2>1, MovesOut DEF StageReturns
  <2>2. CASE ~Raise(t)
    <3>1. PICK r \in Returns[f.cur] : Declared(G(t), f.cur, r) /\ Become(t, commit(r))
      BY <1>1, <2>2 DEF StageReturns
    <3>2. r \in StageResult
      BY <1>1, <3>1, Here, EngineAssumption DEF StageReturns, Loop
    <3>3. Runs(t, f, commit(r))
      BY <1>1, <1>c, <3>1, <3>2 DEF StageReturns, Runs, pc
    <3> QED
      BY <1>1, <3>1, <3>3, MovesTo DEF StageReturns, Moves
  <2> QED
    BY <2>1, <2>2
<1>2. CASE StageBug(t)
  BY <1>2, MovesOut DEF StageBug
<1>3. CASE StageFails(t)
  <2> DEFINE g == [f EXCEPT !.pc = "count"]
  <2>1. Runs(t, f, g)
    BY <1>3, <1>f DEF StageFails, Runs, Moved, Frame, pc
  <2> QED
    BY <1>3, <2>1, MovesTo DEF StageFails, Goto, KeepBooks, Moves
<1>4. CASE CountFailure(t)
  <2> DEFINE attempt == ReadAttempt(f.seq) + 1
             arm == [f EXCEPT !.pc = "arm-retry", !.tries = attempt]
             fail == [f EXCEPT !.pc = "settle", !.goal = "failed"]
             r == Degraded(G(t).exhausted_to[f.cur])
  <2>1. /\ Moved(f, arm, {"arm-retry"}) /\ arm.tries = attempt
        /\ Moved(f, fail, {"settle"}) /\ fail.goal = "failed"
    BY <1>f DEF Moved, Frame
  <2>2. CASE attempt < G(t).max_attempts[f.cur]
    <3>1. Runs(t, f, arm)
      BY <1>4, <2>1, <2>2 DEF CountFailure, Runs, pc
    <3> QED
      BY <1>4, <2>2, <3>1, MovesTo DEF CountFailure, KeepBooks, Moves
  <2>3. CASE ~(attempt < G(t).max_attempts[f.cur])
    <3>0. IF G(t).on_exhausted[f.cur] = "fail" THEN Settle(t, "failed")
          ELSE Become(t, commit(r))
      BY <1>4, <2>3 DEF CountFailure
    <3>1. Become(t, fail) \/ Become(t, commit(r))
      BY <3>0, Zenon DEF Settle
    <3>2. Runs(t, f, fail) /\ Runs(t, f, commit(r))
      BY <1>4, <1>c, <2>1, <2>3 DEF CountFailure, Runs, pc
    <3> QED
      BY <1>4, <3>1, <3>2, MovesTo DEF CountFailure, KeepBooks, Moves
  <2> QED
    BY <2>2, <2>3
<1>5. CASE ArmRetry(t)
  <2> DEFINE g == [f EXCEPT !.pc = "settle", !.goal = "retrying", !.tries = 0]
  <2>1. Runs(t, f, g)
    BY <1>5, <1>f DEF ArmRetry, Runs, Moved, Frame, pc
  <2> QED
    BY <1>5, <2>1, MovesTo DEF ArmRetry, KeepBooks, Moves
<1> QED
  BY <1>1, <1>2, <1>3, <1>4, <1>5

LEMMA WritingMoves ==
    ASSUME Typed, NEW t \in Tasks,
           Commit(t) \/ ArmWait(t) \/ WriteStatus(t) \/ CleanUp(t) \/ Exit(t)
    PROVE  TaskMoves(t)
<1> DEFINE f == task[t]
           go(l) == [f EXCEPT !.pc = l]
           settle(s) == [f EXCEPT !.pc = "settle", !.goal = s]
           sent(to) == [f EXCEPT !.pc = "top", !.seq = @ + 1, !.cur = to, !.res = Done]
<1>f. f \in Frame
  BY Here DEF GoodFrame
<1>g. /\ \A l : Moved(f, go(l), {l})
      /\ \A s : Moved(f, settle(s), {"settle"}) /\ settle(s).goal = s
      /\ \A to : Sent(f, sent(to), to)
  BY <1>f DEF Moved, Sent, Frame
<1>1. CASE Commit(t)
  <2> DEFINE r == f.res
  <2>1. CASE r.kind = "wait" /\ Become(t, go("arm-wait"))
    <3>1. Writes(f, go("arm-wait"))
      BY <1>1, <1>g, <2>1 DEF Commit, Writes, pc
    <3> QED
      BY <1>1, <2>1, <3>1, MovesTo DEF Commit, KeepBooks, Moves
  <2>2. CASE r.kind = "await-human" /\ Become(t, settle("awaiting_human"))
    <3>1. Writes(f, settle("awaiting_human"))
      BY <1>1, <1>g, <2>2 DEF Commit, Writes, pc
    <3> QED
      BY <1>1, <2>2, <3>1, MovesTo DEF Commit, KeepBooks, Moves
  <2>3. CASE r.kind \notin {"wait", "await-human"} /\ Routes(r) /\ Become(t, sent(r.to))
    <3>1. Writes(f, sent(r.to))
      BY <1>1, <1>g, <2>3 DEF Commit, Writes, pc
    <3> QED
      BY <1>1, <2>3, <3>1, MovesTo DEF Commit, KeepBooks, Moves
  <2>4. CASE ~Routes(r) /\ Become(t, settle(EndOf(r)))
    <3>1. Writes(f, settle(EndOf(r)))
      BY <1>1, <1>g, <2>4 DEF Commit, Writes, pc
    <3> QED
      BY <1>1, <2>4, <3>1, MovesTo DEF Commit, KeepBooks, Moves
  <2> QED
    BY <1>1, <2>1, <2>2, <2>3, <2>4 DEF Commit, Goto, Settle, Advance
<1>2. CASE ArmWait(t)
  <2>1. Writes(f, settle("waiting"))
    BY <1>2, <1>g DEF ArmWait, Writes, pc
  <2> QED
    BY <1>2, <2>1, MovesTo DEF ArmWait, Settle, KeepBooks, Moves
<1>3. CASE WriteStatus(t)
  <2> DEFINE l == IF f.goal \in {"waiting", "retrying"} THEN "exit" ELSE "cleanup"
  <2>1. Writes(f, go(l))
    BY <1>3, <1>g DEF WriteStatus, Writes, pc
  <2> QED
    BY <1>3, <2>1, MovesTo DEF WriteStatus, Goto, KeepBooks, Moves
<1>4. CASE CleanUp(t)
  <2>1. Writes(f, go("exit"))
    BY <1>4, <1>g DEF CleanUp, Writes, pc
  <2> QED
    BY <1>4, <2>1, MovesTo DEF CleanUp, Goto, KeepBooks, Moves
<1>5. CASE Exit(t)
  BY <1>5, MovesOut DEF Exit
<1> QED
  BY <1>1, <1>2, <1>3, <1>4, <1>5

(* All a step of the system can be.                                        *)
LEMMA StepMoves ==
    ASSUME Typed, [Next]_vars
    PROVE  (\E t \in Tasks : TaskMoves(t)) \/ (\E e \in Engines : Dies(e)) \/ Passes
<1>1. CASE UNCHANGED vars
  BY <1>1 DEF vars, journal, Passes
<1>2. ASSUME NEW t \in Tasks, Entry(t) \/ Progress(t) PROVE TaskMoves(t)
  BY <1>2, EntryMoves, OpeningMoves, ReadingMoves, RunningMoves, WritingMoves DEF Progress
<1>3. ASSUME NEW e \in Engines, Crash(e) PROVE Dies(e)
  BY <1>3 DEF Crash, Dies
<1>4. CASE Time
  BY <1>4 DEF Time, TimerFallsDue, LeaseGoesStale, Passes
<1> QED
  BY <1>1, <1>2, <1>3, <1>4 DEF Next

-----------------------------------------------------------------------------
(* One drive at a time.  A task is active from the moment its CAS, or its  *)
(* look at the status, has given it the run until it parks or ends it.     *)

Active == Loop \cup {"clear"}

Alone == \A t, u \in Tasks : pc(t) \in Active /\ pc(u) \in Active => t = u

(* What a frame says of the run: an active one has it running, one about   *)
(* to create its row finds none, and everyone who looked at the run has    *)
(* the graph on record.                                                    *)
Bound(t, f) ==
    /\ f.pc \in Active => status \in {"running", "paused"}
    /\ f.pc \in {"start", "spawned"} =>
          status = "none" /\ Calls[t] \cap {"run", "start"} # {}
    /\ f.pc \in Active \cup {"cas", "load", "record"} =>
          status # "none" /\ SameFingerprint(t)
    /\ f.pc = "cas" => f.seen \in {"waiting", "retrying", "awaiting_human", "paused"}
    /\ f.pc = "record" => f.seen = "awaiting_human"
    /\ f.pc = "settle" => f.goal \in RunStatus \ {"running", "paused"}

Unpaused == MaxPauses = 0 => status # "paused" /\ \A t \in Tasks : pc(t) # "pause"

Lone == Alone /\ (\A t \in Tasks : Bound(t, task[t])) /\ Unpaused

LEMMA LoneBegins == Init => Lone
  BY DEF Init, JournalInit, Lone, Alone, Bound, Unpaused, Idle, pc, Active, Loop

(* A task becomes active only when no other one is.                        *)
LEMMA EntersAlone ==
    ASSUME Orderly, Mutex, Lone, NEW t \in Tasks, TaskMoves(t),
           task'[t].pc \in Active, pc(t) \notin Active
    PROVE  \A u \in Tasks \ {t} : pc(u) \notin Active
<1> DEFINE f == task[t]
           g == task'[t]
<1>1. CASE Comes(t, f, g)
  <2>1. ~Driven(t) /\ (SingleFlight => \A u \in Tasks : pc(u) \notin Driving)
    BY <1>1 DEF Comes, Active, Loop
  <2>2. Active \subseteq Driving
    BY DEF Active, Driving, Opening
  <2>3. CASE SingleFlight
    BY <2>1, <2>2, <2>3
  <2>4. CASE OneProcess
    <3>1. \A u \in Tasks : Host[u] = Host[t]
      BY <2>4, EngineAssumption DEF OneProcess
    <3>2. \A u \in Tasks : pc(u) \notin Driving
      BY <2>1, <3>1, EngineAssumption DEF Mutex, InProcessMutex, Driven
    <3> QED
      BY <2>2, <3>2
  <2> QED
    BY <2>3, <2>4 DEF Orderly
<1>2. CASE Opens(t, f, g)
  <2>1. CASE f.pc = "start"
    BY <2>1 DEF Lone, Bound, pc
  <2>2. CASE f.pc = "cas" /\ status = f.seen
    <3>1. CASE status # "paused"
      BY <2>2, <3>1 DEF Lone, Bound, pc
    <3>2. CASE status = "paused"
      <4>1. OneProcess
        BY <3>2 DEF Lone, Unpaused, Orderly
      <4> QED
        BY <2>2, <4>1, EngineAssumption
           DEF OneProcess, Mutex, InProcessMutex, Active, Driving, Opening, pc
    <3> QED
      BY <3>1, <3>2
  <2> QED
    BY <1>2, <2>1, <2>2 DEF Opens, CasWins, Active, Loop, pc
<1>3. CASE Reads(f, g) \/ Runs(t, f, g) \/ Writes(f, g)
  BY <1>3 DEF Reads, Runs, Writes, Moved, Active, Loop, pc
<1> QED
  BY <1>1, <1>2, <1>3 DEF TaskMoves, Moves

(* The frame the task moves to.                                            *)
LEMMA MovesBound ==
    ASSUME Orderly, Mutex, Lone, NEW t \in Tasks, TaskMoves(t)
    PROVE  Bound(t, task[t])'
<1> DEFINE f == task[t]
           g == task'[t]
<1>f. Bound(t, f)
  BY DEF Lone
<1>1. CASE Comes(t, f, g)
  BY <1>1, <1>f DEF Comes, Bound, SameFingerprint, G, journal, AtTop, Orderly, Active, Loop
<1>2. CASE Opens(t, f, g)
  BY <1>2, <1>f DEF Opens, Bound, SameFingerprint, G, AtTop, Active, Loop, StartRun, RecordHumanInput,
     ClaimDueTimers, CasWins, SetRunStatus, CancelTimersForRun
<1>3. CASE Reads(f, g)
  BY <1>3, <1>f DEF Reads, Moved, Sent, Bound, SameFingerprint, G, journal, CancelTimer, EndOf,
     Active, Loop, RunStatus
<1>4. CASE Runs(t, f, g)
  BY <1>4, <1>f DEF Runs, Moved, Sent, Bound, SameFingerprint, G, journal, IncrementAttempt,
     SetTimer, Active, Loop, RunStatus
<1>5. CASE Writes(f, g)
  BY <1>5, <1>f DEF Writes, Moved, Sent, Bound, SameFingerprint, G, CommitStep, SetTimer,
     SetRunStatus, CancelTimersForRun, EndOf, Active, Loop, RunStatus
<1> QED
  BY <1>1, <1>2, <1>3, <1>4, <1>5 DEF TaskMoves, Moves

(* What the others are bound to, under a move of task t.                   *)
LEMMA OthersBound ==
    ASSUME Orderly, Mutex, Lone, NEW t \in Tasks, TaskMoves(t), NEW u \in Tasks, u # t
    PROVE  Bound(u, task[u])'
<1> DEFINE f == task[t]
           g == task'[t]
<1>1. task'[u] = task[u] /\ Bound(u, task[u]) /\ Bound(t, f)
  BY DEF TaskMoves, Lone
<1>2. CASE UNCHANGED <<status, fingerprint>>
  BY <1>1, <1>2 DEF Bound, SameFingerprint, G
<1>3. CASE f.pc = "start" /\ status = "none" /\ status' = "running"
  BY <1>1, <1>3 DEF Bound, Orderly, OneCaller
<1>4. CASE UNCHANGED fingerprint /\ status \notin {"none", "running", "paused"}
           /\ status' \in {"running", "paused"}
  BY <1>1, <1>4 DEF Bound, SameFingerprint, G
<1>5. CASE UNCHANGED fingerprint /\ status \in {"running", "paused"}
           /\ status' \in {"running", "paused"}
  BY <1>1, <1>5 DEF Bound, SameFingerprint, G
<1>6. CASE UNCHANGED fingerprint /\ f.pc = "settle" /\ status' = f.goal
  <2>1. task[u].pc \notin Active
    BY <1>6 DEF Lone, Alone, Active, Loop, pc
  <2>2. status \in {"running", "paused"} /\ f.goal # "none"
    BY <1>1, <1>6 DEF Bound, Active, Loop, RunStatus
  <2> QED
    BY <1>1, <1>6, <2>1, <2>2 DEF Bound, SameFingerprint, G
<1>7. CASE Comes(t, f, g) \/ Reads(f, g) \/ Runs(t, f, g)
  BY <1>2, <1>7 DEF Comes, Reads, Runs, journal, CancelTimer, IncrementAttempt, SetTimer
<1>8. CASE Opens(t, f, g)
  <2>1. f.pc = "cas" /\ status = f.seen => status # "none"
    BY <1>1 DEF Bound
  <2>2. \/ UNCHANGED <<status, fingerprint>>
        \/ f.pc = "start" /\ status = "none" /\ status' = "running"
        \/ UNCHANGED fingerprint /\ status # "none" /\ status' \in {"running", "paused"}
    BY <1>8, <2>1 DEF Opens, StartRun, RecordHumanInput, ClaimDueTimers, CasWins, SetRunStatus,
       CancelTimersForRun
  <2> QED
    BY <2>2, <1>2, <1>3, <1>4, <1>5
<1>9. CASE Writes(f, g)
  BY <1>2, <1>6, <1>9 DEF Writes, CommitStep, SetTimer, SetRunStatus, CancelTimersForRun
<1> QED
  BY <1>7, <1>8, <1>9 DEF TaskMoves, Moves

LEMMA MovesUnpaused ==
    ASSUME Mutex, Lone, NEW t \in Tasks, TaskMoves(t) PROVE Unpaused'
<1> SUFFICES ASSUME MaxPauses = 0
             PROVE  status' # "paused" /\ \A u \in Tasks : pc(u)' # "pause"
  BY DEF Unpaused
<1> DEFINE f == task[t]
           g == task'[t]
<1>1. status # "paused" /\ f.pc # "pause" /\ ~(pauses < MaxPauses) /\ Bound(t, f)
  BY DEF Lone, Unpaused, Mutex, Typed, BooksTyped, pc
<1>2. CASE Comes(t, f, g) \/ Reads(f, g) \/ Runs(t, f, g)
  BY <1>1, <1>2 DEF Comes, Reads, Runs, Moved, Sent, AtTop, journal, CancelTimer,
     IncrementAttempt, SetTimer, TaskMoves, Lone, Unpaused, pc
<1>3. CASE Opens(t, f, g)
  BY <1>1, <1>3 DEF Opens, AtTop, StartRun, RecordHumanInput, ClaimDueTimers, CasWins,
     SetRunStatus, CancelTimersForRun, TaskMoves, Lone, Unpaused, pc
<1>4. CASE Writes(f, g)
  BY <1>1, <1>4 DEF Writes, Moved, Sent, CommitStep, SetTimer, SetRunStatus, Bound,
     CancelTimersForRun, TaskMoves, Lone, Unpaused, pc
<1> QED
  BY <1>2, <1>3, <1>4 DEF TaskMoves, Moves

LEMMA LoneGoesOn == Orderly /\ Mutex /\ Lone /\ [Next]_vars => Lone'
<1> SUFFICES ASSUME Orderly, Mutex, Lone, [Next]_vars PROVE Lone'
  OBVIOUS
<1>t. Typed
  BY DEF Mutex
<1>1. ASSUME NEW t \in Tasks, TaskMoves(t) PROVE Lone'
  <2>1. Alone'
    BY <1>1, EntersAlone DEF TaskMoves, Lone, Alone, pc
  <2>2. \A u \in Tasks : Bound(u, task[u])'
    BY <1>t, <1>1, MovesBound, OthersBound
  <2> QED
    BY <1>1, <2>1, <2>2, MovesUnpaused DEF Lone
<1>2. ASSUME NEW e \in Engines, Dies(e) PROVE Lone'
  <2>1. UNCHANGED <<status, fingerprint>> /\ \A t \in Tasks : task'[t] \in {Idle, task[t]}
    BY <1>2 DEF Dies, journal
  <2>2. Idle.pc \notin Active \cup {"start", "spawned", "cas", "load", "record", "settle", "pause"}
    BY DEF Idle, Active, Loop
  <2> QED
    BY <2>1, <2>2 DEF Lone, Alone, Bound, Unpaused, SameFingerprint, G, pc
<1>3. CASE Passes
  BY <1>3 DEF Passes, Lone, Alone, Bound, Unpaused, SameFingerprint, G, pc
<1> QED
  BY <1>t, <1>1, <1>2, <1>3, StepMoves

(* Over all processes at most one coroutine is inside the drive loop, so   *)
(* no stage of the run ever executes twice at once, whichever of the wake, *)
(* the answer, the unpause and the resume come together, and however many  *)
(* processes die in between.                                               *)
THEOREM OneDriver ==
    ASSUME Orderly PROVE Spec => []SingleDriver
<1>1. Init => Mutex
  BY WalkBegins DEF Walk
<1>2. Mutex /\ Lone /\ [Next]_vars => (Mutex /\ Lone)'
  BY MutexKept, LoneGoesOn
<1>3. Lone => SingleDriver
  BY DEF Lone, Alone, SingleDriver, Active
<1> QED
  BY <1>1, <1>2, <1>3, LoneBegins, PTL DEF Spec

-----------------------------------------------------------------------------
(* The walk, over all processes.                                           *)

LoneWalk == Walk /\ Lone

LEMMA LoneSole == LoneWalk => Sole
  BY DEF LoneWalk, Lone, Alone, Bound, Sole, SingleDriver, Active, pc

LEMMA LoneWalkInvariant ==
    ASSUME Orderly
    PROVE  (Init => LoneWalk) /\ (LoneWalk /\ [Next]_vars => LoneWalk')
<1>1. LoneWalk /\ [Next]_vars => Walk' /\ Lone'
  BY LoneSole, WalkGoesOn, LoneGoesOn DEF LoneWalk, Walk
<1> QED
  BY <1>1, WalkBegins, LoneBegins DEF LoneWalk

(* No committed step is run again in any process: whoever takes the run    *)
(* over, after a crash, a wake or an answer, replays what is committed     *)
(* before it executes, retries or commits a stage.                         *)
THEOREM NobodyReruns ==
    ASSUME Orderly PROVE Spec => []NeverRunAgain
<1>1. LoneWalk => NeverRunAgain
  BY DEF LoneWalk, Walk, NeverRunAgain, Fresh, pc
<1> QED
  BY <1>1, LoneWalkInvariant, PTL DEF Spec

(* The log is one walk of the graph the run was started with, though       *)
(* processes with an edited graph, and stages that return routes no graph  *)
(* declares, take part.                                                    *)
THEOREM EveryDriveFollowsGraph ==
    ASSUME Orderly PROVE Spec => []LogIsWalk
<1>1. LoneWalk => LogIsWalk
  BY DEF LoneWalk, Walk
<1> QED
  BY <1>1, LoneWalkInvariant, PTL DEF Spec

-----------------------------------------------------------------------------
(* The log's size.  It is what places a drive: from the moment it runs a   *)
(* stage until it commits, it stands at the first position not committed.  *)

Size == Cardinality(DOMAIN steps)

(* The run can go on from its log; it cannot, and ends as its last result  *)
(* says.                                                                   *)
Unfinished == Size = 0 \/ Routes(steps[Size - 1].result)
EndsAs(s) == ~Unfinished /\ s = EndOf(steps[Size - 1].result)

(* What a drive is about to write is what the log amounts to.              *)
Tracks(f) ==
    /\ f.pc \in {"read", "unwait", "stage", "count", "arm-retry", "commit"} => f.seq < max_steps
    /\ f.pc = "settle" /\ f.goal = "failed" => Unfinished
    /\ f.pc = "settle" /\ f.goal \in {"completed", "degraded"} => EndsAs(f.goal)

Recorded ==
    /\ DOMAIN steps = 0..(Size - 1) /\ Size \in 0..max_steps
    /\ \A t \in Tasks : Tracks(task[t])

(* A record at the first free position.                                    *)
LEMMA Grows ==
    ASSUME DOMAIN steps = 0..(Size - 1), Size \in Nat, DOMAIN steps' = DOMAIN steps \cup {Size}
    PROVE  Size' = Size + 1 /\ DOMAIN steps' = 0..(Size' - 1)
<1>1. DOMAIN steps' = 0..Size
  OBVIOUS
<1>2. Cardinality(0..Size) = Size + 1
  BY FS_Interval
<1>3. Size' = Size + 1
  BY <1>1, <1>2 DEF Size
<1> QED
  BY <1>1, <1>3

LEMMA NothingRecorded == Init => Recorded
<1> SUFFICES ASSUME Init PROVE Recorded
  OBVIOUS
<1>1. DOMAIN steps = {} /\ Size = 0
  BY FS_EmptySet DEF Init, JournalInit, EmptyTable, Size
<1>2. \A t \in Tasks : Tracks(task[t])
  BY DEF Init, Idle, Tracks
<1> QED
  BY <1>1, <1>2, EngineAssumption DEF Recorded

(* A drive stands at most at the end of the log, and at its end the run    *)
(* can go on.                                                              *)
LEMMA Behind ==
    ASSUME LoneWalk, Recorded, NEW t \in Tasks, pc(t) \in Loop
    PROVE  /\ task[t].seq \in 0..Size
           /\ task[t].seq = Size => Unfinished
           /\ pc(t) \in {"stage", "count", "arm-retry", "commit"} => task[t].seq = Size
<1> DEFINE f == task[t]
<1>1. /\ f.seq \in Nat /\ Stands(f) /\ Fresh(f) /\ f.cur \in Stages /\ Size \in Nat
      /\ DOMAIN steps = 0..(Size - 1)
  BY Here DEF LoneWalk, Walk, Mutex, Placed, Recorded, pc
<1>2. f.seq \in 0..Size
  <2> SUFFICES ASSUME f.seq > Size PROVE FALSE
    BY <1>1
  <2>1. Size \in 0..(f.seq - 1)
    BY <1>1
  <2> QED
    BY <1>1, <2>1 DEF Stands
<1>3. f.seq = Size => Unfinished
  BY <1>1, NoStageAssumption DEF Stands, Unfinished, Routes
<1>4. pc(t) \in {"stage", "count", "arm-retry", "commit"} => f.seq = Size
  BY <1>1, <1>2 DEF Fresh, pc
<1> QED
  BY <1>2, <1>3, <1>4

(* A committed result without a destination is the last of the log.        *)
LEMMA LastOne ==
    ASSUME LoneWalk, Recorded, NEW i \in DOMAIN steps, ~Routes(steps[i].result)
    PROVE  i = Size - 1 /\ EndsAs(EndOf(steps[i].result))
<1>1. i \in Nat /\ Size \in Nat /\ i < Size /\ DOMAIN steps = 0..(Size - 1)
  BY DEF Recorded
<1>2. i + 1 \notin DOMAIN steps
  <2> SUFFICES ASSUME i + 1 \in DOMAIN steps PROVE FALSE
    OBVIOUS
  <2>1. steps[i + 1].stage = steps[i].result.to
    BY <1>1 DEF LoneWalk, Walk, LogIsWalk
  <2>2. steps[i + 1].stage \in Stages
    BY DEF LoneWalk, Walk, Mutex, Typed, JournalTyped, JournalTypeOK, StepRecord
  <2> QED
    BY <2>1, <2>2, NoStageAssumption DEF Routes
<1> QED
  BY <1>1, <1>2 DEF EndsAs, Unfinished

(* The commit adds one record at the end of the log.                       *)
LEMMA CommitGrows ==
    ASSUME LoneWalk, Recorded, NEW t \in Tasks, pc(t) = "commit",
           CommitStep(task[t].seq, [stage |-> task[t].cur, result |-> task[t].res])
    PROVE  /\ task[t].seq = Size /\ Size < max_steps /\ Unfinished
           /\ Size' = Size + 1 /\ DOMAIN steps' = 0..(Size' - 1)
           /\ steps'[Size] = [stage |-> task[t].cur, result |-> task[t].res]
           /\ \A i \in DOMAIN steps : steps'[i] = steps[i]
<1>1. task[t].seq = Size /\ Size < max_steps /\ Unfinished
  BY Behind DEF Recorded, Tracks, Loop, pc
<1>2. DOMAIN steps = 0..(Size - 1) /\ Size \in Nat
  BY DEF Recorded
<1>3. steps' = Insert(steps, Size, [stage |-> task[t].cur, result |-> task[t].res])
  BY <1>1, <1>2 DEF CommitStep
<1>4. DOMAIN steps' = DOMAIN steps \cup {Size}
  BY <1>3 DEF Insert
<1>5. /\ steps'[Size] = [stage |-> task[t].cur, result |-> task[t].res]
      /\ \A i \in DOMAIN steps : steps'[i] = steps[i]
  BY <1>2, <1>3 DEF Insert
<1> QED
  BY <1>1, <1>2, <1>4, <1>5, Grows

LEMMA MovesRecorded ==
    ASSUME LoneWalk, Recorded, NEW t \in Tasks, TaskMoves(t) PROVE Recorded'
<1> DEFINE f == task[t]
           g == task'[t]
<1>1. \A u \in Tasks : u # t => task'[u] = task[u]
  BY DEF TaskMoves
<1>2. ASSUME UNCHANGED steps, Tracks(g) PROVE Recorded'
  BY <1>1, <1>2 DEF Recorded, Size, Tracks, Unfinished, EndsAs
<1>3. Tracks(f) /\ (f.pc \in Loop => f.seq \in Nat)
  BY Here DEF LoneWalk, Walk, Mutex, Recorded
<1>4. CASE Comes(t, f, g) \/ Opens(t, f, g)
  BY <1>2, <1>3, <1>4 DEF Comes, Opens, journal, AtTop, Tracks, StartRun, RecordHumanInput, ClaimDueTimers,
     CasWins, SetRunStatus, CancelTimersForRun
<1>5. CASE Reads(f, g)
  <2>1. UNCHANGED steps
    BY <1>5 DEF Reads, journal, CancelTimer
  <2>2. CASE f.pc = "top"
    <3>1. f.seq >= max_steps => Unfinished
      BY <1>3, <2>2, Behind, EngineAssumption DEF Recorded, Loop, pc
    <3> QED
      BY <1>2, <1>5, <2>1, <2>2, <3>1 DEF Reads, Moved, Tracks
  <2>3. CASE f.pc = "read" /\ f.seq \in DOMAIN steps
    <3>1. ~Routes(steps[f.seq].result) => EndsAs(EndOf(steps[f.seq].result))
      BY <2>3, LastOne
    <3> QED
      BY <1>2, <1>3, <1>5, <2>1, <2>3, <3>1 DEF Reads, Moved, Sent, Tracks, EndOf
  <2>4. CASE (f.pc = "read" /\ f.seq \notin DOMAIN steps) \/ f.pc = "unwait"
    BY <1>2, <1>3, <1>5, <2>1, <2>4 DEF Reads, Moved, Sent, Tracks
  <2> QED
    BY <1>5, <2>2, <2>3, <2>4 DEF Reads
<1>6. CASE Runs(t, f, g)
  <2>1. UNCHANGED steps
    BY <1>6 DEF Runs, journal, IncrementAttempt, SetTimer
  <2>2. Unfinished
    BY <1>6, Behind DEF Runs, Loop, pc
  <2> QED
    BY <1>2, <1>3, <1>6, <2>1, <2>2 DEF Runs, Moved, Tracks
<1>7. CASE Writes(f, g) /\ f.pc # "commit"
  <2>1. UNCHANGED steps
    BY <1>7 DEF Writes, SetTimer, SetRunStatus, CancelTimersForRun
  <2> QED
    BY <1>2, <1>7, <2>1 DEF Writes, Moved, Tracks
<1>8. CASE Writes(f, g) /\ f.pc = "commit"
  <2>1. CommitStep(f.seq, [stage |-> f.cur, result |-> f.res])
    BY <1>8 DEF Writes
  <2>2. /\ Size' = Size + 1 /\ DOMAIN steps' = 0..(Size' - 1) /\ Size \in Nat
        /\ Size < max_steps /\ steps'[Size].result = f.res
    BY <1>8, <2>1, CommitGrows DEF Recorded, pc
  <2>3. steps'[Size' - 1].result = f.res /\ Size' # 0
    BY <2>2
  <2>4. Unfinished' <=> Routes(f.res)
    BY <2>3 DEF Unfinished, Routes
  <2>5. Tracks(task[t])'
    BY <1>8, <2>3, <2>4 DEF Writes, Moved, Sent, Tracks, EndsAs, EndOf
  <2>6. ASSUME NEW u \in Tasks, u # t PROVE Tracks(task[u])'
    <3>1. task'[u] = task[u] /\ pc(u) \notin Active
      BY <1>1, <1>8, <2>6 DEF LoneWalk, Lone, Alone, Active, Loop, pc
    <3> QED
      BY <3>1 DEF Tracks, Active, Loop, pc
  <2>7. Size' \in 0..max_steps
    BY <2>2, EngineAssumption
  <2> QED
    BY <2>2, <2>5, <2>6, <2>7 DEF Recorded
<1> QED
  BY <1>4, <1>5, <1>6, <1>7, <1>8 DEF TaskMoves, Moves

LEMMA RecordedGoesOn == LoneWalk /\ Recorded /\ [Next]_vars => Recorded'
<1> SUFFICES ASSUME LoneWalk, Recorded, [Next]_vars PROVE Recorded'
  OBVIOUS
<1>1. ASSUME NEW e \in Engines, Dies(e) PROVE Recorded'
  <2>1. UNCHANGED steps /\ \A t \in Tasks : task'[t] \in {Idle, task[t]}
    BY <1>1 DEF Dies, journal
  <2>2. Tracks(Idle)
    BY DEF Tracks, Idle
  <2> QED
    BY <2>1, <2>2 DEF Recorded, Size, Tracks, Unfinished, EndsAs
<1>2. CASE Passes
  BY <1>2 DEF Passes, Recorded, Size, Tracks, Unfinished, EndsAs
<1> QED
  BY <1>1, <1>2, StepMoves, MovesRecorded DEF LoneWalk, Walk, Mutex

-----------------------------------------------------------------------------
(* The journal, seen as DurableRun sees a run.                             *)

Grown == LoneWalk /\ Recorded

LEMMA GrownInvariant ==
    ASSUME Orderly
    PROVE  (Init => Grown) /\ (Grown /\ [Next]_vars => Grown')
  BY LoneWalkInvariant, NothingRecorded, RecordedGoesOn DEF Grown

(* The instance counts as this module does.                                *)
LEMMA SameCount == Durable!Length = Size
<1>1. Durable!Cardinality(DOMAIN steps) = Cardinality(DOMAIN steps)
  BY DEF Durable!Cardinality, Cardinality
<1> QED
  BY <1>1 DEF Durable!Length, Size

LEMMA SameEnd ==
    /\ Durable!Last = steps[Size - 1]
    /\ Durable!Open <=> Unfinished
<1>1. Durable!Last = steps[Size - 1]
  BY SameCount DEF Durable!Last
<1> QED
  BY <1>1, SameCount DEF Durable!Open, Durable!Routes, Routes, Unfinished

LEMMA DurableBegins == Init => Durable!Init
  BY DEF Init, JournalInit, EmptyTable, NoFingerprint, phase, Durable!Init

(* A run begins when its row is inserted.                                  *)
LEMMA BeginSimulated ==
    ASSUME Grown, NEW t \in Tasks, status = "none", StartRun(Fingerprint(G(t)))
    PROVE  Durable!Begin
<1>1. fingerprint'.entry \in Stages
  BY Graphs DEF StartRun, Fingerprint
<1> QED
  BY <1>1 DEF StartRun, phase, Terminal, Durable!Begin

(* It is extended by each commit.                                          *)
LEMMA ExtendSimulated ==
    ASSUME Grown, NEW t \in Tasks, pc(t) = "commit",
           CommitStep(task[t].seq, [stage |-> task[t].cur, result |-> task[t].res])
    PROVE  Durable!Extend
<1> DEFINE f == task[t]
<1>1. /\ f.seq = Size /\ Unfinished /\ Size \in Nat /\ DOMAIN steps = 0..(Size - 1)
      /\ DOMAIN steps' = 0..(Size' - 1) /\ Size' = Size + 1
      /\ steps'[Size] = [stage |-> f.cur, result |-> f.res]
      /\ \A i \in DOMAIN steps : steps'[i] = steps[i]
  BY CommitGrows DEF Grown, Recorded
<1>2. /\ status \in {"running", "paused"} /\ f.res \in StageResult
      /\ Stands(f) /\ HoldsDeclared(f)
  BY Here DEF Grown, LoneWalk, Lone, Bound, Active, Loop, Walk, Mutex, Placed, pc
<1>3. UNCHANGED <<status, fingerprint>>
  BY DEF CommitStep
<1>4. Durable!Length = Size /\ (Durable!Open <=> Unfinished)
  BY SameCount, SameEnd
<1>5. Durable!NextStage = f.cur
  BY <1>1, <1>2, <1>4, SameEnd DEF Durable!NextStage, Stands
<1>6. phase = "live" /\ UNCHANGED phase
  BY <1>2, <1>3 DEF phase, Terminal
<1>7. f.res \in Durable!StageResult /\ (Routes(f.res) => f.res.to \in fingerprint.edges[f.cur])
  BY <1>2 DEF StageResult, Durable!StageResult, Done, Durable!Done, Degraded, Durable!Degraded,
     HoldsDeclared
<1>8. DOMAIN steps' = 0..Size
  BY <1>1
<1> QED
  BY <1>1, <1>3, <1>4, <1>5, <1>6, <1>7, <1>8 DEF Durable!Extend, Durable!Routes, Routes

(* It ends as its log says.                                                *)
LEMMA EndSimulated ==
    ASSUME Grown, NEW t \in Tasks, pc(t) = "settle", SetRunStatus(task[t].goal)
    PROVE  Durable!End \/ UNCHANGED Durable!vars
<1> DEFINE s == task[t].goal
<1>1. /\ status \in {"running", "paused"} /\ s \in RunStatus \ {"running", "paused"}
      /\ Tracks(task[t])
  BY DEF Grown, LoneWalk, Lone, Bound, Active, Loop, Recorded, pc
<1>2. status' = s /\ UNCHANGED <<fingerprint, steps>>
  BY DEF SetRunStatus
<1>3. Durable!Open <=> Unfinished
  BY SameEnd
<1>4. phase = "live"
  BY <1>1 DEF phase, Terminal
<1>5. CASE s \notin Terminal
  BY <1>1, <1>2, <1>4, <1>5 DEF phase, RunStatus, Durable!vars
<1>6. CASE s = "failed"
  BY <1>1, <1>2, <1>3, <1>4, <1>6 DEF phase, Terminal, Durable!End, Tracks, pc
<1>7. CASE s \in {"completed", "degraded"}
  <2>1. ~Unfinished /\ s = EndOf(steps[Size - 1].result)
    BY <1>1, <1>7 DEF Tracks, EndsAs, pc
  <2>2. Durable!Last = steps[Size - 1]
    BY SameEnd
  <2> QED
    BY <1>2, <1>3, <1>4, <1>7, <2>1, <2>2 DEF phase, Terminal, Durable!End, EndOf
<1> QED
  BY <1>5, <1>6, <1>7 DEF Terminal

LEMMA StepSimulated ==
    ASSUME Orderly, Grown, [Next]_vars PROVE [Durable!Next]_(Durable!vars)
<1>q. ASSUME UNCHANGED <<status, fingerprint, steps>> PROVE UNCHANGED Durable!vars
  BY <1>q DEF Durable!vars, phase
<1>1. ASSUME NEW t \in Tasks, TaskMoves(t) PROVE Durable!Next \/ UNCHANGED Durable!vars
  <2> DEFINE f == task[t]
             g == task'[t]
  <2>1. CASE Comes(t, f, g) \/ Reads(f, g) \/ Runs(t, f, g)
    BY <1>q, <2>1 DEF Comes, Reads, Runs, journal, CancelTimer, IncrementAttempt, SetTimer
  <2>2. CASE Opens(t, f, g)
    <3>1. CASE f.pc = "start" /\ StartRun(Fingerprint(G(t)))
      <4>1. status = "none"
        BY <3>1 DEF Grown, LoneWalk, Lone, Bound
      <4> QED
        BY <3>1, <4>1, BeginSimulated DEF Durable!Next
    <3>2. CASE f.pc = "cas" /\ CasWins(f.seen, "running")
      <4>1. status \in {"waiting", "retrying", "awaiting_human", "paused"}
        BY <3>2 DEF CasWins, Grown, LoneWalk, Lone, Bound
      <4> QED
        BY <3>2, <4>1 DEF CasWins, SetRunStatus, phase, Terminal, Durable!vars
    <3>3. CASE CasWins("running", "paused") \/ CasWins("waiting", "paused")
      BY <3>3 DEF CasWins, SetRunStatus, phase, Terminal, Durable!vars
    <3> QED
      BY <1>q, <2>2, <3>1, <3>2, <3>3 DEF Opens, RecordHumanInput, ClaimDueTimers, CancelTimersForRun
  <2>3. CASE Writes(f, g)
    <3>1. CASE f.pc = "commit"
      BY <2>3, <3>1, ExtendSimulated DEF Writes, Durable!Next, pc
    <3>2. CASE f.pc = "settle"
      BY <2>3, <3>2, EndSimulated DEF Writes, Durable!Next, pc
    <3> QED
      BY <1>q, <2>3, <3>1, <3>2 DEF Writes, SetTimer, CancelTimersForRun
  <2> QED
    BY <1>1, <2>1, <2>2, <2>3 DEF TaskMoves, Moves
<1>2. ASSUME NEW e \in Engines, Dies(e) PROVE UNCHANGED Durable!vars
  BY <1>q, <1>2 DEF Dies, journal
<1>3. CASE Passes
  BY <1>q, <1>3 DEF Passes
<1> QED
  BY <1>1, <1>2, <1>3, StepMoves DEF Grown, LoneWalk, Walk, Mutex

(* The engines, their sweepers and the journal implement the durable run:  *)
(* seen from outside, the log only grows, one committed result after the   *)
(* other along the declared edges, and the run ends once, as its last      *)
(* result says.  A commit never goes to a run that has ended or to a log   *)
(* that is finished, and a failure is never written over a finished log.   *)
THEOREM JournalImplementsDurableRun ==
    ASSUME Orderly PROVE Spec => ImplementsDurableRun
<1>1. Grown /\ [Next]_vars => [Durable!Next]_(Durable!vars)
  BY StepSimulated
<1> QED
  BY <1>1, DurableBegins, GrownInvariant, PTL DEF Spec, ImplementsDurableRun, Durable!Spec

-----------------------------------------------------------------------------
(* The failure ceiling.  A failure is counted at a position the run was    *)
(* sent to, so that the stage there does not change.  A position that is   *)
(* not committed has an attempt to spare, unless the drive there is on its *)
(* way to commit or to fail, or the run has ended.                         *)

Reached(i) ==
    /\ status # "none" /\ i \in Nat /\ (i # 0 => i - 1 \in DOMAIN steps)
    /\ StageAt(i) \in Stages

Room(i, k) == \E e \in Engines : k < GraphOf[e].max_attempts[StageAt(i)] + crashes

LastTry(f, i) == f.seq = i /\ (f.pc = "commit" \/ (f.pc = "settle" /\ f.goal = "failed"))

Spare(i) ==
    Room(i, attempts[i]) \/ status \in Terminal \/ \E t \in Tasks : LastTry(task[t], i)

Bounded ==
    /\ AttemptsBounded
    /\ \A i \in DOMAIN attempts : Reached(i)
    /\ \A i \in DOMAIN attempts \ DOMAIN steps : Spare(i)

(* Where failures were counted, a step leaves the stage what it is.        *)
StagesStay == \A i \in DOMAIN attempts : Reached(i)' /\ StageAt(i)' = StageAt(i)

LEMMA ReachedStays ==
    ASSUME Typed, Typed', Bounded, [Next]_vars PROVE StagesStay
<1> SUFFICES ASSUME NEW i \in DOMAIN attempts PROVE Reached(i)' /\ StageAt(i)' = StageAt(i)
  BY DEF StagesStay
<1>1. Reached(i) /\ status # "none"
  BY DEF Bounded, Reached
<1>2. fingerprint' = fingerprint
  <2>1. ASSUME NEW t \in Tasks, TaskMoves(t) PROVE fingerprint' = fingerprint
    <3> DEFINE f == task[t]
               g == task'[t]
    <3>1. CASE Comes(t, f, g)
      BY <3>1 DEF Comes, journal
    <3>2. CASE Opens(t, f, g)
      BY <1>1, <3>2 DEF Opens, StartRun, RecordHumanInput, ClaimDueTimers, CasWins, SetRunStatus,
         CancelTimersForRun
    <3>3. CASE Reads(f, g)
      BY <3>3 DEF Reads, journal, CancelTimer
    <3>4. CASE Runs(t, f, g)
      BY <3>4 DEF Runs, journal, IncrementAttempt, SetTimer
    <3>5. CASE Writes(f, g)
      BY <3>5 DEF Writes, CommitStep, SetTimer, SetRunStatus, CancelTimersForRun
    <3> QED
      BY <2>1, <3>1, <3>2, <3>3, <3>4, <3>5 DEF TaskMoves, Moves
  <2>2. ASSUME NEW e \in Engines, Dies(e) PROVE fingerprint' = fingerprint
    BY <2>2 DEF Dies, journal
  <2>3. Passes => fingerprint' = fingerprint
    BY DEF Passes
  <2> QED
    BY <2>1, <2>2, <2>3, StepMoves
<1>3. status' # "none"
  BY <1>1, <1>2 DEF Typed, RunTyped
<1>4. \A j \in DOMAIN steps : j \in DOMAIN steps' /\ steps'[j] = steps[j]
  BY StepKeeps DEF Keeps
<1>5. StageAt(i)' = StageAt(i)
  BY <1>1, <1>2, <1>4 DEF StageAt, Reached
<1> QED
  BY <1>1, <1>3, <1>4, <1>5 DEF Reached

LEMMA NothingCounted == Init => Bounded
  BY DEF Init, JournalInit, EmptyTable, Bounded, AttemptsBounded

LEMMA Policies ==
    ASSUME NEW e \in Engines, NEW s \in Stages
    PROVE  GraphOf[e].max_attempts[s] \in Nat \ {0}
  BY EngineAssumption DEF Graph

(* The drive's stage is the one at its position.                           *)
LEMMA AtStage ==
    ASSUME LoneWalk, NEW t \in Tasks, pc(t) \in Loop
    PROVE  /\ Reached(task[t].seq) /\ task[t].cur = StageAt(task[t].seq)
           /\ status \in {"running", "paused"}
<1> DEFINE f == task[t]
<1>1. Stands(f) /\ status \in {"running", "paused"}
  BY DEF LoneWalk, Lone, Bound, Active, Walk, Placed, pc
<1>2. f.seq \in Nat /\ f.cur \in Stages
  BY Here DEF LoneWalk, Walk, Mutex
<1>3. f.seq # 0 => f.seq - 1 \in DOMAIN steps
  <2> SUFFICES ASSUME f.seq # 0 PROVE f.seq - 1 \in DOMAIN steps
    OBVIOUS
  <2>1. f.seq - 1 \in 0..(f.seq - 1)
    BY <1>2
  <2> QED
    BY <1>1, <2>1 DEF Stands
<1>4. f.cur = StageAt(f.seq)
  BY <1>1 DEF Stands, StageAt
<1> QED
  BY <1>1, <1>2, <1>3, <1>4 DEF Reached

(* A step that counts nothing, and takes no last try away.                 *)
LEMMA KeepsBounded ==
    ASSUME Bounded, StagesStay, UNCHANGED <<attempts, crashes>>, DOMAIN steps \subseteq DOMAIN steps',
           status \in Terminal => status' \in Terminal,
           \A i \in DOMAIN attempts \ DOMAIN steps' : \A t \in Tasks :
              LastTry(task[t], i) => status' \in Terminal \/ LastTry(task'[t], i)
    PROVE  Bounded'
<1>1. AttemptsBounded' /\ \A i \in DOMAIN attempts' : Reached(i)'
  BY DEF Bounded, AttemptsBounded, StagesStay
<1>2. ASSUME NEW i \in DOMAIN attempts' \ DOMAIN steps' PROVE Spare(i)'
  <2>1. Spare(i) /\ i \in DOMAIN attempts \ DOMAIN steps'
    BY <1>2 DEF Bounded
  <2>2. Room(i, attempts[i]) => Room(i, attempts[i])'
    BY <2>1 DEF Room, StagesStay
  <2>3. (\E t \in Tasks : LastTry(task[t], i))
           => status' \in Terminal \/ \E t \in Tasks : LastTry(task[t], i)'
    BY <2>1 DEF LastTry
  <2> QED
    BY <2>1, <2>2, <2>3 DEF Spare
<1> QED
  BY <1>1, <1>2 DEF Bounded

(* The failure that is counted had an attempt to spare.                    *)
LEMMA CountsBounded ==
    ASSUME Grown, Bounded, StagesStay, NEW t \in Tasks, TaskMoves(t), pc(t) = "count",
           Runs(t, task[t], task'[t])
    PROVE  Bounded'
<1> DEFINE f == task[t]
           g == task'[t]
           e == Host[t]
           k == ReadAttempt(f.seq)
<1>0. Typed /\ LoneWalk /\ Recorded
  BY DEF Grown, LoneWalk, Walk, Mutex
<1>1. /\ f.seq = Size /\ f.seq \notin DOMAIN steps /\ Reached(f.seq)
      /\ f.cur = StageAt(f.seq) /\ e \in Engines /\ status \in {"running", "paused"}
  <2>1. f.seq = Size /\ Fresh(f) /\ f.pc = "count"
    BY <1>0, Behind DEF LoneWalk, Walk, Loop, pc
  <2> QED
    BY <1>0, <2>1, AtStage, Graphs DEF Loop, Fresh, pc
<1>2. /\ attempts' = Insert(attempts, f.seq, k + 1) /\ UNCHANGED <<status, fingerprint, steps, crashes>>
      /\ \/ k + 1 < GraphOf[e].max_attempts[f.cur]
         \/ LastTry(g, f.seq)
  BY DEF Runs, IncrementAttempt, Moved, LastTry, TaskMoves, G, pc
<1>3. /\ DOMAIN attempts' = DOMAIN attempts \cup {f.seq} /\ attempts'[f.seq] = k + 1
      /\ \A i \in DOMAIN attempts : i # f.seq => attempts'[i] = attempts[i]
  BY <1>2 DEF Insert
<1>4. /\ k \in Nat /\ crashes \in Nat /\ StageAt(f.seq) \in Stages
      /\ \A d \in Engines : GraphOf[d].max_attempts[StageAt(f.seq)] \in Nat \ {0}
  <2>1. StageAt(f.seq) \in Stages
    BY <1>1 DEF Reached
  <2>2. \A d \in Engines : GraphOf[d].max_attempts[StageAt(f.seq)] \in Nat \ {0}
    BY <2>1, Policies
  <2>3. k \in Nat /\ crashes \in Nat
    BY <1>0, EngineAssumption DEF ReadAttempt, Typed, JournalTyped, JournalTypeOK, BooksTyped
  <2> QED
    BY <2>1, <2>2, <2>3
<1>5. \A u \in Tasks : \A i : ~LastTry(task[u], i)
  BY DEF Grown, LoneWalk, Lone, Alone, LastTry, Active, Loop, pc
<1>6. Room(f.seq, k)
  <2>1. CASE f.seq \in DOMAIN attempts
    <3>1. Spare(f.seq)
      BY <1>1, <2>1 DEF Bounded
    <3> QED
      BY <1>1, <1>5, <2>1, <3>1 DEF Spare, ReadAttempt, Terminal
  <2>2. CASE f.seq \notin DOMAIN attempts
    BY <1>1, <1>4, <2>2 DEF Room, ReadAttempt
  <2> QED
    BY <2>1, <2>2
<1>9. \A i : StageAt(i)' = StageAt(i) /\ (Reached(i) => Reached(i)')
  BY <1>2 DEF StageAt, Reached
<1>7. AttemptsBounded' /\ \A i \in DOMAIN attempts' : Reached(i)'
  <2> SUFFICES ASSUME NEW i \in DOMAIN attempts'
               PROVE  /\ Reached(i)'
                      /\ \E d \in Engines :
                            attempts'[i] <= GraphOf[d].max_attempts[StageAt(i)] + crashes
    BY <1>2, <1>9 DEF AttemptsBounded
  <2>1. CASE i = f.seq
    <3>1. PICK d \in Engines : k < GraphOf[d].max_attempts[StageAt(f.seq)] + crashes
      BY <1>6 DEF Room
    <3>2. k + 1 <= GraphOf[d].max_attempts[StageAt(f.seq)] + crashes
      BY <1>4, <3>1
    <3> QED
      BY <1>1, <1>3, <1>9, <2>1, <3>2
  <2>2. CASE i # f.seq
    BY <1>3, <1>9, <2>2 DEF Bounded, AttemptsBounded
  <2> QED
    BY <2>1, <2>2
<1>8. ASSUME NEW i \in DOMAIN attempts' \ DOMAIN steps' PROVE Spare(i)'
  <2>1. CASE i = f.seq
    <3>1. CASE k + 1 < GraphOf[e].max_attempts[f.cur]
      <4>1. k + 1 < GraphOf[e].max_attempts[StageAt(f.seq)] + crashes
        BY <1>1, <1>4, <3>1
      <4>2. Room(f.seq, k + 1)
        BY <1>1, <4>1 DEF Room
      <4> QED
        BY <1>2, <1>3, <1>9, <2>1, <4>2 DEF Spare, Room
    <3>2. CASE LastTry(g, f.seq)
      BY <2>1, <3>2 DEF Spare, LastTry
    <3> QED
      BY <1>2, <3>1, <3>2
  <2>2. CASE i # f.seq
    <3>1. Spare(i) /\ i \in DOMAIN attempts
      BY <1>2, <1>3, <1>8, <2>2 DEF Bounded
    <3>2. Room(i, attempts[i])
      BY <1>1, <1>5, <3>1 DEF Spare, Terminal
    <3> QED
      BY <1>2, <1>3, <1>9, <2>2, <3>1, <3>2 DEF Spare, Room
  <2> QED
    BY <2>1, <2>2
<1> QED
  BY <1>7, <1>8 DEF Bounded

LEMMA MovesKeepBounded ==
    ASSUME Grown, Bounded, StagesStay, NEW t \in Tasks, TaskMoves(t) PROVE Bounded'
<1> DEFINE f == task[t]
           g == task'[t]
<1>1. /\ \A u \in Tasks : u # t => task'[u] = task[u]
      /\ crashes' = crashes /\ Bound(t, f)
  BY DEF TaskMoves, Grown, LoneWalk, Lone
<1>2. CASE Comes(t, f, g)
  <2>1. UNCHANGED <<attempts, steps, status>> /\ \A i : ~LastTry(f, i)
    BY <1>2 DEF Comes, LastTry, journal
  <2> QED
    BY <1>1, <2>1, KeepsBounded
<1>3. CASE Opens(t, f, g)
  <2>1. UNCHANGED <<attempts, steps>> /\ \A i : ~LastTry(f, i)
    BY <1>3 DEF Opens, LastTry, StartRun, RecordHumanInput, ClaimDueTimers, CasWins,
       SetRunStatus, CancelTimersForRun
  <2>2. status \in Terminal => status' \in Terminal
    BY <1>1, <1>3 DEF Opens, StartRun, RecordHumanInput, ClaimDueTimers, CasWins, SetRunStatus,
       CancelTimersForRun, Terminal, Bound
  <2> QED
    BY <1>1, <2>1, <2>2, KeepsBounded
<1>4. CASE Reads(f, g)
  <2>1. UNCHANGED <<attempts, steps, status>> /\ \A i : ~LastTry(f, i)
    BY <1>4 DEF Reads, LastTry, CancelTimer, journal
  <2> QED
    BY <1>1, <2>1, KeepsBounded
<1>5. CASE Runs(t, f, g) /\ f.pc = "count"
  BY <1>5, CountsBounded DEF pc
<1>6. CASE Runs(t, f, g) /\ f.pc # "count"
  <2>1. UNCHANGED <<attempts, steps, status>> /\ \A i : ~LastTry(f, i)
    BY <1>6 DEF Runs, LastTry, SetTimer, journal
  <2> QED
    BY <1>1, <2>1, KeepsBounded
<1>7. CASE Writes(f, g)
  <2>1. CASE f.pc = "commit"
    <3>1. CommitStep(f.seq, [stage |-> f.cur, result |-> f.res])
      BY <1>7, <2>1 DEF Writes
    <3>2. UNCHANGED <<attempts, status>> /\ DOMAIN steps' = DOMAIN steps \cup {f.seq}
      BY <3>1 DEF CommitStep, Insert
    <3>3. \A i \in DOMAIN attempts \ DOMAIN steps' : ~LastTry(f, i)
      BY <3>2 DEF LastTry
    <3> QED
      BY <1>1, <3>2, <3>3, KeepsBounded
  <2>2. CASE f.pc = "settle"
    <3>1. UNCHANGED <<attempts, steps>> /\ status' = f.goal /\ status \notin Terminal
      BY <1>1, <1>7, <2>2 DEF Writes, SetRunStatus, Bound, Active, Loop, Terminal
    <3>2. \A i : LastTry(f, i) => status' \in Terminal
      BY <2>2, <3>1 DEF LastTry, Terminal
    <3> QED
      BY <1>1, <3>1, <3>2, KeepsBounded
  <2>3. CASE f.pc \notin {"commit", "settle"}
    <3>1. UNCHANGED <<attempts, steps, status>> /\ \A i : ~LastTry(f, i)
      BY <1>7, <2>3 DEF Writes, LastTry, SetTimer, CancelTimersForRun
    <3> QED
      BY <1>1, <3>1, KeepsBounded
  <2> QED
    BY <2>1, <2>2, <2>3
<1> QED
  BY <1>2, <1>3, <1>4, <1>5, <1>6, <1>7 DEF TaskMoves, Moves

(* A crash costs an attempt at most: it may take away the drive that was   *)
(* on its last try.                                                        *)
LEMMA DeathKeepsBounded ==
    ASSUME Typed, Bounded, StagesStay, NEW e \in Engines, Dies(e) PROVE Bounded'
<1>1. UNCHANGED <<attempts, steps, status>> /\ crashes' = crashes + 1 /\ crashes \in Nat
  BY EngineAssumption DEF Dies, journal, Typed, BooksTyped
<1>2. ASSUME NEW i \in DOMAIN attempts
      PROVE  \E d \in Engines : /\ attempts[i] < GraphOf[d].max_attempts[StageAt(i)] + crashes'
                                /\ attempts[i] <= GraphOf[d].max_attempts[StageAt(i)] + crashes'
  <2>1. PICK d \in Engines : attempts[i] <= GraphOf[d].max_attempts[StageAt(i)] + crashes
    BY DEF Bounded, AttemptsBounded
  <2>2. attempts[i] \in Nat /\ GraphOf[d].max_attempts[StageAt(i)] \in Nat
    BY Policies DEF Typed, JournalTyped, JournalTypeOK, Bounded, Reached
  <2> QED
    BY <1>1, <2>1, <2>2
<1>3. \A i \in DOMAIN attempts : Room(i, attempts[i])' /\ Reached(i)'
  BY <1>1, <1>2 DEF Room, StagesStay
<1>4. AttemptsBounded'
  BY <1>1, <1>2 DEF AttemptsBounded, StagesStay
<1> QED
  BY <1>1, <1>3, <1>4 DEF Bounded, Spare

LEMMA BoundedGoesOn == Grown /\ Bounded /\ [Next]_vars /\ Typed' => Bounded'
<1> SUFFICES ASSUME Grown, Bounded, [Next]_vars, Typed' PROVE Bounded'
  OBVIOUS
<1>1. Typed
  BY DEF Grown, LoneWalk, Walk, Mutex
<1>2. StagesStay
  BY <1>1, ReachedStays
<1>3. CASE Passes
  BY <1>2, <1>3, KeepsBounded DEF Passes
<1> QED
  BY <1>1, <1>2, <1>3, StepMoves, MovesKeepBounded, DeathKeepsBounded

(* The retry ceiling holds however often the run is retried, replayed and  *)
(* taken over: no position counts more failures than some process's policy *)
(* for the very stage that stands there allows, but for one more per crash *)
(* of any process.  (Processes with one fingerprint may differ in their    *)
(* policies, which it leaves out.)                                         *)
THEOREM FailuresBounded ==
    ASSUME Orderly PROVE Spec => []AttemptsBounded
<1>1. Bounded => AttemptsBounded
  BY DEF Bounded
<1>2. Grown => Typed
  BY DEF Grown, LoneWalk, Walk, Mutex
<1>3. Grown /\ Bounded /\ [Next]_vars /\ Grown' => Bounded'
  <2>1. Grown' => Typed'
    BY DEF Grown, LoneWalk, Walk, Mutex
  <2> QED
    BY <2>1, BoundedGoesOn
<1> QED
  BY <1>1, <1>3, GrownInvariant, NothingCounted, PTL DEF Spec

-----------------------------------------------------------------------------
(* What a parked or stopped run can rely on, in one process.  There, no    *)
(* other task is inside a drive while one is.                              *)

LEMMA OneInside ==
    ASSUME OneProcess, Mutex, NEW t \in Tasks, pc(t) \in Driving
    PROVE  \A u \in Tasks : u # t => pc(u) \notin Driving
  BY EngineAssumption DEF OneProcess, Mutex, InProcessMutex

(* A task outside of every drive arms and cancels nothing, and writes only *)
(* a pause over a status.                                                  *)
LEMMA OutsideMoves ==
    ASSUME NEW t \in Tasks, TaskMoves(t), pc(t) \notin Driving
    PROVE  /\ UNCHANGED <<fingerprint, steps, attempts, answers>> /\ DOMAIN timers' = DOMAIN timers
           /\ status' = status \/ (status \in {"running", "waiting"} /\ status' = "paused")
           /\ task'[t] = task[t] \/ task'[t].pc \notin Loop \cup Leaving \cup {"clear"}
              \/ (task'[t].pc = "top" /\ UNCHANGED status)
<1> DEFINE f == task[t]
           g == task'[t]
<1>1. f.pc \notin Opening \cup Loop \cup Leaving
  BY DEF Driving, pc
<1>2. CASE Comes(t, f, g)
  BY <1>1, <1>2 DEF Comes, AtTop, Loop, Leaving, Opening, journal
<1>3. CASE Opens(t, f, g)
  BY <1>1, <1>3 DEF Opens, AtTop, CasWins, SetRunStatus, ClaimDueTimers, Loop, Leaving, Opening
<1>4. ~Reads(f, g) /\ ~Runs(t, f, g) /\ ~Writes(f, g)
  BY <1>1 DEF Reads, Runs, Writes, Loop, Leaving
<1> QED
  BY <1>2, <1>3, <1>4 DEF TaskMoves, Moves

(* A drive on its way out leaves no timer, or a run that a timer, or an    *)
(* operator, will wake.                                                    *)
Tidy(f) ==
    /\ f.pc = "settle" => f.goal \notin {"running", "paused"}
    /\ f.pc = "exit" => DOMAIN timers = {} \/ status \in {"waiting", "retrying", "paused"}

AllTidy == \A t \in Tasks : Tidy(task[t])

LEMMA MovesTidy ==
    ASSUME OneProcess, Mutex, AllTidy, NEW t \in Tasks, TaskMoves(t) PROVE AllTidy'
<1> DEFINE f == task[t]
           g == task'[t]
<1>1. \A u \in Tasks : u # t => task'[u] = task[u]
  BY DEF TaskMoves
<1>2. CASE pc(t) \notin Driving
  <2>1. /\ DOMAIN timers' = DOMAIN timers
        /\ status' = status \/ (status \in {"running", "waiting"} /\ status' = "paused")
        /\ g = f \/ g.pc \notin {"settle", "exit"}
    BY <1>2, OutsideMoves DEF Loop, Leaving
  <2> QED
    BY <1>1, <2>1 DEF AllTidy, Tidy
<1>3. CASE pc(t) \in Driving
  <2>1. \A u \in Tasks : u # t => task'[u].pc \notin {"settle", "exit"}
    BY <1>1, <1>3, OneInside DEF Driving, Loop, Leaving, pc
  <2>2. Tidy(task[t])'
    <3>1. CASE Comes(t, f, g) \/ Opens(t, f, g)
      BY <1>3, <3>1 DEF Comes, Opens, AtTop, Tidy, Driving, Opening, Loop, Leaving, pc
    <3>2. CASE Reads(f, g) \/ Runs(t, f, g)
      BY <3>2 DEF Reads, Runs, Moved, Sent, Tidy, EndOf, journal
    <3>3. CASE Writes(f, g)
      <4>1. f.pc = "settle" => f.goal \notin {"running", "paused"}
        BY DEF AllTidy, Tidy
      <4>2. CancelTimersForRun => DOMAIN timers' = {}
        BY DEF CancelTimersForRun, Delete
      <4> QED
        BY <3>3, <4>1, <4>2 DEF Writes, Moved, Sent, Tidy, EndOf, SetRunStatus
    <3> QED
      BY <3>1, <3>2, <3>3 DEF TaskMoves, Moves
  <2> QED
    BY <2>1, <2>2 DEF AllTidy, Tidy
<1> QED
  BY <1>2, <1>3

LEMMA TidyGoesOn == OneProcess /\ Mutex /\ AllTidy /\ [Next]_vars => AllTidy'
<1> SUFFICES ASSUME OneProcess, Mutex, AllTidy, [Next]_vars PROVE AllTidy'
  OBVIOUS
<1>1. ASSUME NEW e \in Engines, Dies(e) PROVE AllTidy'
  BY <1>1 DEF Dies, AllTidy, Tidy, Idle, journal
<1>2. CASE Passes
  BY <1>2 DEF Passes, AllTidy, Tidy
<1> QED
  BY <1>1, <1>2, StepMoves, MovesTidy DEF Mutex

(* Before anybody died: timers armed for a run that is over or waits for a *)
(* human are about to be cancelled, or to be those of a run that sleeps.   *)
Stopped == Terminal \cup {"awaiting_human"}

Swept == crashes = 0 /\ status \in Stopped /\ DOMAIN timers # {}
            => \E t \in Tasks : pc(t) \in {"settle", "cleanup"}

LEMMA MovesSwept ==
    ASSUME OneProcess, Mutex, AllTidy, Swept, NEW t \in Tasks, TaskMoves(t) PROVE Swept'
<1> DEFINE f == task[t]
           g == task'[t]
<1> SUFFICES ASSUME crashes' = 0, status' \in Stopped, DOMAIN timers' # {}
             PROVE  \E u \in Tasks : task'[u].pc \in {"settle", "cleanup"}
  BY DEF Swept, Stopped, pc
<1>1. crashes = 0 /\ \A u \in Tasks : u # t => task'[u] = task[u]
  BY DEF TaskMoves
<1>2. CASE pc(t) \notin Driving
  <2>1. DOMAIN timers # {} /\ status \in Stopped
    BY <1>2, OutsideMoves DEF Stopped, Terminal
  <2>2. PICK u \in Tasks : task[u].pc \in {"settle", "cleanup"}
    BY <1>1, <2>1 DEF Swept, pc
  <2> QED
    BY <1>1, <1>2, <2>2 DEF Driving, Loop, Leaving, pc
<1>3. CASE pc(t) \in Driving
  <2>1. DOMAIN timers # {} /\ status \in Stopped => f.pc \in {"settle", "cleanup"}
    <3> HAVE DOMAIN timers # {} /\ status \in Stopped
    <3>1. PICK u \in Tasks : task[u].pc \in {"settle", "cleanup"}
      BY <1>1 DEF Swept, pc
    <3> QED
      BY <1>3, <3>1, OneInside DEF Driving, Loop, Leaving, pc
  <2>2. g.pc \in {"settle", "cleanup"}
    <3>1. CASE Comes(t, f, g)
      BY <1>3, <2>1, <3>1 DEF Comes, journal, Driving, Opening, Loop, Leaving, pc
    <3>2. CASE Opens(t, f, g)
      BY <1>3, <2>1, <3>2
      DEF Opens, StartRun, RecordHumanInput, CasWins, SetRunStatus, CancelTimersForRun, Delete, Stopped,
          Terminal, Driving, Opening, Loop, Leaving, pc
    <3>3. CASE Reads(f, g)
      BY <2>1, <3>3 DEF Reads, Moved, Sent, CancelTimer, Delete, journal
    <3>4. CASE Runs(t, f, g)
      BY <2>1, <3>4 DEF Runs, Moved, IncrementAttempt, SetTimer, journal
    <3>5. CASE Writes(f, g)
      BY <2>1, <3>5
      DEF Writes, Moved, Sent, CommitStep, SetTimer, SetRunStatus, CancelTimersForRun, Delete,
          Stopped, Terminal
    <3> QED
      BY <3>1, <3>2, <3>3, <3>4, <3>5 DEF TaskMoves, Moves
  <2> QED
    BY <2>2
<1> QED
  BY <1>2, <1>3

LEMMA SweptGoesOn == OneProcess /\ Mutex /\ AllTidy /\ Swept /\ [Next]_vars => Swept'
<1> SUFFICES ASSUME OneProcess, Mutex, AllTidy, Swept, [Next]_vars PROVE Swept'
  OBVIOUS
<1>1. ASSUME NEW e \in Engines, Dies(e) PROVE Swept'
  <2>1. crashes \in Nat /\ crashes' = crashes + 1
    BY <1>1, EngineAssumption DEF Dies, Mutex, Typed, BooksTyped
  <2> QED
    BY <2>1 DEF Swept
<1>2. CASE Passes
  BY <1>2 DEF Passes, Swept, pc
<1> QED
  BY <1>1, <1>2, StepMoves, MovesSwept DEF Mutex

(* With one process: when the drive that ended the run or parked it for a  *)
(* human leaves, no timer is armed, the leftovers of drives that crashed   *)
(* before it included; and none is at any time later while nobody drives   *)
(* the run, as long as no process has died.  So no sweep has a run that is *)
(* over, or a question that is not answered, to wake.                      *)
THEOREM NoTimerOutlives ==
    ASSUME OneProcess PROVE Spec => []StoppedHasNoTimer
<1>1. Init => Mutex /\ AllTidy /\ Swept
  BY WalkBegins DEF Walk, Init, JournalInit, AllTidy, Tidy, Swept, Stopped, Terminal, Idle
<1>2. Mutex /\ AllTidy /\ Swept /\ [Next]_vars => (Mutex /\ AllTidy /\ Swept)'
  BY MutexKept, TidyGoesOn, SweptGoesOn
<1>3. AllTidy /\ Swept => StoppedHasNoTimer
  BY DEF AllTidy, Tidy, Swept, Stopped, StoppedHasNoTimer, Terminal, Driving, Loop, Leaving, pc
<1> QED
  BY <1>1, <1>2, <1>3, PTL DEF Spec

-----------------------------------------------------------------------------
(* The wake-up of a parked run.                                            *)

WaitArmed == WaitTimer(Size - 1) \in DOMAIN timers
RetryArmed == RetryTimer(Size, ReadAttempt(Size)) \in DOMAIN timers

(* What a drive is about to do has been prepared: the timer of the status  *)
(* it is about to write, and the answer with which it takes the run over.  *)
Armed(f) ==
    /\ f.pc = "arm-wait" => Size > 0 /\ f.seq = Size - 1
    /\ f.pc = "arm-retry" => f.tries = ReadAttempt(f.seq)
    /\ f.pc = "settle" /\ f.goal = "waiting" => WaitArmed
    /\ f.pc = "settle" /\ f.goal = "retrying" => RetryArmed
    /\ f.pc = "cleanup" => status \in Terminal \cup {"awaiting_human"}
    /\ f.pc = "record" => Size > 0 /\ f.seq = Size - 1
    /\ f.pc = "cas" /\ f.seen = "awaiting_human" => Size - 1 \in DOMAIN answers

WillWake ==
    /\ status = "waiting" => WaitArmed
    /\ status = "retrying" => RetryArmed
    /\ \A t \in Tasks : Armed(task[t])

LEMMA SameLog ==
    ASSUME UNCHANGED <<steps, attempts, answers>>, DOMAIN timers' = DOMAIN timers
    PROVE  /\ Size' = Size /\ WaitArmed' = WaitArmed /\ RetryArmed' = RetryArmed
           /\ \A i : ReadAttempt(i)' = ReadAttempt(i)
  BY DEF Size, WaitArmed, RetryArmed, ReadAttempt

LEMMA NobodyParked == Init => WillWake
  BY DEF Init, JournalInit, Idle, WillWake, Armed

(* A step from outside of every drive.                                     *)
LEMMA OutsideWakes ==
    ASSUME Grown, WillWake, NEW t \in Tasks, TaskMoves(t), pc(t) \notin Driving
    PROVE  WillWake'
<1> DEFINE f == task[t]
           g == task'[t]
<1>1. /\ UNCHANGED <<steps, attempts, answers>> /\ DOMAIN timers' = DOMAIN timers
      /\ status' = status \/ (status \in {"running", "waiting"} /\ status' = "paused")
  BY OutsideMoves
<1>2. /\ Size' = Size /\ WaitArmed' = WaitArmed /\ RetryArmed' = RetryArmed
      /\ \A i : ReadAttempt(i)' = ReadAttempt(i)
  BY <1>1, SameLog
<1>3. ASSUME NEW u \in Tasks, task'[u] = task[u] PROVE Armed(task[u])'
  BY <1>1, <1>2, <1>3 DEF WillWake, Armed, Terminal
<1>4. Armed(task[t])'
  <2>1. CASE g = f
    BY <1>3, <2>1
  <2>2. CASE Comes(t, f, g)
    <3>1. g.pc = "record" => Size > 0 /\ g.seq = Size - 1
      <4> SUFFICES ASSUME g.pc = "record" PROVE Size > 0 /\ g.seq = Size - 1
        OBVIOUS
      <4>1. g.seq \in DOMAIN steps /\ \A i \in DOMAIN steps : i <= g.seq
        BY <2>2 DEF Comes, AtTop
      <4>2. DOMAIN steps = 0..(Size - 1) /\ Size \in Nat
        BY DEF Grown, Recorded
      <4>3. g.seq \in 0..(Size - 1) /\ Size - 1 \in DOMAIN steps
        BY <4>1, <4>2
      <4>4. Size - 1 <= g.seq
        BY <4>1, <4>3
      <4> QED
        BY <4>2, <4>3, <4>4
    <3>2. g.pc = "cas" => g.seen # "awaiting_human"
      BY <2>2 DEF Comes, AtTop
    <3>3. g.pc \notin {"arm-wait", "arm-retry", "settle", "cleanup"}
      BY <2>2 DEF Comes, AtTop
    <3> QED
      BY <1>2, <3>1, <3>2, <3>3 DEF Armed
  <2>3. CASE Opens(t, f, g) /\ g # f
    <3>1. g.pc = "idle"
      BY <2>3 DEF Opens, Driving, Opening, pc
    <3> QED
      BY <3>1 DEF Armed
  <2>4. ~Reads(f, g) /\ ~Runs(t, f, g) /\ ~Writes(f, g)
    BY DEF Reads, Runs, Writes, Driving, Loop, Leaving, pc
  <2> QED
    BY <2>1, <2>2, <2>3, <2>4 DEF TaskMoves, Moves
<1>5. \A u \in Tasks : Armed(task[u])'
  BY <1>3, <1>4 DEF TaskMoves
<1> QED
  BY <1>1, <1>2, <1>5 DEF WillWake

(* The frame a drive moves to is prepared for.                             *)
LEMMA DriveArmed ==
    ASSUME Grown, WillWake, NEW t \in Tasks, TaskMoves(t), pc(t) \in Driving
    PROVE  Armed(task[t])'
<1> DEFINE f == task[t]
           g == task'[t]
<1>1. /\ Armed(f) /\ Bound(t, f) /\ LoneWalk /\ Recorded /\ Size \in Nat
      /\ DOMAIN steps = 0..(Size - 1)
  BY DEF WillWake, Grown, LoneWalk, Lone, Recorded
<1>2. CASE Comes(t, f, g)
  <2>1. g.pc \in {"start", "idle", "stopped"}
    BY <1>2 DEF Comes, Driving, Opening, Loop, Leaving, pc
  <2> QED
    BY <2>1 DEF Armed
<1>3. CASE Opens(t, f, g)
  <2>1. CASE f.pc = "record"
    <3>1. f.seq = Size - 1 /\ UNCHANGED steps
      BY <1>1, <1>3, <2>1 DEF Opens, Armed, RecordHumanInput
    <3>2. f.seq \in DOMAIN answers' /\ g.pc = "cas"
      BY <1>3, <2>1 DEF Opens, RecordHumanInput, Insert
    <3> QED
      BY <3>1, <3>2 DEF Armed, Size
  <2>2. CASE f.pc # "record"
    BY <1>3, <2>2 DEF Opens, AtTop, Armed, Driving, Opening, Loop, Leaving, pc
  <2> QED
    BY <2>1, <2>2
<1>4. CASE Reads(f, g)
  BY <1>4 DEF Reads, Moved, Sent, Armed, EndOf
<1>5. CASE Runs(t, f, g)
  <2>1. CASE f.pc = "count"
    <3>1. attempts' = Insert(attempts, f.seq, ReadAttempt(f.seq) + 1)
      BY <1>5, <2>1 DEF Runs, IncrementAttempt
    <3>2. \A i : i = f.seq => i \in DOMAIN attempts' /\ attempts'[i] = ReadAttempt(f.seq) + 1
      BY <3>1 DEF Insert
    <3>3. g.pc = "arm-retry" => g.tries = ReadAttempt(f.seq) + 1 /\ g.seq = f.seq
      BY <1>5, <2>1 DEF Runs, Moved
    <3>4. g.pc \in {"arm-retry", "commit"} \/ (g.pc = "settle" /\ g.goal = "failed")
      BY <1>5, <2>1 DEF Runs, Moved
    <3>5. g.pc = "arm-retry" => g.tries = IF g.seq \in DOMAIN attempts' THEN attempts'[g.seq] ELSE 0
      BY <3>2, <3>3
    <3> QED
      BY <3>4, <3>5 DEF Armed, ReadAttempt
  <2>2. CASE f.pc = "arm-retry"
    <3>1. f.seq = Size /\ f.tries = ReadAttempt(Size)
      BY <1>1, <2>2, Behind DEF Armed, Loop, pc
    <3>2. UNCHANGED <<steps, attempts>> /\ RetryTimer(f.seq, f.tries) \in DOMAIN timers'
      BY <1>5, <2>2 DEF Runs, SetTimer, Insert
    <3>3. RetryArmed'
      BY <3>1, <3>2 DEF RetryArmed, Size, ReadAttempt
    <3>4. g.pc = "settle" /\ g.goal = "retrying"
      BY <1>5, <2>2 DEF Runs, Moved
    <3> QED
      BY <3>3, <3>4 DEF Armed
  <2>3. CASE f.pc = "stage"
    BY <1>5, <2>3 DEF Runs, Moved, Armed
  <2> QED
    BY <1>5, <2>1, <2>2, <2>3 DEF Runs
<1>6. CASE Writes(f, g)
  <2>1. CASE f.pc = "commit"
    <3>1. f.seq = Size /\ Size' = Size + 1
      BY <1>1, <1>6, <2>1, CommitGrows DEF Writes, pc
    <3>2. g.pc = "arm-wait" => g.seq = f.seq
      BY <1>6, <2>1 DEF Writes, Moved, Sent
    <3>3. \/ g.pc \in {"arm-wait", "top"}
          \/ g.pc = "settle" /\ g.goal \notin {"waiting", "retrying"}
      BY <1>6, <2>1 DEF Writes, Moved, Sent, EndOf
    <3> QED
      BY <1>1, <3>1, <3>2, <3>3 DEF Armed
  <2>2. CASE f.pc = "arm-wait"
    <3>1. f.seq = Size - 1 /\ UNCHANGED steps /\ WaitTimer(f.seq) \in DOMAIN timers'
      BY <1>1, <1>6, <2>2 DEF Writes, Armed, SetTimer, Insert
    <3>2. WaitArmed'
      BY <3>1 DEF WaitArmed, Size
    <3>3. g.pc = "settle" /\ g.goal = "waiting"
      BY <1>6, <2>2 DEF Writes, Moved
    <3> QED
      BY <3>2, <3>3 DEF Armed
  <2>3. CASE f.pc = "settle"
    BY <1>1, <1>6, <2>3 DEF Writes, Moved, SetRunStatus, Bound, Armed, RunStatus, Terminal
  <2>4. CASE f.pc = "cleanup"
    BY <1>6, <2>4 DEF Writes, Moved, Armed
  <2> QED
    BY <1>6, <2>1, <2>2, <2>3, <2>4 DEF Writes
<1> QED
  BY <1>2, <1>3, <1>4, <1>5, <1>6 DEF TaskMoves, Moves

(* While the run is parked no drive touches its log or its timers; and the *)
(* status that parks it is written with the timer in place.                *)
LEMMA DriveWakes ==
    ASSUME Grown, WillWake, NEW t \in Tasks, TaskMoves(t)
    PROVE  (status' = "waiting" => WaitArmed') /\ (status' = "retrying" => RetryArmed')
<1> DEFINE f == task[t]
           g == task'[t]
<1>1. Armed(f) /\ Bound(t, f)
  BY DEF WillWake, Grown, LoneWalk, Lone
<1>2. ASSUME UNCHANGED <<steps, attempts, answers>>, DOMAIN timers' = DOMAIN timers,
             status' = status \/ status' \notin {"waiting", "retrying"}
      PROVE  (status' = "waiting" => WaitArmed') /\ (status' = "retrying" => RetryArmed')
  BY <1>2, SameLog DEF WillWake
<1>3. ASSUME f.pc \in Active \cup {"cleanup"}, status' = status
      PROVE  status' \notin {"waiting", "retrying"}
  BY <1>1, <1>3 DEF Armed, Bound, Terminal
<1>4. CASE Comes(t, f, g)
  BY <1>2, <1>4 DEF Comes, journal
<1>5. CASE Opens(t, f, g)
  <2>1. CASE f.pc = "record"
    <3>1. UNCHANGED <<status, steps, attempts, timers>>
      BY <1>5, <2>1 DEF Opens, RecordHumanInput
    <3> QED
      BY <3>1 DEF WillWake, WaitArmed, RetryArmed, Size, ReadAttempt
  <2>2. CASE f.pc = "clear"
    BY <1>3, <1>5, <2>2 DEF Opens, CancelTimersForRun, Active
  <2>3. CASE f.pc \notin {"record", "clear"}
    BY <1>2, <1>5, <2>3 DEF Opens, StartRun, ClaimDueTimers, CasWins, SetRunStatus
  <2> QED
    BY <2>1, <2>2, <2>3
<1>6. CASE Reads(f, g) \/ Runs(t, f, g)
  <2>1. f.pc \in Active /\ status' = status
    BY <1>6 DEF Reads, Runs, CancelTimer, IncrementAttempt, SetTimer, journal, Active, Loop
  <2> QED
    BY <1>3, <2>1
<1>7. CASE Writes(f, g) /\ f.pc # "settle"
  <2>1. f.pc \in Active \cup {"cleanup"} /\ status' = status
    BY <1>7 DEF Writes, CommitStep, SetTimer, CancelTimersForRun, Active, Loop
  <2> QED
    BY <1>3, <2>1
<1>8. CASE Writes(f, g) /\ f.pc = "settle"
  <2>1. status' = f.goal /\ UNCHANGED <<steps, attempts, timers>>
    BY <1>8 DEF Writes, SetRunStatus
  <2> QED
    BY <1>1, <1>8, <2>1 DEF Armed, WaitArmed, RetryArmed, Size, ReadAttempt
<1> QED
  BY <1>4, <1>5, <1>6, <1>7, <1>8 DEF TaskMoves, Moves

LEMMA WakesGoesOn == OneProcess /\ Grown /\ WillWake /\ [Next]_vars => WillWake'
<1> SUFFICES ASSUME OneProcess, Grown, WillWake, [Next]_vars PROVE WillWake'
  OBVIOUS
<1>0. Mutex /\ Typed
  BY DEF Grown, LoneWalk, Walk, Mutex
<1>1. ASSUME NEW t \in Tasks, TaskMoves(t), pc(t) \in Driving PROVE WillWake'
  <2>1. ASSUME NEW u \in Tasks, u # t PROVE Armed(task[u])'
    <3>1. task'[u] = task[u] /\ pc(u) \notin Driving
      BY <1>0, <1>1, <2>1, OneInside DEF TaskMoves
    <3> QED
      BY <3>1 DEF Armed, Driving, Opening, Loop, Leaving, pc
  <2> QED
    BY <1>1, <2>1, DriveArmed, DriveWakes DEF WillWake
<1>2. ASSUME NEW e \in Engines, Dies(e) PROVE WillWake'
  <2>1. UNCHANGED <<status, steps, attempts, timers, answers>>
        /\ \A t \in Tasks : task'[t] \in {Idle, task[t]}
    BY <1>2 DEF Dies, journal
  <2>2. /\ Size' = Size /\ WaitArmed' = WaitArmed /\ RetryArmed' = RetryArmed
        /\ \A i : ReadAttempt(i)' = ReadAttempt(i)
    BY <2>1, SameLog
  <2>3. ASSUME NEW t \in Tasks PROVE Armed(task[t])'
    <3>1. CASE task'[t] = Idle
      BY <3>1 DEF Armed, Idle
    <3>2. CASE task'[t] = task[t]
      BY <2>1, <2>2, <3>2 DEF WillWake, Armed
    <3> QED
      BY <2>1, <3>1, <3>2
  <2> QED
    BY <2>1, <2>2, <2>3 DEF WillWake
<1>3. CASE Passes
  <2>1. /\ Size' = Size /\ WaitArmed' = WaitArmed /\ RetryArmed' = RetryArmed
        /\ \A i : ReadAttempt(i)' = ReadAttempt(i)
    BY <1>3, SameLog DEF Passes
  <2> QED
    BY <1>3, <2>1 DEF Passes, WillWake, Armed
<1> QED
  BY <1>0, <1>1, <1>2, <1>3, StepMoves, OutsideWakes

(* A run parked on a timer has the very timer that will wake it, whatever  *)
(* crashed between arming it and parking, and however often the run was    *)
(* parked, woken, paused and replayed before.                              *)
THEOREM ParkedIsWoken ==
    ASSUME Orderly, OneProcess PROVE Spec => []ParkedHasTimer
<1>1. WillWake => ParkedHasTimer
  BY DEF WillWake, ParkedHasTimer, WaitArmed, RetryArmed, Size
<1> QED
  BY <1>1, GrownInvariant, NobodyParked, WakesGoesOn, PTL DEF Spec

-----------------------------------------------------------------------------
(* The human gate.  A question at the end of the log that has no answer    *)
(* holds the run: it is parked for a human, or about to be.                *)

Pending ==
    Size > 0 /\ steps[Size - 1].result.kind = "await-human" /\ Size - 1 \notin DOMAIN answers

Asks(t) == pc(t) = "settle" /\ task[t].goal = "awaiting_human"

Gated ==
    crashes = 0 =>
        /\ AnsweredBeforePassed
        /\ Pending => status = "awaiting_human" \/ \E t \in Tasks : Asks(t)

(* The log and its answers as they were, or one more answer.               *)
LEMMA Answered ==
    ASSUME UNCHANGED steps, DOMAIN answers \subseteq DOMAIN answers'
    PROVE  (AnsweredBeforePassed => AnsweredBeforePassed') /\ (Pending' => Pending)
  BY DEF AnsweredBeforePassed, Pending, Size

(* A drive that holds the run has no question before it; one at its commit *)
(* or in its CAS finds none either.                                        *)
LEMMA NoQuestion ==
    ASSUME OneProcess, Grown, WillWake, Gated, crashes = 0, NEW t \in Tasks,
           (pc(t) \in Active /\ ~Asks(t)) \/ pc(t) = "start" \/ (pc(t) = "cas" /\ status = task[t].seen)
    PROVE  ~Pending
<1> SUFFICES ASSUME Pending PROVE FALSE
  OBVIOUS
<1>1. Bound(t, task[t]) /\ Armed(task[t]) /\ Mutex
  BY DEF Grown, LoneWalk, Lone, WillWake, Walk
<1>2. pc(t) \in Driving
  BY DEF Active, Driving, Opening
<1>3. \A u \in Tasks : ~Asks(u)
  <2> SUFFICES ASSUME NEW u \in Tasks, Asks(u) PROVE FALSE
    OBVIOUS
  <2>1. pc(u) \in Driving /\ pc(u) = "settle"
    BY DEF Asks, Driving, Loop
  <2>2. u = t
    BY <1>1, <1>2, <2>1, OneInside
  <2> QED
    BY <2>1, <2>2
<1>4. status = "awaiting_human"
  BY <1>3 DEF Gated
<1> QED
  BY <1>1, <1>4 DEF Bound, Armed, Active, Pending, pc

LEMMA MovesGated ==
    ASSUME OneProcess, Grown, WillWake, Gated, NEW t \in Tasks, TaskMoves(t) PROVE Gated'
<1> DEFINE f == task[t]
           g == task'[t]
<1> SUFFICES ASSUME crashes = 0, crashes' = 0 PROVE Gated'
  BY DEF Gated, TaskMoves
<1>1. /\ \A u \in Tasks : u # t => task'[u] = task[u]
      /\ Bound(t, f) /\ LoneWalk /\ Recorded
  BY DEF TaskMoves, Grown, LoneWalk, Lone
<1>2. \A u \in Tasks : u # t /\ Asks(u) => Asks(u)'
  BY <1>1 DEF Asks, pc
<1>3. ASSUME UNCHANGED steps, DOMAIN answers \subseteq DOMAIN answers',
             \/ ~Pending
             \/ status' = "awaiting_human"
             \/ ~Asks(t) /\ (status = "awaiting_human" => status' = "awaiting_human")
      PROVE  Gated'
  BY <1>2, <1>3, Answered DEF Gated
<1>4. CASE Comes(t, f, g)
  <2>1. ~Asks(t)
    BY <1>4 DEF Comes, Asks, pc
  <2> QED
    BY <1>3, <1>4, <2>1 DEF Comes, journal
<1>5. CASE Opens(t, f, g)
  <2>1. ~Asks(t)
    BY <1>5 DEF Opens, Asks, pc
  <2>2. UNCHANGED steps /\ DOMAIN answers \subseteq DOMAIN answers'
    BY <1>5 DEF Opens, StartRun, RecordHumanInput, ClaimDueTimers, CasWins, SetRunStatus,
       CancelTimersForRun, Insert
  <2>3. CASE f.pc \in {"start", "cas"}
    <3>1. f.pc = "cas" => status = f.seen
      BY <1>5, <2>3 DEF Opens, CasWins
    <3>2. ~Pending
      BY <2>3, <3>1, NoQuestion DEF pc
    <3> QED
      BY <1>3, <2>2, <3>2
  <2>4. CASE f.pc \notin {"start", "cas"}
    <3>1. status = "awaiting_human" => status' = "awaiting_human"
      BY <1>5, <2>4 DEF Opens, RecordHumanInput, ClaimDueTimers, CasWins, SetRunStatus, CancelTimersForRun
    <3> QED
      BY <1>3, <2>1, <2>2, <3>1
  <2> QED
    BY <2>3, <2>4
<1>6. CASE Reads(f, g) \/ Runs(t, f, g)
  <2>1. ~Asks(t) /\ pc(t) \in Active
    BY <1>6 DEF Reads, Runs, Asks, Active, Loop, pc
  <2>2. UNCHANGED <<steps, answers, status>>
    BY <1>6 DEF Reads, Runs, journal, CancelTimer, IncrementAttempt, SetTimer
  <2> QED
    BY <1>3, <2>1, <2>2
<1>7. CASE Writes(f, g) /\ f.pc # "commit"
  <2>1. UNCHANGED <<steps, answers>>
    BY <1>7 DEF Writes, SetTimer, SetRunStatus, CancelTimersForRun
  <2>2. CASE f.pc = "settle"
    <3>1. status' = f.goal
      BY <1>7, <2>2 DEF Writes, SetRunStatus
    <3>2. ~Asks(t) => ~Pending
      BY <2>2, NoQuestion DEF Active, Loop, pc
    <3> QED
      BY <1>3, <2>1, <3>1, <3>2 DEF Asks
  <2>3. CASE f.pc # "settle"
    <3>1. ~Asks(t) /\ status' = status
      BY <1>7, <2>3 DEF Writes, SetTimer, CancelTimersForRun, Asks, pc
    <3> QED
      BY <1>3, <2>1, <3>1
  <2> QED
    BY <2>2, <2>3
<1>8. CASE Writes(f, g) /\ f.pc = "commit"
  <2>1. CommitStep(f.seq, [stage |-> f.cur, result |-> f.res]) /\ UNCHANGED answers
    BY <1>8 DEF Writes, CommitStep
  <2>2. /\ Size' = Size + 1 /\ DOMAIN steps' = 0..(Size' - 1) /\ Size \in Nat
        /\ DOMAIN steps = 0..(Size - 1)
        /\ steps'[Size].result = f.res /\ \A i \in DOMAIN steps : steps'[i] = steps[i]
    BY <1>1, <1>8, <2>1, CommitGrows DEF Recorded, pc
  <2>3. ~Pending
    BY <1>8, NoQuestion DEF Asks, Active, Loop, pc
  <2>4. AnsweredBeforePassed'
    <3> SUFFICES ASSUME NEW i \in DOMAIN steps', steps'[i].result.kind = "await-human",
                        i + 1 \in DOMAIN steps'
                 PROVE  i \in DOMAIN answers
      BY <2>1 DEF AnsweredBeforePassed
    <3>1. i \in 0..(Size - 1) /\ i \in DOMAIN steps /\ steps[i].result.kind = "await-human"
      BY <2>2
    <3>2. CASE i = Size - 1
      BY <2>2, <2>3, <3>1, <3>2 DEF Pending
    <3>3. CASE i # Size - 1
      <4>1. i + 1 \in DOMAIN steps
        BY <2>2, <3>1, <3>3
      <4> QED
        BY <3>1, <4>1 DEF Gated, AnsweredBeforePassed
    <3> QED
      BY <3>2, <3>3
  <2>5. Pending' => f.res.kind = "await-human"
    BY <2>2 DEF Pending
  <2>6. f.res.kind = "await-human" => Routes(f.res)
    BY Here, Results, NoStageAssumption DEF Grown, LoneWalk, Walk, Mutex, Routes
  <2>7. f.res.kind = "await-human" => Asks(t)'
    BY <1>8, <2>6 DEF Writes, Moved, Sent, Asks, pc
  <2> QED
    BY <2>4, <2>5, <2>7 DEF Gated
<1> QED
  BY <1>4, <1>5, <1>6, <1>7, <1>8 DEF TaskMoves, Moves

LEMMA GateHolds == OneProcess /\ Grown /\ WillWake /\ Gated /\ [Next]_vars => Gated'
<1> SUFFICES ASSUME OneProcess, Grown, WillWake, Gated, [Next]_vars PROVE Gated'
  OBVIOUS
<1>1. ASSUME NEW e \in Engines, Dies(e) PROVE Gated'
  BY <1>1 DEF Dies, Gated, Grown, LoneWalk, Walk, Mutex, Typed, BooksTyped
<1>2. CASE Passes
  BY <1>2 DEF Passes, Gated, AnsweredBeforePassed, Pending, Size, Asks, pc
<1> QED
  BY <1>1, <1>2, StepMoves, MovesGated DEF Grown, LoneWalk, Walk, Mutex

(* While no process has died, the run goes past a committed AwaitHuman     *)
(* only with its answer recorded, however the answer, the sweeps, the      *)
(* pauses and the resumes fall between the commit and the status it parks  *)
(* with.                                                                   *)
THEOREM GateIsHeld ==
    ASSUME Orderly, OneProcess PROVE Spec => []HumanGate
<1>1. Init => Gated
  <2> SUFFICES ASSUME Init PROVE Gated
    OBVIOUS
  <2>1. DOMAIN steps = {} /\ Size = 0
    BY FS_EmptySet DEF Init, JournalInit, EmptyTable, Size
  <2> QED
    BY <2>1 DEF Gated, AnsweredBeforePassed, Pending
<1>2. Gated => HumanGate
  BY DEF Gated, HumanGate
<1> QED
  BY <1>1, <1>2, GrownInvariant, NobodyParked, WakesGoesOn, GateHolds, PTL DEF Spec

=============================================================================
