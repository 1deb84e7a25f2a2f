------------------------------- MODULE Engine -------------------------------
(***************************************************************************)
(* The loop driver (runtime/engine.py) and the timer sweeper               *)
(* (runtime/sweeper.py) of one run, over the journal of that run.          *)
(*                                                                         *)
(* Engines are processes that share nothing but the journal.  A task is a  *)
(* coroutine of one engine: a client that calls the public operations one  *)
(* after the other, or the engine's sweeper.  A task's step runs from one  *)
(* journal call to the next, so tasks interleave exactly at the awaits.    *)
(* load_run and the decision that follows it are one step, but for an      *)
(* answer: an engine talks to the journal over one connection, whose lock  *)
(* is first-come first-served, so no drive of the same engine can park and *)
(* leave between another task's load and its registration.  The events,    *)
(* contexts, model and clock a drive carries along have no influence on    *)
(* its control.                                                            *)
(***************************************************************************)
EXTENDS Journal, Integers

CONSTANTS
    Engines,        \* the processes
    Tasks,          \* coroutines that may call into the run
    Host,           \* the engine a task runs in
    Calls,          \* the operations a task calls
    GraphOf,        \* the graph an engine has registered for the run's pathway
    Returns,        \* what a stage's run() may return
    Fails,          \* stages that may time out or raise a retryable exception
    Buggy,          \* stages that may raise any other exception
    max_steps,      \* Engine's structural step ceiling
    SingleFlight,   \* the operator resumes a run only when nothing drives it
    Reissue,        \* callers may run() a run_id that already has a journal
    MaxCrashes,     \* bound: process crashes
    MaxPauses       \* bound: calls of pause

Operations == {"run", "start", "resume", "sweep", "pause", "unpause", "answer"}

ASSUME EngineAssumption ==
    /\ Host \in [Tasks -> Engines]
    /\ Calls \in [Tasks -> SUBSET Operations]
    /\ GraphOf \in [Engines -> Graph]
    /\ \A e \in Engines : ValidGraph(GraphOf[e])
    /\ Returns \in [Stages -> SUBSET StageResult]
    /\ Fails \subseteq Stages /\ Buggy \subseteq Stages
    /\ max_steps \in Nat /\ MaxCrashes \in Nat /\ MaxPauses \in Nat
    /\ SingleFlight \in BOOLEAN /\ Reissue \in BOOLEAN

VARIABLES
    task,       \* the frame of every coroutine
    driving,    \* the engines whose _driving set holds the run
    bg,         \* the engines whose _bg registry holds the run
    crashes,    \* crashes so far
    pauses      \* calls of pause so far

vars == <<journal, task, driving, bg, crashes, pauses>>

-----------------------------------------------------------------------------
(* Frames.  `seq' and `cur' are _drive's position, `res' the result in     *)
(* hand, `goal' the status about to be written, `tries' the attempt count  *)
(* an increment returned, `seen' the status the next CAS expects and       *)
(* `pending' the claimed timers a sweeper has yet to fire.                 *)

(* Where a frame stands inside _drive's loop, before the write that parks  *)
(* or ends the run; after it, on the way out; and before the loop.         *)
Loop    == {"top", "read", "unwait", "stage", "count", "arm-retry", "commit",
            "arm-wait", "settle"}
Leaving == {"cleanup", "exit"}
Opening == {"start", "record", "cas", "clear"}
Driving == Opening \cup Loop \cup Leaving

Labels == Driving \cup {"idle", "spawned", "pause", "load", "stopped"}

Frame ==
    [pc : Labels, op : Operations \cup {"none"}, seen : RunStatus \cup {"none"},
     seq : Nat, cur : Stages \cup {NoStage}, res : StageResult,
     goal : RunStatus \cup {"none"}, tries : Nat, pending : Nat]

Idle == [pc |-> "idle", op |-> "none", seen |-> "none", seq |-> 0,
         cur |-> NoStage, res |-> Done, goal |-> "none", tries |-> 0, pending |-> 0]

pc(t) == task[t].pc
G(t) == GraphOf[Host[t]]

Become(t, frame) == task' = [task EXCEPT ![t] = frame]
Goto(t, label) == Become(t, [task[t] EXCEPT !.pc = label])
Settle(t, s) == Become(t, [task[t] EXCEPT !.pc = "settle", !.goal = s])

(* The first iteration of _drive, and the one after a step sent the run on.*)
AtEntry(t) == [task[t] EXCEPT !.pc = "top", !.seen = "none", !.seq = 0, !.cur = G(t).entry]
Advance(t, to) ==
    Become(t, [task[t] EXCEPT !.pc = "top", !.seq = @ + 1, !.cur = to, !.res = Done])

(* The finally clause: leave _driving.  A sweeper goes on with its next    *)
(* claimed timer.  The done-callback of a background task frees its slot.  *)
(* Fault: every call counts as a fired timer.                              *)
ReturnedFromSweep(t) ==
    [Idle EXCEPT !.pending = task[t].pending - 1,
                 !.op = IF task[t].pending - 1 > 0 THEN "sweep" ELSE "none"]

Returned(t) ==
    LET left == IF task[t].op = "sweep" THEN task[t].pending - 1 ELSE 0
    IN  [Idle EXCEPT !.pending = left, !.op = IF left > 0 THEN "sweep" ELSE "none"]
Deregister(t) ==
    /\ driving' = driving \ {Host[t]}
    /\ bg' = IF task[t].op = "start" THEN bg \ {Host[t]} ELSE bg
Return(t) == Become(t, Returned(t)) /\ Deregister(t)

(* An exception reaches the caller.  Nothing in tick or run_forever        *)
(* catches it, so it ends the sweeper along with the timers it claimed.    *)
Raise(t) ==
    /\ Become(t, IF task[t].op = "sweep" THEN [Idle EXCEPT !.pc = "stopped"] ELSE Idle)
    /\ Deregister(t)

Register(t) == driving' = driving \cup {Host[t]}
Driven(t) == Host[t] \in driving
KeepBooks == UNCHANGED <<bg, crashes, pauses>>

Init ==
    /\ JournalInit
    /\ task = [t \in Tasks |-> Idle]
    /\ driving = {}
    /\ bg = {}
    /\ crashes = 0
    /\ pauses = 0

-----------------------------------------------------------------------------
(* The entrypoints.  A refusal that only returns the loaded state changes  *)
(* nothing and is no step.                                                 *)

Ready(t, operation) ==
    /\ pc(t) = "idle" /\ task[t].op = "none"
    /\ operation \in Calls[t]

(* Fault: an edited pathway is accepted.                                   *)
AnyFingerprint(t) == fingerprint # NoFingerprint

SameFingerprint(t) == Fingerprint(G(t)) = fingerprint

Run(t) ==
    /\ Ready(t, "run")
    /\ status = "none" \/ Reissue
    /\ ~Driven(t)
    /\ Register(t)
    /\ Become(t, [Idle EXCEPT !.pc = "start", !.op = "run"])
    /\ UNCHANGED journal /\ KeepBooks

(* start() only creates the background task; its run() begins later.       *)
Start(t) ==
    /\ Ready(t, "start")
    /\ status = "none" \/ Reissue
    /\ ~Driven(t) /\ Host[t] \notin bg
    /\ bg' = bg \cup {Host[t]}
    /\ Become(t, [Idle EXCEPT !.pc = "spawned", !.op = "start"])
    /\ UNCHANGED <<journal, driving, crashes, pauses>>

BackgroundRun(t) ==
    /\ pc(t) = "spawned"
    /\ IF Driven(t)
       THEN /\ Become(t, Idle)                  \* ValueError, and _on_done
            /\ bg' = bg \ {Host[t]}
            /\ UNCHANGED driving
       ELSE Register(t) /\ Goto(t, "start") /\ UNCHANGED bg
    /\ UNCHANGED <<journal, crashes, pauses>>

StartJournal(t) ==
    /\ pc(t) = "start"
    /\ StartRun(Fingerprint(G(t)))
    /\ Become(t, AtEntry(t))
    /\ UNCHANGED driving /\ KeepBooks

(* resume takes no CAS: it trusts the status it read.                      *)
(* Faults: AWAITING_HUMAN missing from the statuses returned as they are;  *)
(* the _driving check left out.                                            *)
ResumeAwaiting(t) ==
    /\ Ready(t, "resume")
    /\ status \in {"running", "awaiting_human"} /\ ~Driven(t) /\ SameFingerprint(t)
    /\ Register(t)
    /\ Become(t, [AtEntry(t) EXCEPT !.op = "resume"])
    /\ UNCHANGED journal /\ KeepBooks

ResumeDriven(t) ==
    /\ Ready(t, "resume")
    /\ status = "running" /\ SameFingerprint(t)
    /\ Register(t)
    /\ Become(t, [AtEntry(t) EXCEPT !.op = "resume"])
    /\ UNCHANGED journal /\ KeepBooks

Resume(t) ==
    /\ Ready(t, "resume")
    /\ SingleFlight => \A u \in Tasks : pc(u) \notin Driving
    /\ status = "running" /\ ~Driven(t) /\ SameFingerprint(t)
    /\ Register(t)
    /\ Become(t, [AtEntry(t) EXCEPT !.op = "resume"])
    /\ UNCHANGED journal /\ KeepBooks

(* Fault: no look at _driving before registering.                          *)
UnpauseDriven(t) ==
    /\ Ready(t, "unpause")
    /\ status # "none" /\ SameFingerprint(t)
    /\ Register(t)
    /\ Become(t, [Idle EXCEPT !.pc = "cas", !.op = "unpause", !.seen = "paused"])
    /\ UNCHANGED journal /\ KeepBooks

Unpause(t) ==
    /\ Ready(t, "unpause")
    /\ status # "none" /\ ~Driven(t) /\ SameFingerprint(t)
    /\ Register(t)
    /\ Become(t, [Idle EXCEPT !.pc = "cas", !.op = "unpause", !.seen = "paused"])
    /\ UNCHANGED journal /\ KeepBooks

(* load_run is two statements.  Only here does it matter: the status comes *)
(* with the first; the step that is answered is the last of the second.    *)
ProvideHumanInput(t) ==
    /\ Ready(t, "answer")
    /\ status = "awaiting_human" /\ SameFingerprint(t)
    /\ Become(t, [Idle EXCEPT !.pc = "load", !.op = "answer"])
    /\ UNCHANGED <<journal, driving>> /\ KeepBooks

LoadSteps(t) ==
    /\ pc(t) = "load"
    /\ IF Driven(t) THEN Become(t, Idle) /\ UNCHANGED driving
       ELSE /\ Register(t)
            /\ \E last \in DOMAIN steps :
                  /\ \A i \in DOMAIN steps : i <= last
                  /\ Become(t, [Idle EXCEPT !.pc = "record", !.op = "answer",
                                            !.seq = last, !.seen = "awaiting_human"])
    /\ UNCHANGED journal /\ KeepBooks

RecordAnswer(t) ==
    /\ pc(t) = "record"
    /\ \E a \in Answers : RecordHumanInput(task[t].seq, a)
    /\ Goto(t, "cas")
    /\ UNCHANGED driving /\ KeepBooks

(* One tick claims the due timers, then fires them one at a time.          *)
Tick(t) ==
    /\ Ready(t, "sweep")
    /\ Claimable # {}
    /\ ClaimDueTimers
    /\ Become(t, [Idle EXCEPT !.op = "sweep", !.pending = Cardinality(Claimable)])
    /\ UNCHANGED driving /\ KeepBooks

(* Fault: the parked status is hardcoded to WAITING.                       *)
FireWaiting(t) ==
    /\ pc(t) = "idle" /\ task[t].op = "sweep"
    /\ IF status = "waiting" /\ ~Driven(t)
       THEN Register(t) /\ Become(t, [task[t] EXCEPT !.pc = "cas", !.seen = status])
       ELSE Become(t, Returned(t)) /\ UNCHANGED driving
    /\ UNCHANGED journal /\ KeepBooks

FireTimer(t) ==
    /\ pc(t) = "idle" /\ task[t].op = "sweep"
    /\ IF ~SameFingerprint(t)
       THEN Become(t, [Idle EXCEPT !.pc = "stopped"]) /\ UNCHANGED driving
       ELSE IF status \in {"waiting", "retrying"} /\ ~Driven(t)
       THEN Register(t) /\ Become(t, [task[t] EXCEPT !.pc = "cas", !.seen = status])
       ELSE Become(t, Returned(t)) /\ UNCHANGED driving
    /\ UNCHANGED journal /\ KeepBooks

CasWon(t) ==
    /\ pc(t) = "cas"
    /\ CasWins(task[t].seen, "running")
    /\ IF task[t].op = "sweep" THEN Goto(t, "clear") ELSE Become(t, AtEntry(t))
    /\ UNCHANGED driving /\ KeepBooks

(* Fault: the loser of the CAS drives as well.                             *)
CasLostDrives(t) ==
    /\ pc(t) = "cas"
    /\ CasLoses(task[t].seen)
    /\ Become(t, AtEntry(t))
    /\ UNCHANGED driving /\ KeepBooks

CasLost(t) ==
    /\ pc(t) = "cas"
    /\ CasLoses(task[t].seen)
    /\ Return(t)
    /\ UNCHANGED <<crashes, pauses>>

ClearFiredTimers(t) ==
    /\ pc(t) = "clear"
    /\ CancelTimersForRun
    /\ Become(t, AtEntry(t))
    /\ UNCHANGED driving /\ KeepBooks

(* pause is not a drive: no registration, and two CASes, one after the     *)
(* other, from whatever task calls it.                                     *)
Pause(t) ==
    /\ Ready(t, "pause")
    /\ status # "none"
    /\ pauses < MaxPauses
    /\ pauses' = pauses + 1
    /\ \/ CasWins("running", "paused") /\ UNCHANGED task
       \/ CasLoses("running") /\ Become(t, [Idle EXCEPT !.pc = "pause", !.op = "pause"])
    /\ UNCHANGED <<driving, bg, crashes>>

PauseWaiting(t) ==
    /\ pc(t) = "pause"
    /\ CasWins("waiting", "paused") \/ CasLoses("waiting")
    /\ Become(t, Idle)
    /\ UNCHANGED driving /\ KeepBooks

-----------------------------------------------------------------------------
(* The drive loop. *)

(* The authoritative status is read at the top of every iteration.         *)
StepBoundary(t) ==
    /\ pc(t) = "top"
    /\ IF status = "paused" THEN Goto(t, "exit")
       ELSE IF task[t].seq >= max_steps THEN Settle(t, "failed")
       ELSE Goto(t, "read")
    /\ UNCHANGED <<journal, driving>> /\ KeepBooks

(* How a result without a destination ends the run.                        *)
(* Fault: a terminal Degraded counts as done.                              *)
EndAlwaysCompleted(r) == "completed"

EndOf(r) == IF r.kind = "done" THEN "completed" ELSE "degraded"

(* A committed step replays: a Wait or an AwaitHuman is a plain advance.   *)
Replay(t, r) ==
    IF r.kind = "wait" THEN Become(t, [task[t] EXCEPT !.pc = "unwait", !.res = r])
    ELSE IF Routes(r) THEN Advance(t, r.to)
    ELSE Settle(t, EndOf(r))

ReadCommitted(t) ==
    /\ pc(t) = "read"
    /\ task[t].seq \in DOMAIN steps
    /\ LET existing == steps[task[t].seq] IN
          IF existing.stage # task[t].cur
          THEN Raise(t)                         \* ResumeError: divergence
          ELSE Replay(t, existing.result) /\ UNCHANGED <<driving, bg>>
    /\ UNCHANGED <<journal, crashes, pauses>>

ReadNothing(t) ==
    /\ pc(t) = "read"
    /\ task[t].seq \notin DOMAIN steps
    /\ Goto(t, "stage")
    /\ UNCHANGED <<journal, driving>> /\ KeepBooks

CancelReplayedWait(t) ==
    /\ pc(t) = "unwait"
    /\ CancelTimer(WaitTimer(task[t].seq))
    /\ Advance(t, task[t].res.to)
    /\ UNCHANGED driving /\ KeepBooks

(* stage.run(ctx) returns; an undeclared destination never reaches the     *)
(* journal.                                                                *)
Declared(g, s, r) == Routes(r) => r.to \in Edges(g, s)

StageReturns(t) ==
    /\ pc(t) = "stage"
    /\ \E r \in Returns[task[t].cur] :
          IF Declared(G(t), task[t].cur, r)
          THEN /\ Become(t, [task[t] EXCEPT !.pc = "commit", !.res = r])
               /\ UNCHANGED <<driving, bg>>
          ELSE Raise(t)                         \* StageGraphError
    /\ UNCHANGED <<journal, crashes, pauses>>

StageBug(t) ==
    /\ pc(t) = "stage"
    /\ task[t].cur \in Buggy
    /\ Raise(t)
    /\ UNCHANGED <<journal, crashes, pauses>>

StageFails(t) ==
    /\ pc(t) = "stage"
    /\ task[t].cur \in Fails
    /\ Goto(t, "count")
    /\ UNCHANGED <<journal, driving>> /\ KeepBooks

(* The attempt count the increment returned decides what a failure means.  *)
(* Fault: the exhaustion test is off by one.                               *)
CountFailureLate(t) ==
    LET s == task[t].cur
        attempt == ReadAttempt(task[t].seq) + 1
    IN  /\ pc(t) = "count"
        /\ IncrementAttempt(task[t].seq)
        /\ IF attempt <= G(t).max_attempts[s]
           THEN Become(t, [task[t] EXCEPT !.pc = "arm-retry", !.tries = attempt])
           ELSE Become(t, [task[t] EXCEPT !.pc = "commit",
                                          !.res = Degraded(G(t).exhausted_to[s])])
        /\ UNCHANGED driving /\ KeepBooks

CountFailure(t) ==
    LET s == task[t].cur
        attempt == ReadAttempt(task[t].seq) + 1
    IN  /\ pc(t) = "count"
        /\ IncrementAttempt(task[t].seq)
        /\ IF attempt < G(t).max_attempts[s]
           THEN Become(t, [task[t] EXCEPT !.pc = "arm-retry", !.tries = attempt])
           ELSE IF G(t).on_exhausted[s] = "fail" THEN Settle(t, "failed")
           ELSE Become(t, [task[t] EXCEPT !.pc = "commit",
                                          !.res = Degraded(G(t).exhausted_to[s])])
        /\ UNCHANGED driving /\ KeepBooks

ArmRetry(t) ==
    /\ pc(t) = "arm-retry"
    /\ SetTimer(RetryTimer(task[t].seq, task[t].tries))
    /\ Become(t, [task[t] EXCEPT !.pc = "settle", !.goal = "retrying", !.tries = 0])
    /\ UNCHANGED driving /\ KeepBooks

(* The commit, and where its result sends the loop.                        *)
Commit(t) ==
    LET r == task[t].res IN
    /\ pc(t) = "commit"
    /\ CommitStep(task[t].seq, [stage |-> task[t].cur, result |-> r])
    /\ \/ r.kind = "wait" /\ Goto(t, "arm-wait")
       \/ r.kind = "await-human" /\ Settle(t, "awaiting_human")
       \/ r.kind \notin {"wait", "await-human"} /\ Routes(r) /\ Advance(t, r.to)
       \/ ~Routes(r) /\ Settle(t, EndOf(r))
    /\ UNCHANGED driving /\ KeepBooks

ArmWait(t) ==
    /\ pc(t) = "arm-wait"
    /\ SetTimer(WaitTimer(task[t].seq))
    /\ Settle(t, "waiting")
    /\ UNCHANGED driving /\ KeepBooks

(* The write that parks or ends the run.  It has no condition on the       *)
(* status it overwrites.                                                   *)
(* Faults: every stop cancels the timers; none does.                       *)
WriteStatusAndCancel(t) ==
    /\ pc(t) = "settle"
    /\ SetRunStatus(task[t].goal)
    /\ Goto(t, "cleanup")
    /\ UNCHANGED driving /\ KeepBooks

WriteStatusOnly(t) ==
    /\ pc(t) = "settle"
    /\ SetRunStatus(task[t].goal)
    /\ Goto(t, "exit")
    /\ UNCHANGED driving /\ KeepBooks

WriteStatus(t) ==
    /\ pc(t) = "settle"
    /\ SetRunStatus(task[t].goal)
    /\ Goto(t, IF task[t].goal \in {"waiting", "retrying"} THEN "exit" ELSE "cleanup")
    /\ UNCHANGED driving /\ KeepBooks

CleanUp(t) ==
    /\ pc(t) = "cleanup"
    /\ CancelTimersForRun
    /\ Goto(t, "exit")
    /\ UNCHANGED driving /\ KeepBooks

(* The final load_run, and the finally clause of the entrypoint.           *)
Exit(t) ==
    /\ pc(t) = "exit"
    /\ Return(t)
    /\ UNCHANGED <<journal, crashes, pauses>>

-----------------------------------------------------------------------------
(* The environment: a process dies and comes back with an empty registry,  *)
(* an in-memory sweeper included; time passes.                             *)

Crash(e) ==
    /\ crashes < MaxCrashes
    /\ crashes' = crashes + 1
    /\ task' = [t \in Tasks |-> IF Host[t] = e THEN Idle ELSE task[t]]
    /\ driving' = driving \ {e}
    /\ bg' = bg \ {e}
    /\ UNCHANGED <<journal, pauses>>

Time ==
    /\ \E id \in DOMAIN timers : TimerFallsDue(id) \/ LeaseGoesStale(id)
    /\ UNCHANGED <<task, driving, bg, crashes, pauses>>

Entry(t) ==
    \/ Run(t) \/ Start(t) \/ Resume(t) \/ Unpause(t) \/ ProvideHumanInput(t)
    \/ Pause(t) \/ Tick(t)

Progress(t) ==
    \/ BackgroundRun(t) \/ StartJournal(t) \/ LoadSteps(t) \/ RecordAnswer(t)
    \/ FireTimer(t) \/ CasWon(t) \/ CasLost(t) \/ ClearFiredTimers(t) \/ PauseWaiting(t)
    \/ StepBoundary(t) \/ ReadCommitted(t) \/ ReadNothing(t)
    \/ CancelReplayedWait(t) \/ StageReturns(t) \/ StageBug(t) \/ StageFails(t)
    \/ CountFailure(t) \/ ArmRetry(t) \/ Commit(t) \/ ArmWait(t)
    \/ WriteStatus(t) \/ CleanUp(t) \/ Exit(t)

Next ==
    \/ \E t \in Tasks : Entry(t) \/ Progress(t)
    \/ \E e \in Engines : Crash(e)
    \/ Time

Spec == Init /\ [][Next]_vars

-----------------------------------------------------------------------------
(* Correctness. *)

(* Every variable has its type; the fingerprint on record is that of a     *)
(* graph some engine registered, and is there once the run is.             *)
TypeOK ==
    /\ JournalTypeOK
    /\ fingerprint \in {NoFingerprint} \cup {Fingerprint(GraphOf[e]) : e \in Engines}
    /\ status = "none" <=> fingerprint = NoFingerprint
    /\ task \in [Tasks -> Frame]
    /\ driving \subseteq Engines
    /\ bg \subseteq Engines
    /\ crashes \in 0..MaxCrashes
    /\ pauses \in 0..MaxPauses

(* The in-process mutex: an engine's _driving set holds the run exactly    *)
(* while one of its coroutines is between registration and the finally     *)
(* clause, and never are there two.                                        *)
InProcessMutex ==
    /\ \A e \in Engines : e \in driving <=> \E t \in Tasks : Host[t] = e /\ pc(t) \in Driving
    /\ \A t, u \in Tasks :
          pc(t) \in Driving /\ pc(u) \in Driving /\ Host[t] = Host[u] => t = u

(* Over all processes, at most one coroutine is inside the drive loop, so  *)
(* no stage ever executes twice at once.                                   *)
SingleDriver ==
    \A t, u \in Tasks : pc(t) \in Loop /\ pc(u) \in Loop => t = u

(* A stage is executed, retried or committed only at a position that is    *)
(* not committed: a committed step is replayed, never run again.           *)
NeverRunAgain ==
    \A t \in Tasks :
        pc(t) \in {"stage", "count", "arm-retry", "commit"} => task[t].seq \notin DOMAIN steps

(* The committed steps are one walk of the graph the run was started with: *)
(* positions 0..n-1 with no gap, the first at the entry, each at the stage *)
(* its predecessor's result sent the run to, every route a declared edge.  *)
LogIsWalk ==
    \A i \in DOMAIN steps :
        /\ IF i = 0 THEN steps[i].stage = fingerprint.entry
           ELSE i - 1 \in DOMAIN steps /\ steps[i].stage = steps[i - 1].result.to
        /\ Routes(steps[i].result) =>
              steps[i].result.to \in fingerprint.edges[steps[i].stage]

(* Committed steps and recorded answers are written once, and stay.        *)
WrittenOnce ==
    [][/\ \A i \in DOMAIN steps : i \in DOMAIN steps' /\ steps'[i] = steps[i]
       /\ \A i \in DOMAIN answers : i \in DOMAIN answers' /\ answers'[i] = answers[i]]_vars

(* A run parked on a timer has the timer that will wake it: the one of the *)
(* Wait it last committed, or of the failure it last counted.              *)
ParkedHasTimer ==
    LET next == Cardinality(DOMAIN steps) IN
    /\ status = "waiting" => WaitTimer(next - 1) \in DOMAIN timers
    /\ status = "retrying" => RetryTimer(next, ReadAttempt(next)) \in DOMAIN timers

(* No timer that could fire on it is left to a run that has ended or waits *)
(* for a human: not when the drive that stopped it leaves, whatever crashed*)
(* drives had armed before; and not while nobody drives it, unless a       *)
(* process died, perhaps between that drive's last two writes.             *)
StoppedHasNoTimer ==
    /\ status \in Terminal \cup {"awaiting_human"}
    /\ \/ \E t \in Tasks : pc(t) = "exit"
       \/ crashes = 0 /\ \A t \in Tasks : pc(t) \notin Driving
    => DOMAIN timers = {}

(* The run goes past a committed AwaitHuman only with its answer recorded. *)
AnsweredBeforePassed ==
    \A i \in DOMAIN steps :
        steps[i].result.kind = "await-human" /\ i + 1 \in DOMAIN steps => i \in DOMAIN answers

(* The same, while no process has died.                                    *)
HumanGate == crashes = 0 => AnsweredBeforePassed

(* The stage at a position is where the log sends the run.                 *)
StageAt(i) == IF i = 0 THEN fingerprint.entry ELSE steps[i - 1].result.to

(* The failure ceiling per step: no position counts more failures than the *)
(* policy of the stage that stands there allows, as some process has it,   *)
(* and one for every crash, each of which may fall between a counted       *)
(* failure and what it leads to.                                           *)
AttemptsBounded ==
    \A i \in DOMAIN attempts : \E e \in Engines :
        attempts[i] <= GraphOf[e].max_attempts[StageAt(i)] + crashes

-----------------------------------------------------------------------------
(* What the journal amounts to: the detailed state seen as a durable run.  *)

phase ==
    IF status \in Terminal \cup {"none"} THEN status ELSE "live"

Durable == INSTANCE DurableRun WITH phase <- phase, pathway <- fingerprint, log <- steps

(* Init and every step of the engines, the sweepers, a crash and the clock *)
(* are those of the abstract run, or leave it alone.                       *)
ImplementsDurableRun == Durable!Spec

=============================================================================
