------------------------------ MODULE Dispatch ------------------------------
(***************************************************************************)
(* What a stage may do during one drive of a run: call the model through   *)
(* the budget guard and the structured-output ladder, and dispatch         *)
(* capabilities through the tool gate, alone or in a tool loop.            *)
(*                                                                         *)
(* Stage code is async and may gather several of these, so a stage has     *)
(* several tasks; a task's step runs from one await to the next.  A drive  *)
(* has a gate and a guard of its own; of the run itself only the journal's *)
(* tainted column outlives a drive, and every drive starts from it but the *)
(* one that run() makes of a run that is there already.                    *)
(***************************************************************************)
EXTENDS Integers, FiniteSets

CONSTANTS
    Tasks,          \* coroutines a stage may gather
    Capability,     \* name -> [tier, untrusted, trusted, irreversible]: registered at startup
    McpCapability,  \* name -> the same, of the tools an MCP server lists
    Lesions,        \* names an operator disables and enables
    Policies,       \* the stages' tool policies: [tiers, drops]
    Caps,           \* what the model can do: [structured, tools]
    max_rounds,     \* of a tool loop
    max_retries,    \* of the ladder's last rung
    max_calls,      \* of the drive's guard
    max_usd,        \* of the drive's guard
    Projected,      \* the estimator's projection of one call
    Costs,          \* what a call may cost
    Teams,          \* what stages gather: [tasks -> Kinds]
    MaxBatch,       \* bound: tool calls in one response
    MaxStages,      \* bound: stages run
    MaxDrives       \* bound: drives of the run

Known == DOMAIN Capability \cup DOMAIN McpCapability
Cap == [n \in Known |-> IF n \in DOMAIN Capability THEN Capability[n] ELSE McpCapability[n]]
Unknown == "no such capability"
Tiers == {"read", "write", "external"}

\* a task is a tool loop, one structured call, or one dispatch by stage code,
\* with or without the human's approval
Kinds == {"loop", "structured", "dispatch", "approved"}

ASSUME DispatchAssumption ==
    /\ IsFiniteSet(Tasks) /\ Tasks # {}
    /\ DOMAIN Capability \cap DOMAIN McpCapability = {} /\ Unknown \notin Known
    /\ Cap \in [Known -> [tier : Tiers, untrusted : BOOLEAN, trusted : BOOLEAN, irreversible : BOOLEAN]]
    /\ Lesions \subseteq Known
    /\ Policies \subseteq [tiers : SUBSET Tiers, drops : BOOLEAN]
    /\ Caps \subseteq [structured : BOOLEAN, tools : BOOLEAN]
    /\ {max_rounds, max_retries, max_calls, max_usd, Projected, MaxBatch} \subseteq Nat
    /\ Costs \subseteq Nat /\ \E dearest \in Costs : \A c \in Costs : c <= dearest
    /\ max_retries > 0 /\ {MaxStages, MaxDrives} \subseteq Nat
    /\ \A team \in Teams : DOMAIN team \subseteq Tasks /\ team \in [DOMAIN team -> Kinds]

VARIABLES
    setup,          \* how many tasks the stages gather, and the model's capabilities
    registry,       \* [names, disabled]
    tainted,        \* the run's column in the journal
    write_failed,   \* history: a write of that column has raised
    gate,           \* the drive's gate: [policy, latch]
    guard,          \* the drive's guard: [calls, spent]
    drive,          \* history: [n, stages, physical, touched, reissued]
    frame           \* one per task

vars == <<setup, registry, tainted, write_failed, gate, guard, drive, frame>>

-----------------------------------------------------------------------------
Results == {"returned", "raised", "over_budget", "tool_limit", "approval", "invalid"}
PCs == {"none", "model", "waiting", "route", "persist", "invoke"} \cup Results

\* round: model calls answered; sent: model calls made; left: tool calls to route
Frame == [kind : Kinds \cup {"none"}, pc : PCs, round : Nat, sent : Nat, left : Nat]
NoFrame == [kind |-> "none", pc |-> "none", round |-> 0, sent |-> 0, left |-> 0]

Begin(kind) == [NoFrame EXCEPT !.kind = kind,
                               !.pc = IF kind \in {"loop", "structured"} THEN "model" ELSE "route"]

Idle(t) == frame[t].pc \in Results \cup {"none"}
Goes(t, f) == frame' = [frame EXCEPT ![t] = f]
Ends(t, result) == Goes(t, [frame[t] EXCEPT !.pc = result])

\* mutant: the loop over a batch stays on its call
AnsweredInPlace(f, ok) ==
    IF f.kind # "loop" THEN [f EXCEPT !.pc = IF ok THEN "returned" ELSE "raised"]
    ELSE IF f.left > 1 THEN [f EXCEPT !.pc = "route"]
    ELSE [f EXCEPT !.pc = "model", !.left = 0, !.round = @ + 1]

(* What becomes of a dispatch that has its answer: a loop feeds it back,   *)
(* a batch in order and then the model again; stage code gets it.          *)
Answered(f, ok) ==
    IF f.kind # "loop" THEN [f EXCEPT !.pc = IF ok THEN "returned" ELSE "raised"]
    ELSE IF f.left > 1 THEN [f EXCEPT !.pc = "route", !.left = @ - 1]
    ELSE [f EXCEPT !.pc = "model", !.left = 0, !.round = @ + 1]

-----------------------------------------------------------------------------
(* The gate.                                                               *)

EffectiveTiers == IF gate.latch /\ gate.policy.drops THEN gate.policy.tiers \ {"external"}
                  ELSE gate.policy.tiers

Available(n) == n \in registry.names \ registry.disabled

\* what the model is shown
ExposedSpecs == {n \in registry.names : Available(n) /\ Cap[n].tier \in EffectiveTiers}

Latches(n) == \/ Cap[n].tier = "external" /\ ~Cap[n].trusted
              \/ Cap[n].untrusted

NeedsApproval(t, n) == gate.latch /\ Cap[n].irreversible /\ frame[t].kind # "approved"

(* dispatch_one up to its first await: tier, arguments, approval, latch.   *)
(* Only the dispatch that sets the latch waits for the journal.            *)
Dispatch(t, n, valid) ==
    /\ frame[t].pc = "route"
    /\ IF n \notin ExposedSpecs \/ ~valid THEN
            Goes(t, Answered(frame[t], FALSE)) /\ UNCHANGED <<gate, drive>>
       ELSE IF NeedsApproval(t, n) THEN
            Ends(t, "approval") /\ UNCHANGED <<gate, drive>>
       ELSE IF Latches(n) /\ ~gate.latch THEN
            /\ gate' = [gate EXCEPT !.latch = TRUE]
            /\ Goes(t, [frame[t] EXCEPT !.pc = "persist"])
            /\ UNCHANGED drive
       ELSE /\ Goes(t, [frame[t] EXCEPT !.pc = "invoke"])
            /\ drive' = [drive EXCEPT !.touched = @ \/ Latches(n)]
            /\ UNCHANGED gate
    /\ UNCHANGED <<setup, registry, tainted, write_failed, guard>>

TaintPersisted(t) ==
    /\ frame[t].pc = "persist"
    /\ tainted' = TRUE
    /\ Goes(t, [frame[t] EXCEPT !.pc = "invoke"])
    /\ drive' = [drive EXCEPT !.touched = TRUE]
    /\ UNCHANGED <<setup, registry, write_failed, gate, guard>>

(* The write raises, and may have landed all the same: the tool is not     *)
(* invoked, the latch stays.                                               *)
PersistFails(t) ==
    /\ frame[t].pc = "persist"
    /\ tainted' \in {tainted, TRUE}
    /\ write_failed' = TRUE
    /\ Goes(t, Answered(frame[t], FALSE))
    /\ UNCHANGED <<setup, registry, gate, guard, drive>>

\* the tool returns, raises or is cut off by wait_for
ToolEnds(t, ok) ==
    /\ frame[t].pc = "invoke"
    /\ Goes(t, Answered(frame[t], ok))
    /\ UNCHANGED <<setup, registry, tainted, write_failed, gate, guard, drive>>

-----------------------------------------------------------------------------
(* The guarded model under the ladder.                                     *)

Rung == CASE setup.caps.structured -> "native"
          [] setup.caps.tools /\ ~setup.caps.structured -> "tool-call"
          [] OTHER -> "retry"

\* Fault: a check without the projection.
RefusesUnprojected == guard.calls >= max_calls \/ guard.spent > max_usd

Refuses == guard.calls >= max_calls \/ guard.spent + Projected > max_usd

StartCall(t) ==
    /\ frame[t].pc = "model"
    /\ IF Refuses THEN Ends(t, "over_budget") /\ UNCHANGED <<guard, drive>>
       ELSE /\ guard' = [guard EXCEPT !.calls = @ + 1]
            /\ drive' = [drive EXCEPT !.physical = @ + 1]
            /\ Goes(t, [frame[t] EXCEPT !.pc = "waiting", !.sent = @ + 1])
    /\ UNCHANGED <<setup, registry, tainted, write_failed, gate>>

Record(cost) == guard' = [guard EXCEPT !.spent = @ + cost]

(* A response in a tool loop: it asks for no tools, or for some; after the *)
(* last round those are not run.                                           *)
LoopReply(t, cost, asked) ==
    /\ frame[t].pc = "waiting" /\ frame[t].kind = "loop"
    /\ Record(cost)
    /\ IF asked = 0 THEN Ends(t, "returned")
       ELSE IF frame[t].round = max_rounds THEN Ends(t, "tool_limit")
       ELSE Goes(t, [frame[t] EXCEPT !.pc = "route", !.left = asked])
    /\ UNCHANGED <<setup, registry, tainted, write_failed, gate, drive>>

(* A response to a structured call: only the last rung tries again.        *)
StructuredReply(t, cost, valid) ==
    /\ frame[t].pc = "waiting" /\ frame[t].kind = "structured"
    /\ Record(cost)
    /\ IF valid THEN Ends(t, "returned")
       ELSE IF Rung = "retry" /\ frame[t].round + 1 < max_retries
            THEN Goes(t, [frame[t] EXCEPT !.pc = "model", !.round = @ + 1])
       ELSE Ends(t, "invalid")
    /\ UNCHANGED <<setup, registry, tainted, write_failed, gate, drive>>

\* the provider raises: the call stays counted, no cost is recorded
CallFails(t) ==
    /\ frame[t].pc = "waiting"
    /\ Ends(t, "raised")
    /\ UNCHANGED <<setup, registry, tainted, write_failed, gate, guard, drive>>

-----------------------------------------------------------------------------
(* Around the tasks: stages, drives, the registry.                         *)

StartStage(policy, team) ==
    /\ \A t \in Tasks : Idle(t)
    /\ drive.stages < MaxStages /\ Cardinality(DOMAIN team) <= setup.width
    /\ gate' = [gate EXCEPT !.policy = policy]
    /\ drive' = [drive EXCEPT !.stages = @ + 1]
    /\ frame' = [t \in Tasks |-> IF t \in DOMAIN team THEN Begin(team[t]) ELSE NoFrame]
    /\ UNCHANGED <<setup, registry, tainted, write_failed, guard>>

\* mutant: no drive starts from the journal's column
BuildContextUnseeded(reissued) ==
    /\ drive.n < MaxDrives
    /\ tainted' \in IF \E t \in Tasks : frame[t].pc = "persist" THEN {tainted, TRUE} ELSE {tainted}
    /\ gate' = [gate EXCEPT !.latch = FALSE]
    /\ guard' = [calls |-> 0, spent |-> 0]
    /\ drive' = [n |-> drive.n + 1, stages |-> drive.stages, physical |-> 0,
                 touched |-> FALSE, reissued |-> reissued]
    /\ frame' = [t \in Tasks |-> NoFrame]
    /\ UNCHANGED <<setup, registry, write_failed>>

(* A drive after the process died or the run parked; a write that was in   *)
(* flight may have landed.  It gets a gate and a guard of its own.  The    *)
(* callers that have loaded the run pass its tainted column; run() has not *)
(* loaded it, and leaves the default.                                      *)
BuildContext(reissued) ==
    /\ drive.n < MaxDrives
    /\ tainted' \in IF \E t \in Tasks : frame[t].pc = "persist" THEN {tainted, TRUE} ELSE {tainted}
    /\ gate' = [gate EXCEPT !.latch = tainted' /\ ~reissued]
    /\ guard' = [calls |-> 0, spent |-> 0]
    /\ drive' = [n |-> drive.n + 1, stages |-> drive.stages, physical |-> 0,
                 touched |-> FALSE, reissued |-> reissued]
    /\ frame' = [t \in Tasks |-> NoFrame]
    /\ UNCHANGED <<setup, registry, write_failed>>

\* resume, fire_timer, unpause, provide_human_input
NewDrive == BuildContext(FALSE)

\* run() on a run that exists: start_run inserts nothing and the run is driven
ReissueRun == BuildContext(TRUE)

Toggle(n) ==
    /\ n \in registry.names
    /\ registry' = [registry EXCEPT !.disabled = IF n \in @ THEN @ \ {n} ELSE @ \cup {n}]
    /\ UNCHANGED <<setup, tainted, write_failed, gate, guard, drive, frame>>

(* bind_mcp_tools: a listed name that is registered already raises, and    *)
(* those listed before it stay.                                            *)
BindServer(listed) ==
    /\ listed \cap registry.names = {}
    /\ registry' = [registry EXCEPT !.names = @ \cup listed]
    /\ UNCHANGED <<setup, tainted, write_failed, gate, guard, drive, frame>>

TaskStep(t) ==
    \/ \E n \in Known \cup {Unknown}, valid \in BOOLEAN : Dispatch(t, n, valid)
    \/ TaintPersisted(t) \/ PersistFails(t)
    \/ \E ok \in BOOLEAN : ToolEnds(t, ok)
    \/ StartCall(t) \/ CallFails(t)
    \/ \E c \in Costs, asked \in 0..MaxBatch : LoopReply(t, c, asked)
    \/ \E c \in Costs, valid \in BOOLEAN : StructuredReply(t, c, valid)

Next ==
    \/ \E t \in Tasks : TaskStep(t)
    \/ \E p \in Policies : \E team \in Teams : StartStage(p, team)
    \/ NewDrive \/ ReissueRun
    \/ \E n \in Lesions : Toggle(n)
    \/ \E S \in SUBSET DOMAIN McpCapability : S # {} /\ BindServer(S)

Init ==
    /\ setup \in [width : 1..Cardinality(Tasks), caps : Caps]
    /\ registry = [names |-> DOMAIN Capability, disabled |-> {}]
    /\ tainted = FALSE /\ write_failed = FALSE
    /\ gate \in [policy : Policies, latch : {FALSE}]
    /\ guard = [calls |-> 0, spent |-> 0]
    /\ drive = [n |-> 1, stages |-> 0, physical |-> 0, touched |-> FALSE, reissued |-> FALSE]
    /\ frame = [t \in Tasks |-> NoFrame]

Spec == Init /\ [][Next]_vars

(* Providers answer or time out, wait_for ends every tool and the journal  *)
(* answers or raises, so a task always gets on; stages, drives and the     *)
(* registry's changes are up to their callers.                             *)
FairSpec == Spec /\ \A t \in Tasks : WF_vars(TaskStep(t))

-----------------------------------------------------------------------------
(* What the drive keeps.                                                   *)

TypeOK ==
    /\ setup \in [width : Nat, caps : Caps]
    /\ registry.names \subseteq Known /\ registry.disabled \subseteq registry.names
    /\ tainted \in BOOLEAN /\ write_failed \in BOOLEAN
    /\ gate \in [policy : Policies, latch : BOOLEAN]
    /\ guard \in [calls : Nat, spent : Nat]
    /\ drive \in [n : Nat, stages : Nat, physical : Nat, touched : BOOLEAN, reissued : BOOLEAN]
    /\ frame \in [Tasks -> Frame]

(* The latch of a drive covers whatever this drive let in (a capability is *)
(* invoked only after its latch), and, in every drive but a reissued run() *)
(* (which does not read the column), what the run's earlier drives         *)
(* recorded, reissued ones among them.  The journal covers what was let in *)
(* too, unless its write raised or is still awaited by the task that set   *)
(* the latch: another task of the stage finds the latch set and does not   *)
(* wait for it (dispatch_one).                                             *)
RunLatch ==
    /\ drive.touched \/ (tainted /\ ~drive.reissued) => gate.latch
    /\ drive.touched => \/ tainted \/ write_failed
                        \/ setup.width > 1 /\ \E t \in Tasks : frame[t].pc = "persist"

(* No more physical calls reach the provider in a drive than max_calls,    *)
(* however many tasks call and fail at once, and none makes more than its  *)
(* own ceiling: a tool loop its rounds and one answer more, the ladder one *)
(* call, or its retries on the last rung.                                  *)
(* The dollar ceiling is checked before a call and charged after it, so    *)
(* calls in flight together may pass it: by what they cost beyond the one  *)
(* projection that was checked, and never more.  A stage that makes one    *)
(* call at a time passes it only by how far the projection was too low.    *)
Ceiling(f) == CASE f.kind = "loop" -> max_rounds + 1
                [] f.kind = "structured" -> IF Rung = "retry" THEN max_retries ELSE 1
                [] OTHER -> 0

CeilingsHold ==
    /\ drive.physical <= max_calls
    /\ \A t \in Tasks : frame[t].sent <= Ceiling(frame[t])
    /\ guard.spent > 0 =>
           \E dearest \in Costs : guard.spent <= max_usd - Projected + setup.width * dearest

(* Every loop, structured call and dispatch comes to an end: rounds,       *)
(* batches and retries run out.                                            *)
TasksEnd == \A t \in Tasks : ~Idle(t) ~> Idle(t)

=============================================================================
