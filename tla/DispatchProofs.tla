--------------------------- MODULE DispatchProofs ---------------------------
(***************************************************************************)
(* The latch of the tool gate is as old as the taint it stands for.        *)
(*                                                                         *)
(* RunLatch is not inductive: a tool that taints may be let through        *)
(* because the latch is set already, and what then says that the journal   *)
(* knows is where the latch came from.  Latched adds that: a latch that is *)
(* set was read from the journal, or is being written to it, or its write  *)
(* raised; and a stage that has two tasks is one that may gather two.      *)
(***************************************************************************)
EXTENDS Dispatch, FiniteSetTheorems, TLAPS

Persisting == \E t \in Tasks : frame[t].pc = "persist"

Latched ==
    /\ drive.touched \/ Persisting \/ (tainted /\ ~drive.reissued) => gate.latch
    /\ gate.latch => tainted \/ write_failed \/ Persisting
    /\ drive.touched => tainted \/ write_failed \/ (setup.width > 1 /\ Persisting)
    /\ \A t, u \in Tasks : t # u /\ frame[t].pc # "none" /\ frame[u].pc # "none" => setup.width > 1

Inv == TypeOK /\ Latched

-----------------------------------------------------------------------------
(* Frames. *)

(* What an answer makes of a task: never one that writes or has no name.   *)
LEMMA AnsweredFrame ==
    ASSUME NEW f \in Frame, NEW ok \in BOOLEAN
    PROVE  Answered(f, ok) \in Frame /\ Answered(f, ok).pc \notin {"none", "persist"}
<1>1. f.left > 1 => f.left - 1 \in Nat
  BY DEF Frame
<1>2. f.round + 1 \in Nat
  BY DEF Frame
<1>3. CASE f.kind # "loop"
  BY <1>3 DEF Answered, Frame, PCs, Results
<1>4. CASE f.kind = "loop" /\ f.left > 1
  BY <1>1, <1>4 DEF Answered, Frame, PCs, Results
<1>5. CASE f.kind = "loop" /\ ~(f.left > 1)
  BY <1>2, <1>5 DEF Answered, Frame, PCs, Results
<1> QED BY <1>3, <1>4, <1>5

(* What a model call makes of a task.                                      *)
LEMMA CallingFrame ==
    ASSUME NEW f \in Frame, NEW asked \in Nat
    PROVE  /\ [f EXCEPT !.pc = "waiting", !.sent = @ + 1] \in Frame
           /\ [f EXCEPT !.pc = "waiting", !.sent = @ + 1].pc = "waiting"
           /\ [f EXCEPT !.pc = "route", !.left = asked] \in Frame
           /\ [f EXCEPT !.pc = "route", !.left = asked].pc = "route"
           /\ [f EXCEPT !.pc = "model", !.round = @ + 1] \in Frame
           /\ [f EXCEPT !.pc = "model", !.round = @ + 1].pc = "model"
           /\ \A r \in Results : [f EXCEPT !.pc = r] \in Frame /\ [f EXCEPT !.pc = r].pc = r
<1>1. f.sent + 1 \in Nat /\ f.round + 1 \in Nat
  BY DEF Frame
<1>2. [f EXCEPT !.pc = "waiting", !.sent = @ + 1] \in Frame
  BY <1>1 DEF Frame, PCs
<1>3. [f EXCEPT !.pc = "route", !.left = asked] \in Frame
  BY DEF Frame, PCs
<1>4. [f EXCEPT !.pc = "model", !.round = @ + 1] \in Frame
  BY <1>1 DEF Frame, PCs
<1>5. \A r \in Results : [f EXCEPT !.pc = r] \in Frame
  BY DEF Frame, PCs
<1> QED BY <1>2, <1>3, <1>4, <1>5 DEF Frame

LEMMA BegunFrame ==
    ASSUME NEW kind \in Kinds
    PROVE  Begin(kind) \in Frame /\ Begin(kind).pc \notin {"none", "persist"} /\ NoFrame \in Frame
BY DEF Begin, NoFrame, Frame, PCs, Results, Kinds

(* A step that gives one working task another frame, which writes only     *)
(* with the latch set, and leaves the gate, the journal and what was let   *)
(* in as they are, keeps Latched, unless the task was the one that wrote.  *)
LEMMA Moves ==
    ASSUME Inv, NEW t \in Tasks, NEW f \in Frame, frame' = [frame EXCEPT ![t] = f],
           frame[t].pc \notin {"none", "persist"}, f.pc \notin {"none", "persist"},
           UNCHANGED <<setup, tainted, write_failed, gate>>, drive'.touched = drive.touched, drive'.reissued = drive.reissued
    PROVE  Latched' /\ frame' \in [Tasks -> Frame]
<1>1. frame \in [Tasks -> Frame]
  BY DEF Inv, TypeOK
<1>2. frame' \in [Tasks -> Frame] /\ \A u \in Tasks : frame'[u] = IF u = t THEN f ELSE frame[u]
  BY <1>1
<1>3. Persisting' = Persisting
  BY <1>2 DEF Persisting
<1>4. \A u \in Tasks : frame'[u].pc # "none" => frame[u].pc # "none"
  BY <1>2
<1> QED BY <1>2, <1>3, <1>4 DEF Inv, Latched

-----------------------------------------------------------------------------
(* The steps of a task. *)

LEMMA DispatchStep ==
    ASSUME Inv, NEW t \in Tasks, NEW n, NEW valid \in BOOLEAN, Dispatch(t, n, valid)
    PROVE  Inv'
<1> DEFINE a == Answered(frame[t], FALSE)
           p == [frame[t] EXCEPT !.pc = "persist"]
           i == [frame[t] EXCEPT !.pc = "invoke"]
           e == [frame[t] EXCEPT !.pc = "approval"]
<1>1. frame[t] \in Frame /\ frame[t].pc = "route"
  BY DEF Inv, TypeOK, Dispatch
<1>2. a \in Frame /\ a.pc \notin {"none", "persist"}
  BY <1>1, AnsweredFrame
<1>3. p \in Frame /\ p.pc = "persist" /\ i \in Frame /\ i.pc = "invoke" /\ e \in Frame /\ e.pc = "approval"
  BY <1>1 DEF Frame, PCs, Results
<1>4. CASE frame' = [frame EXCEPT ![t] = a] /\ UNCHANGED <<gate, drive>>
  BY <1>1, <1>2, <1>4, Moves DEF Inv, TypeOK, Dispatch
<1>5. CASE frame' = [frame EXCEPT ![t] = e] /\ UNCHANGED <<gate, drive>>
  BY <1>1, <1>3, <1>5, Moves DEF Inv, TypeOK, Dispatch
<1>6. CASE /\ ~gate.latch /\ gate' = [gate EXCEPT !.latch = TRUE]
           /\ frame' = [frame EXCEPT ![t] = p] /\ UNCHANGED drive
  <2>1. frame' \in [Tasks -> Frame] /\ \A u \in Tasks : frame'[u] = IF u = t THEN p ELSE frame[u]
    BY <1>3, <1>6 DEF Inv, TypeOK
  <2>2. gate' \in [policy : Policies, latch : BOOLEAN] /\ gate'.latch
    BY <1>6 DEF Inv, TypeOK
  <2>3. Persisting'
    BY <1>3, <2>1 DEF Persisting
  <2>4. \A u \in Tasks : frame'[u].pc # "none" => frame[u].pc # "none"
    BY <1>1, <2>1
  <2>5. Latched'
    BY <1>6, <2>2, <2>3, <2>4 DEF Inv, Latched, Dispatch
  <2> QED BY <1>6, <2>1, <2>2, <2>5 DEF Inv, TypeOK, Dispatch
<1>7. CASE /\ Latches(n) => gate.latch
           /\ frame' = [frame EXCEPT ![t] = i] /\ UNCHANGED gate
           /\ drive' = [drive EXCEPT !.touched = @ \/ Latches(n)]
  <2>1. frame' \in [Tasks -> Frame] /\ \A u \in Tasks : frame'[u] = IF u = t THEN i ELSE frame[u]
    BY <1>3, <1>7 DEF Inv, TypeOK
  <2>2. drive' \in [n : Nat, stages : Nat, physical : Nat, touched : BOOLEAN, reissued : BOOLEAN]
    BY <1>7 DEF Inv, TypeOK, Latches
  <2>3. (drive'.touched => drive.touched \/ Latches(n)) /\ drive'.reissued = drive.reissued
    BY <1>7 DEF Inv, TypeOK
  <2>4. Persisting' = Persisting
    BY <1>1, <1>3, <2>1 DEF Persisting
  <2>5. \A u \in Tasks : frame'[u].pc # "none" => frame[u].pc # "none"
    BY <1>1, <2>1
  <2>6. UNCHANGED <<setup, tainted, write_failed>>
    BY DEF Dispatch
  \* another task set the latch: the stage gathers two
  <2>7. Persisting => setup.width > 1
    <3> SUFFICES ASSUME NEW u \in Tasks, frame[u].pc = "persist" PROVE setup.width > 1
      BY DEF Persisting
    <3> QED BY <1>1 DEF Inv, Latched
  <2>8. Latched'
    BY <1>7, <2>3, <2>4, <2>5, <2>6, <2>7 DEF Inv, Latched
  <2> QED BY <1>7, <2>1, <2>2, <2>8 DEF Inv, TypeOK, Dispatch
<1> QED BY <1>4, <1>5, <1>6, <1>7 DEF Dispatch, Goes, Ends

LEMMA PersistStep ==
    ASSUME Inv, NEW t \in Tasks, TaintPersisted(t) \/ PersistFails(t)
    PROVE  Inv'
<1> DEFINE f == IF TaintPersisted(t) THEN [frame[t] EXCEPT !.pc = "invoke"] ELSE Answered(frame[t], FALSE)
<1>1. frame[t] \in Frame /\ frame[t].pc = "persist" /\ gate.latch
  BY DEF Inv, TypeOK, TaintPersisted, PersistFails, Latched, Persisting
<1>2. [frame[t] EXCEPT !.pc = "invoke"] \in Frame /\ [frame[t] EXCEPT !.pc = "invoke"].pc = "invoke"
  BY <1>1 DEF Frame, PCs, Results
<1>3. Answered(frame[t], FALSE) \in Frame /\ Answered(frame[t], FALSE).pc \notin {"none", "persist"}
  BY <1>1, AnsweredFrame
<1>4. PICK g \in Frame : g.pc \notin {"none", "persist"} /\ frame' = [frame EXCEPT ![t] = g]
  BY <1>2, <1>3 DEF TaintPersisted, PersistFails, Goes
<1>5. frame' \in [Tasks -> Frame] /\ \A u \in Tasks : frame'[u] = IF u = t THEN g ELSE frame[u]
  BY <1>4 DEF Inv, TypeOK
<1>6. \A u \in Tasks : frame'[u].pc # "none" => frame[u].pc # "none"
  BY <1>1, <1>5
<1>7. UNCHANGED <<setup, registry, gate, guard>>
  BY DEF TaintPersisted, PersistFails
<1>8. /\ tainted' \in BOOLEAN /\ write_failed' \in BOOLEAN
      /\ drive' \in [n : Nat, stages : Nat, physical : Nat, touched : BOOLEAN, reissued : BOOLEAN]
      /\ drive'.reissued = drive.reissued
      /\ tainted' \/ write_failed'
  BY DEF Inv, TypeOK, TaintPersisted, PersistFails
<1>9. Latched'
  BY <1>1, <1>6, <1>7, <1>8 DEF Inv, Latched
<1> QED BY <1>5, <1>7, <1>8, <1>9 DEF Inv, TypeOK

(* The steps of a task that are neither the latch's nor the gate's.        *)
LEMMA OtherTaskStep ==
    ASSUME Inv, NEW t \in Tasks,
           \/ \E ok \in BOOLEAN : ToolEnds(t, ok)
           \/ StartCall(t) \/ CallFails(t)
           \/ \E c \in Costs, asked \in 0..MaxBatch : LoopReply(t, c, asked)
           \/ \E c \in Costs, valid \in BOOLEAN : StructuredReply(t, c, valid)
    PROVE  Inv'
<1> DEFINE Kept == /\ UNCHANGED <<setup, registry, tainted, write_failed, gate>>
                   /\ guard' \in [calls : Nat, spent : Nat]
                   /\ drive' \in [n : Nat, stages : Nat, physical : Nat, touched : BOOLEAN, reissued : BOOLEAN]
                   /\ drive'.touched = drive.touched /\ drive'.reissued = drive.reissued
           Moved == Kept /\ \E f \in Frame : f.pc \notin {"none", "persist"} /\ frame' = [frame EXCEPT ![t] = f]
<1>1. frame[t] \in Frame /\ frame[t].pc \in {"invoke", "model", "waiting"}
  BY DEF Inv, TypeOK, ToolEnds, StartCall, CallFails, LoopReply, StructuredReply
<1>2. \A r \in Results : /\ [frame[t] EXCEPT !.pc = r] \in Frame
                         /\ [frame[t] EXCEPT !.pc = r].pc = r
  BY <1>1, CallingFrame
<1>3. \A c \in Costs : c \in Nat
  BY DispatchAssumption DEF DispatchAssumption
<1>4. Results \cap {"none", "persist"} = {} /\ {"returned", "raised", "over_budget", "tool_limit", "invalid"} \subseteq Results
  BY DEF Results
<1>5. ASSUME NEW ok \in BOOLEAN, ToolEnds(t, ok) PROVE Moved
  <2>1. Answered(frame[t], ok) \in Frame /\ Answered(frame[t], ok).pc \notin {"none", "persist"}
    BY <1>1, AnsweredFrame
  <2> QED BY <1>5, <2>1 DEF ToolEnds, Goes, Inv, TypeOK
<1>6. ASSUME StartCall(t) PROVE Moved
  <2>1. /\ [frame[t] EXCEPT !.pc = "waiting", !.sent = @ + 1] \in Frame
        /\ [frame[t] EXCEPT !.pc = "waiting", !.sent = @ + 1].pc = "waiting"
    BY <1>1, CallingFrame
  <2>2. \E f \in Frame : f.pc \notin {"none", "persist"} /\ frame' = [frame EXCEPT ![t] = f]
    <3>1. CASE Refuses
      BY <1>2, <1>4, <1>6, <3>1 DEF StartCall, Goes, Ends
    <3>2. CASE ~Refuses
      BY <1>6, <2>1, <3>2 DEF StartCall, Goes
    <3> QED BY <3>1, <3>2
  <2>3. Kept
    BY <1>6 DEF StartCall, Inv, TypeOK
  <2> QED BY <2>2, <2>3
<1>7. ASSUME CallFails(t) PROVE Moved
  <2>1. \E f \in Frame : f.pc \notin {"none", "persist"} /\ frame' = [frame EXCEPT ![t] = f]
    BY <1>2, <1>4, <1>7 DEF CallFails, Goes, Ends
  <2>2. Kept
    BY <1>7 DEF CallFails, Inv, TypeOK
  <2> QED BY <2>1, <2>2
<1>8. ASSUME NEW c \in Costs, NEW asked \in 0..MaxBatch, LoopReply(t, c, asked) PROVE Moved
  <2>1. asked \in Nat
    BY DispatchAssumption DEF DispatchAssumption
  <2>2. /\ [frame[t] EXCEPT !.pc = "route", !.left = asked] \in Frame
        /\ [frame[t] EXCEPT !.pc = "route", !.left = asked].pc = "route"
    BY <1>1, <2>1, CallingFrame
  <2>3. \E f \in Frame : f.pc \notin {"none", "persist"} /\ frame' = [frame EXCEPT ![t] = f]
    BY <1>2, <1>4, <1>8, <2>2 DEF LoopReply, Goes, Ends
  <2>4. guard.spent + c \in Nat
    BY <1>3 DEF Inv, TypeOK
  <2>5. Kept
    BY <1>8, <2>4 DEF LoopReply, Record, Inv, TypeOK
  <2> QED BY <2>3, <2>5
<1>9. ASSUME NEW c \in Costs, NEW valid \in BOOLEAN, StructuredReply(t, c, valid) PROVE Moved
  <2>1. /\ [frame[t] EXCEPT !.pc = "model", !.round = @ + 1] \in Frame
        /\ [frame[t] EXCEPT !.pc = "model", !.round = @ + 1].pc = "model"
    BY <1>1, CallingFrame
  <2>2. \E f \in Frame : f.pc \notin {"none", "persist"} /\ frame' = [frame EXCEPT ![t] = f]
    BY <1>2, <1>4, <1>9, <2>1 DEF StructuredReply, Goes, Ends
  <2>3. guard.spent + c \in Nat
    BY <1>3 DEF Inv, TypeOK
  <2>4. Kept
    BY <1>9, <2>3 DEF StructuredReply, Record, Inv, TypeOK
  <2> QED BY <2>2, <2>4
<1>10. Moved
  BY <1>5, <1>6, <1>7, <1>8, <1>9
<1>11. Latched' /\ frame' \in [Tasks -> Frame]
  <2>1. PICK f \in Frame : f.pc \notin {"none", "persist"} /\ frame' = [frame EXCEPT ![t] = f]
    BY <1>10
  <2> QED BY <1>1, <1>10, <2>1, Moves
<1> QED BY <1>10, <1>11 DEF Inv, TypeOK

-----------------------------------------------------------------------------
(* Stages and drives. *)

LEMMA StageStep ==
    ASSUME Inv, NEW policy \in Policies, NEW team \in Teams, StartStage(policy, team)
    PROVE  Inv'
<1>1. DOMAIN team \subseteq Tasks /\ team \in [DOMAIN team -> Kinds] /\ IsFiniteSet(DOMAIN team)
  BY DispatchAssumption, FS_Subset DEF DispatchAssumption
<1>2. \A t \in Tasks : frame'[t] = IF t \in DOMAIN team THEN Begin(team[t]) ELSE NoFrame
  BY DEF StartStage
<1>3. \A t \in DOMAIN team : Begin(team[t]) \in Frame /\ Begin(team[t]).pc \notin {"none", "persist"}
  BY <1>1, BegunFrame
<1>4. NoFrame \in Frame /\ NoFrame.pc = "none"
  BY DEF NoFrame, Frame, PCs
<1>5. frame' \in [Tasks -> Frame]
  BY <1>1, <1>3, <1>4 DEF StartStage
<1>6. ~Persisting' /\ ~Persisting
  <2>1. ~Persisting'
    BY <1>2, <1>3, <1>4 DEF Persisting
  <2>2. ~Persisting
    BY DEF StartStage, Idle, Results, Persisting
  <2> QED BY <2>1, <2>2
<1>7. ASSUME NEW t \in Tasks, NEW u \in Tasks, t # u, frame'[t].pc # "none", frame'[u].pc # "none"
      PROVE  setup.width > 1
  <2>1. {t, u} \subseteq DOMAIN team
    BY <1>2, <1>4, <1>7
  <2>2. Cardinality({t, u}) = 2
    <3>1. {t} = {} \cup {t} /\ {t, u} = {t} \cup {u} /\ t \notin {} /\ u \notin {t}
      BY <1>7
    <3>2. IsFiniteSet({t}) /\ Cardinality({t}) = 1
      BY FS_Singleton
    <3>3. Cardinality({t} \cup {u}) = Cardinality({t}) + 1
      BY <3>1, <3>2, FS_AddElement
    <3> QED BY <3>1, <3>2, <3>3
  <2>3. Cardinality({t, u}) <= Cardinality(DOMAIN team) /\ Cardinality(DOMAIN team) \in Nat
    BY <1>1, <2>1, FS_Subset, FS_CardinalityType
  <2>4. Cardinality(DOMAIN team) <= setup.width /\ setup.width \in Nat
    BY DEF StartStage, Inv, TypeOK
  <2> QED BY <2>2, <2>3, <2>4
<1>8. /\ UNCHANGED <<setup, registry, tainted, write_failed, guard>>
      /\ gate' \in [policy : Policies, latch : BOOLEAN] /\ gate'.latch = gate.latch
      /\ drive' \in [n : Nat, stages : Nat, physical : Nat, touched : BOOLEAN, reissued : BOOLEAN]
      /\ drive'.touched = drive.touched /\ drive'.reissued = drive.reissued
  BY DEF StartStage, Inv, TypeOK
<1>9. Latched'
  BY <1>6, <1>7, <1>8 DEF Inv, Latched
<1> QED BY <1>5, <1>8, <1>9 DEF Inv, TypeOK

LEMMA DriveStep == ASSUME Inv, NEW reissued \in BOOLEAN, BuildContext(reissued) PROVE Inv'
<1>1. NoFrame \in Frame /\ NoFrame.pc = "none"
  BY DEF NoFrame, Frame, PCs
<1>2. frame' \in [Tasks -> Frame] /\ \A t \in Tasks : frame'[t].pc = "none"
  BY <1>1 DEF BuildContext
<1>3. tainted' \in BOOLEAN
  BY DEF BuildContext, Inv, TypeOK
<1>4. gate' \in [policy : Policies, latch : BOOLEAN] /\ gate'.latch = (tainted' /\ ~reissued)
  BY <1>3 DEF BuildContext, Inv, TypeOK
<1>5. /\ drive' \in [n : Nat, stages : Nat, physical : Nat, touched : BOOLEAN, reissued : BOOLEAN]
      /\ ~drive'.touched /\ drive'.reissued = reissued
  BY DEF BuildContext, Inv, TypeOK
<1>6. guard' \in [calls : Nat, spent : Nat] /\ UNCHANGED <<setup, registry, write_failed>>
  BY DEF BuildContext
<1>7. Latched'
  BY <1>2, <1>4, <1>5 DEF Latched, Persisting
<1> QED BY <1>2, <1>3, <1>4, <1>5, <1>6, <1>7 DEF Inv, TypeOK

LEMMA ToggleStep == ASSUME Inv, NEW n \in Lesions, Toggle(n) PROVE Inv'
<1>1. registry'.names \subseteq Known /\ registry'.disabled \subseteq registry'.names
  BY DEF Inv, TypeOK, Toggle
<1> QED BY <1>1 DEF Inv, TypeOK, Latched, Persisting, Toggle

LEMMA BindStep == ASSUME Inv, NEW S \in SUBSET DOMAIN McpCapability, BindServer(S) PROVE Inv'
<1>1. registry'.names \subseteq Known /\ registry'.disabled \subseteq registry'.names
  BY DEF Inv, TypeOK, BindServer, Known
<1> QED BY <1>1 DEF Inv, TypeOK, Latched, Persisting, BindServer

LEMMA InitInv == Init => Inv
<1> SUFFICES ASSUME Init PROVE Inv
  OBVIOUS
<1>1. 1..Cardinality(Tasks) \subseteq Nat
  BY DispatchAssumption, FS_CardinalityType DEF DispatchAssumption
<1>2. setup \in [width : Nat, caps : Caps]
  BY <1>1 DEF Init
<1>3. frame \in [Tasks -> Frame] /\ \A t \in Tasks : frame[t].pc = "none"
  BY DEF Init, NoFrame, Frame, PCs
<1>4. TypeOK
  BY <1>2, <1>3 DEF Init, TypeOK, Known
<1>5. Latched
  BY <1>3 DEF Init, Latched, Persisting
<1> QED BY <1>4, <1>5 DEF Inv

LEMMA InvStep == Inv /\ [Next]_vars => Inv'
<1> SUFFICES ASSUME Inv, [Next]_vars PROVE Inv'
  OBVIOUS
<1>1. ASSUME NEW t \in Tasks, TaskStep(t) PROVE Inv'
  <2>1. CASE \E n \in Known \cup {Unknown}, valid \in BOOLEAN : Dispatch(t, n, valid)
    BY <2>1, DispatchStep
  <2>2. CASE TaintPersisted(t) \/ PersistFails(t)
    BY <2>2, PersistStep
  <2>3. CASE \/ \E ok \in BOOLEAN : ToolEnds(t, ok)
             \/ StartCall(t) \/ CallFails(t)
             \/ \E c \in Costs, asked \in 0..MaxBatch : LoopReply(t, c, asked)
             \/ \E c \in Costs, valid \in BOOLEAN : StructuredReply(t, c, valid)
    BY <2>3, OtherTaskStep
  <2> QED BY <1>1, <2>1, <2>2, <2>3 DEF TaskStep
<1>2. ASSUME NEW p \in Policies, NEW team \in Teams, StartStage(p, team) PROVE Inv'
  BY <1>2, StageStep
<1>3. CASE NewDrive \/ ReissueRun
  BY <1>3, DriveStep DEF NewDrive, ReissueRun
<1>4. ASSUME NEW n \in Lesions, Toggle(n) PROVE Inv'
  BY <1>4, ToggleStep
<1>5. ASSUME NEW S \in SUBSET DOMAIN McpCapability, BindServer(S) PROVE Inv'
  BY <1>5, BindStep
<1>6. CASE UNCHANGED vars
  BY <1>6 DEF vars, Inv, TypeOK, Latched, Persisting
<1> QED BY <1>1, <1>2, <1>3, <1>4, <1>5, <1>6 DEF Next

LEMMA Invariant == Spec => []Inv
BY InitInv, InvStep, PTL DEF Spec

(* Every state of a drive is typed, whatever the stages gather, the model  *)
(* and the tools answer and the registry becomes: what is registered is    *)
(* known, and what is disabled is registered.                              *)
THEOREM DispatchTyping == Spec => []TypeOK
<1>1. Inv => TypeOK
  BY DEF Inv
<1> QED BY <1>1, Invariant, PTL

(* For any capabilities, policies, tasks and ceilings: once something that *)
(* taints has been let in, that drive's latch is set; so is the latch of   *)
(* every drive of a run whose column says tainted, however often the run   *)
(* was reissued before, unless that drive is itself a reissued run(); and  *)
(* the journal knows what was let in, unless its write raised or a stage   *)
(* that gathers tasks has it in flight.                                    *)
THEOREM LatchCoversRun == Spec => []RunLatch
<1>1. Inv => RunLatch
  BY DEF Inv, Latched, RunLatch, Persisting
<1> QED BY <1>1, Invariant, PTL

-----------------------------------------------------------------------------
(* The ceilings.  CeilingsHold says nothing of calls in flight, nor of     *)
(* rounds: a task that is about to call has made as many calls as it has   *)
(* rounds behind it, and the money of a drive counts every call in flight  *)
(* as the dearest there is.                                                *)

Dearest == CHOOSE d \in Costs : \A c \in Costs : c <= d
InFlight == {t \in Tasks : frame[t].pc = "waiting"}
Busy == {t \in Tasks : frame[t].pc # "none"}

Counted(f) ==
    /\ f.sent <= Ceiling(f)
    /\ f.pc = "model" => f.sent = f.round /\ f.round < Ceiling(f)
    /\ f.pc = "waiting" => f.sent = f.round + 1
    /\ f.pc \in {"model", "waiting"} => f.kind \in {"loop", "structured"}
    /\ f.pc \in {"route", "persist", "invoke"} =>
           /\ f.kind # "structured"
           /\ f.kind = "loop" => f.sent = f.round + 1 /\ f.round < max_rounds

Reserved == drive.physical = guard.calls /\ guard.calls <= max_calls
Spending == guard.spent > 0 \/ InFlight # {} =>
                guard.spent + Cardinality(InFlight) * Dearest
                    <= max_usd - Projected + setup.width * Dearest

Ceiled == /\ Reserved /\ Spending
          /\ \A t \in Tasks : Counted(frame[t])
          /\ Cardinality(Busy) <= setup.width

LEMMA Products == ASSUME NEW a \in Nat, NEW b \in Nat, NEW d \in Nat
                  PROVE  /\ (a + 1) * d = a * d + d /\ a * d \in Nat
                         /\ a <= b => a * d <= b * d
<1>1. (a + 1) * d = a * d + d /\ a * d \in Nat
  OBVIOUS
<1>2. ASSUME a <= b PROVE a * d <= b * d
  <2>1. b - a \in Nat /\ (b - a) * d \in Nat
    BY <1>2
  <2>2. (b - a) * d = b * d - a * d
    OBVIOUS
  <2>3. a * d \in Int /\ b * d \in Int
    OBVIOUS
  <2> QED BY <2>1, <2>2, <2>3
<1> QED BY <1>1, <1>2

LEMMA DearestCost == Dearest \in Nat /\ \A c \in Costs : c \in Nat /\ c <= Dearest
BY DispatchAssumption DEF DispatchAssumption, Dearest

LEMMA SetsOfTasks ==
    ASSUME Inv
    PROVE  /\ \A S \in SUBSET Tasks : IsFiniteSet(S) /\ Cardinality(S) \in Nat
           /\ InFlight \subseteq Busy /\ Busy \subseteq Tasks
           /\ Cardinality(InFlight) <= Cardinality(Busy)
           /\ setup.width \in Nat /\ guard.spent \in Nat /\ {max_usd, Projected} \subseteq Nat
<1>1. \A S \in SUBSET Tasks : IsFiniteSet(S) /\ Cardinality(S) \in Nat
  BY DispatchAssumption, FS_Subset, FS_CardinalityType DEF DispatchAssumption
<1>2. InFlight \subseteq Busy /\ Busy \subseteq Tasks
  BY DEF InFlight, Busy
<1>3. Cardinality(InFlight) <= Cardinality(Busy)
  BY <1>1, <1>2, FS_Subset
<1>4. setup.width \in Nat /\ guard.spent \in Nat /\ {max_usd, Projected} \subseteq Nat
  BY DispatchAssumption DEF Inv, TypeOK, DispatchAssumption
<1> QED BY <1>1, <1>2, <1>3, <1>4

(* A step that gives one working task another frame of the right count     *)
(* leaves the other tasks as they are, and nobody stops or starts working. *)
LEMMA OneTask ==
    ASSUME Inv, Ceiled, NEW t \in Tasks, NEW f \in Frame, frame' = [frame EXCEPT ![t] = f],
           frame[t].pc # "none", f.pc # "none", Counted(f), setup' = setup
    PROVE  /\ Cardinality(Busy)' <= setup'.width /\ (\A u \in Tasks : Counted(frame[u]))'
           /\ InFlight' = IF f.pc = "waiting" THEN InFlight \cup {t} ELSE InFlight \ {t}
<1>1. \A u \in Tasks : frame'[u] = IF u = t THEN f ELSE frame[u]
  BY DEF Inv, TypeOK
<1>2. Busy' = Busy /\ InFlight' = IF f.pc = "waiting" THEN InFlight \cup {t} ELSE InFlight \ {t}
  BY <1>1 DEF Busy, InFlight
<1>3. ASSUME NEW u \in Tasks PROVE Counted(frame[u])'
  BY <1>1 DEF Ceiled, Counted, Ceiling, Rung
<1> QED BY <1>2, <1>3 DEF Ceiled

(* A step of a task that neither calls nor waits keeps the ceilings.       *)
LEMMA NoCall ==
    ASSUME Inv, Ceiled, NEW t \in Tasks, NEW f \in Frame, frame' = [frame EXCEPT ![t] = f],
           frame[t].pc \notin {"none", "waiting"}, f.pc \notin {"none", "waiting"}, Counted(f),
           UNCHANGED <<setup, guard>>, drive'.physical = drive.physical
    PROVE  Ceiled'
<1>1. InFlight' = InFlight
  BY OneTask DEF InFlight
<1>2. Reserved' /\ Spending'
  BY <1>1 DEF Ceiled, Reserved, Spending
<1> QED BY <1>2, OneTask DEF Ceiled

(* A task whose call is answered leaves the calls in flight, and what the  *)
(* answer cost takes the place of what it was reckoned at.                 *)
LEMMA CallEnds ==
    ASSUME Inv, Ceiled, NEW t \in Tasks, NEW f \in Frame, frame' = [frame EXCEPT ![t] = f],
           frame[t].pc = "waiting", f.pc \notin {"none", "waiting"}, Counted(f),
           UNCHANGED <<setup, drive>>, NEW cost \in Nat, cost <= Dearest,
           guard' = [guard EXCEPT !.spent = @ + cost]
    PROVE  Ceiled'
<1> DEFINE n == Cardinality(InFlight')
<1>1. InFlight = InFlight' \cup {t} /\ t \notin InFlight' /\ InFlight' \subseteq Tasks /\ t \in InFlight
  BY OneTask DEF InFlight
<1>2. n \in Nat /\ Cardinality(InFlight) = n + 1
  BY <1>1, SetsOfTasks, FS_AddElement
<1>3. (n + 1) * Dearest = n * Dearest + Dearest /\ n * Dearest \in Nat
  BY <1>2, Products, DearestCost
<1>4. guard.spent + (n + 1) * Dearest <= max_usd - Projected + setup.width * Dearest
  BY <1>1, <1>2 DEF Ceiled, Spending
<1>5. guard' \in [calls : Nat, spent : Nat] /\ guard'.calls = guard.calls /\ guard'.spent = guard.spent + cost
  BY DEF Inv, TypeOK
<1>6. setup.width * Dearest \in Nat
  BY SetsOfTasks, DearestCost, Products
<1>7. guard'.spent + n * Dearest <= max_usd - Projected + setup.width * Dearest
  <2> HIDE DEF n
  <2> QED BY <1>3, <1>4, <1>5, <1>6, SetsOfTasks, DearestCost
<1>8. Reserved' /\ Spending'
  BY <1>5, <1>7 DEF Ceiled, Reserved, Spending
<1> QED BY <1>8, OneTask DEF Ceiled

-----------------------------------------------------------------------------
(* A frame that has been counted, and what each step makes of it.          *)

LEMMA AnsweredCounted ==
    ASSUME NEW f \in Frame, Counted(f), f.pc \in {"route", "persist", "invoke"}, NEW ok \in BOOLEAN
    PROVE  Counted(Answered(f, ok)) /\ Answered(f, ok).pc # "waiting"
<1>1. f.round \in Nat /\ f.sent \in Nat /\ f.left \in Nat /\ max_rounds \in Nat /\ f.kind # "structured"
  BY DispatchAssumption DEF Frame, Counted, DispatchAssumption
<1>2. CASE f.kind # "loop"
  BY <1>1, <1>2 DEF Answered, Counted, Ceiling, Frame
<1>3. CASE f.kind = "loop" /\ f.left > 1
  BY <1>1, <1>3 DEF Answered, Counted, Ceiling, Frame
<1>4. CASE f.kind = "loop" /\ ~(f.left > 1)
  BY <1>1, <1>4 DEF Answered, Counted, Ceiling, Frame
<1> QED BY <1>2, <1>3, <1>4

(* Within the gate, and at the end of a task, nothing is counted.          *)
LEMMA MovedCounted ==
    ASSUME NEW f \in Frame, Counted(f)
    PROVE  /\ \A r \in Results : Counted([f EXCEPT !.pc = r]) /\ [f EXCEPT !.pc = r].pc = r
           /\ f.pc \in {"route", "persist", "invoke"} =>
                  \A p \in {"persist", "invoke"} : /\ Counted([f EXCEPT !.pc = p])
                                                  /\ [f EXCEPT !.pc = p] \in Frame
                                                  /\ [f EXCEPT !.pc = p].pc = p
BY DEF Counted, Ceiling, Frame, Results, PCs

LEMMA CallingCounted ==
    ASSUME NEW f \in Frame, Counted(f), NEW asked \in Nat
    PROVE  /\ f.pc = "model" => Counted([f EXCEPT !.pc = "waiting", !.sent = @ + 1])
           /\ f.pc = "waiting" /\ f.kind = "loop" /\ f.round # max_rounds =>
                  Counted([f EXCEPT !.pc = "route", !.left = asked])
           /\ f.pc = "waiting" /\ f.kind = "structured" /\ Rung = "retry" /\ f.round + 1 < max_retries =>
                  Counted([f EXCEPT !.pc = "model", !.round = @ + 1])
<1>1. f.round \in Nat /\ f.sent \in Nat /\ {max_rounds, max_retries} \subseteq Nat
  BY DispatchAssumption DEF Frame, DispatchAssumption
<1>2. ASSUME f.pc = "model" PROVE Counted([f EXCEPT !.pc = "waiting", !.sent = @ + 1])
  BY <1>1, <1>2 DEF Counted, Ceiling, Frame
<1>3. ASSUME f.pc = "waiting", f.kind = "loop", f.round # max_rounds
      PROVE  Counted([f EXCEPT !.pc = "route", !.left = asked])
  BY <1>1, <1>3 DEF Counted, Ceiling, Frame
<1>4. ASSUME f.pc = "waiting", f.kind = "structured", Rung = "retry", f.round + 1 < max_retries
      PROVE  Counted([f EXCEPT !.pc = "model", !.round = @ + 1])
  BY <1>1, <1>4 DEF Counted, Ceiling, Frame
<1> QED BY <1>2, <1>3, <1>4

-----------------------------------------------------------------------------
(* The steps.                                                              *)

LEMMA GateCeiled ==
    ASSUME Inv, Ceiled, NEW t \in Tasks,
           \/ \E n \in Known \cup {Unknown}, valid \in BOOLEAN : Dispatch(t, n, valid)
           \/ TaintPersisted(t) \/ PersistFails(t)
           \/ \E ok \in BOOLEAN : ToolEnds(t, ok)
    PROVE  Ceiled'
<1>1. frame[t] \in Frame /\ Counted(frame[t]) /\ frame[t].pc \in {"route", "persist", "invoke"}
  BY DEF Inv, TypeOK, Ceiled, Dispatch, TaintPersisted, PersistFails, ToolEnds
<1>2. UNCHANGED <<setup, guard>> /\ drive'.physical = drive.physical
  BY DEF Inv, TypeOK, Dispatch, TaintPersisted, PersistFails, ToolEnds
<1>3. \E f \in Frame : f.pc \notin {"none", "waiting"} /\ Counted(f) /\ frame' = [frame EXCEPT ![t] = f]
  <2>1. \A ok \in BOOLEAN : /\ Answered(frame[t], ok) \in Frame /\ Counted(Answered(frame[t], ok))
                            /\ Answered(frame[t], ok).pc \notin {"none", "waiting"}
    BY <1>1, AnsweredFrame, AnsweredCounted
  <2>2. \A p \in {"persist", "invoke"} : /\ Counted([frame[t] EXCEPT !.pc = p])
                                        /\ [frame[t] EXCEPT !.pc = p] \in Frame
                                        /\ [frame[t] EXCEPT !.pc = p].pc = p
    BY <1>1, MovedCounted
  <2>3. /\ Counted([frame[t] EXCEPT !.pc = "approval"]) /\ [frame[t] EXCEPT !.pc = "approval"] \in Frame
        /\ [frame[t] EXCEPT !.pc = "approval"].pc = "approval"
    <3>1. "approval" \in Results
      BY DEF Results
    <3>2. 0 \in Nat
      OBVIOUS
    <3>3. /\ [frame[t] EXCEPT !.pc = "approval"] \in Frame
          /\ [frame[t] EXCEPT !.pc = "approval"].pc = "approval"
      BY <1>1, <3>1, <3>2, CallingFrame, Zenon
    <3>4. Counted([frame[t] EXCEPT !.pc = "approval"])
      BY <1>1, <3>1, MovedCounted, Zenon
    <3> QED BY <3>3, <3>4
  <2> QED BY <2>1, <2>2, <2>3 DEF Dispatch, TaintPersisted, PersistFails, ToolEnds, Goes, Ends
<1> QED BY <1>1, <1>2, <1>3, NoCall

LEMMA StartCeiled ==
    ASSUME Inv, Ceiled, NEW t \in Tasks, StartCall(t)
    PROVE  Ceiled'
<1>1. frame[t] \in Frame /\ Counted(frame[t]) /\ frame[t].pc = "model"
  BY DEF Inv, TypeOK, Ceiled, StartCall
<1>2. CASE Refuses
  <2>1. "over_budget" \in Results
    BY DEF Results
  <2>2. /\ Counted([frame[t] EXCEPT !.pc = "over_budget"]) /\ [frame[t] EXCEPT !.pc = "over_budget"] \in Frame
        /\ [frame[t] EXCEPT !.pc = "over_budget"].pc = "over_budget"
    <3>1. 0 \in Nat
      OBVIOUS
    <3>2. /\ [frame[t] EXCEPT !.pc = "over_budget"] \in Frame
          /\ [frame[t] EXCEPT !.pc = "over_budget"].pc = "over_budget"
      BY <1>1, <2>1, <3>1, CallingFrame, Zenon
    <3>3. Counted([frame[t] EXCEPT !.pc = "over_budget"])
      BY <1>1, <2>1, MovedCounted, Zenon
    <3> QED BY <3>2, <3>3
  <2> QED BY <1>1, <1>2, <2>2, NoCall DEF StartCall, Goes, Ends
<1>3. CASE ~Refuses
  <2> DEFINE f == [frame[t] EXCEPT !.pc = "waiting", !.sent = @ + 1]
             n == Cardinality(InFlight)
  <2>0. 0 \in Nat
    OBVIOUS
  <2>1. f \in Frame /\ f.pc = "waiting" /\ Counted(f)
    <3>1. f \in Frame /\ f.pc = "waiting"
      BY <1>1, <2>0, CallingFrame, Zenon
    <3>2. Counted(f)
      BY <1>1, <2>0, CallingCounted, Zenon
    <3> QED BY <3>1, <3>2
  <2>2. frame' = [frame EXCEPT ![t] = f] /\ UNCHANGED setup
    BY <1>3 DEF StartCall, Goes
  <2>3. /\ Cardinality(Busy)' <= setup'.width /\ (\A u \in Tasks : Counted(frame[u]))'
        /\ InFlight' = InFlight \cup {t} /\ t \notin InFlight
    <3> HIDE DEF f
    <3> QED BY <1>1, <2>1, <2>2, OneTask DEF InFlight
  <2>4. Cardinality(InFlight') <= setup.width /\ Cardinality(InFlight') \in Nat
    <3>1. InFlight' \subseteq Busy' /\ Busy' \subseteq Tasks
      BY DEF InFlight, Busy
    <3>2. IsFiniteSet(Busy') /\ Cardinality(Busy') \in Nat /\ IsFiniteSet(InFlight')
      BY <3>1, SetsOfTasks
    <3>3. Cardinality(InFlight') <= Cardinality(Busy') /\ Cardinality(InFlight') \in Nat
      BY <3>1, <3>2, FS_Subset, FS_CardinalityType
    <3> QED BY <2>2, <2>3, <3>2, <3>3, SetsOfTasks
  <2>5. guard' = [guard EXCEPT !.calls = @ + 1] /\ drive' = [drive EXCEPT !.physical = @ + 1]
    BY <1>3 DEF StartCall
  <2>6. guard.calls < max_calls /\ guard.spent + Projected <= max_usd /\ max_calls \in Nat
    BY <1>3, SetsOfTasks, DispatchAssumption DEF Refuses, DispatchAssumption, Inv, TypeOK
  <2>7. Reserved'
    BY <2>5, <2>6 DEF Ceiled, Reserved, Inv, TypeOK
  <2>8. guard'.spent = guard.spent
    BY <2>5 DEF Inv, TypeOK
  <2>9. Cardinality(InFlight') * Dearest <= setup.width * Dearest
        /\ Cardinality(InFlight') * Dearest \in Nat /\ setup.width * Dearest \in Nat
    BY <2>4, SetsOfTasks, DearestCost, Products
  <2>10. Spending'
    BY <2>2, <2>6, <2>8, <2>9, SetsOfTasks DEF Spending
  <2> QED BY <2>3, <2>7, <2>10 DEF Ceiled
<1> QED BY <1>2, <1>3

LEMMA ReplyCeiled ==
    ASSUME Inv, Ceiled, NEW t \in Tasks,
           \/ CallFails(t)
           \/ \E c \in Costs, asked \in 0..MaxBatch : LoopReply(t, c, asked)
           \/ \E c \in Costs, valid \in BOOLEAN : StructuredReply(t, c, valid)
    PROVE  Ceiled'
<1>1. frame[t] \in Frame /\ Counted(frame[t]) /\ frame[t].pc = "waiting"
  BY DEF Inv, TypeOK, Ceiled, CallFails, LoopReply, StructuredReply
<1>2. UNCHANGED <<setup, drive>>
  BY DEF CallFails, LoopReply, StructuredReply
<1> DEFINE Good(f) == f \in Frame /\ f.pc \notin {"none", "waiting"} /\ Counted(f)
<1>3. \A r \in {"returned", "raised", "tool_limit", "invalid"} : Good([frame[t] EXCEPT !.pc = r])
  <2> SUFFICES ASSUME NEW r \in {"returned", "raised", "tool_limit", "invalid"}
               PROVE  Good([frame[t] EXCEPT !.pc = r])
    OBVIOUS
  <2>1. r \in Results /\ r \notin {"none", "waiting"}
    BY DEF Results
  <2>2. Counted([frame[t] EXCEPT !.pc = r]) /\ [frame[t] EXCEPT !.pc = r].pc = r
    BY <1>1, <2>1, MovedCounted
  <2>3. [frame[t] EXCEPT !.pc = r] \in Frame
    <3>1. 0 \in Nat
      OBVIOUS
    <3> QED BY <1>1, <2>1, <3>1, CallingFrame, Zenon
  <2> QED BY <2>1, <2>2, <2>3
<1>4. \E f : Good(f) /\ frame' = [frame EXCEPT ![t] = f]
  <2>1. CASE CallFails(t)
    BY <1>3, <2>1 DEF CallFails, Goes, Ends
  <2>2. ASSUME NEW c \in Costs, NEW asked \in 0..MaxBatch, LoopReply(t, c, asked)
        PROVE  \E f : Good(f) /\ frame' = [frame EXCEPT ![t] = f]
    <3>1. asked \in Nat
      BY DispatchAssumption DEF DispatchAssumption
    <3>2. frame[t].round # max_rounds => Good([frame[t] EXCEPT !.pc = "route", !.left = asked])
      <4>1. /\ [frame[t] EXCEPT !.pc = "route", !.left = asked] \in Frame
            /\ [frame[t] EXCEPT !.pc = "route", !.left = asked].pc = "route"
        BY <1>1, <3>1, CallingFrame, Zenon
      <4>2. frame[t].pc = "waiting" /\ frame[t].kind = "loop"
        BY <2>2 DEF LoopReply
      <4>3. frame[t].round # max_rounds => Counted([frame[t] EXCEPT !.pc = "route", !.left = asked])
        BY <1>1, <3>1, <4>2, CallingCounted, Zenon
      <4> QED BY <4>1, <4>3
    <3> QED BY <1>3, <2>2, <3>2 DEF LoopReply, Goes, Ends
  <2>3. ASSUME NEW c \in Costs, NEW valid \in BOOLEAN, StructuredReply(t, c, valid)
        PROVE  \E f : Good(f) /\ frame' = [frame EXCEPT ![t] = f]
    <3>1. Rung = "retry" /\ frame[t].round + 1 < max_retries =>
              Good([frame[t] EXCEPT !.pc = "model", !.round = @ + 1])
      <4>1. 0 \in Nat
        OBVIOUS
      <4>2. /\ [frame[t] EXCEPT !.pc = "model", !.round = @ + 1] \in Frame
            /\ [frame[t] EXCEPT !.pc = "model", !.round = @ + 1].pc = "model"
        BY <1>1, <4>1, CallingFrame, Zenon
      <4>3. frame[t].pc = "waiting" /\ frame[t].kind = "structured"
        BY <2>3 DEF StructuredReply
      <4>4. Rung = "retry" /\ frame[t].round + 1 < max_retries =>
                Counted([frame[t] EXCEPT !.pc = "model", !.round = @ + 1])
        BY <1>1, <4>1, <4>3, CallingCounted, Zenon
      <4> QED BY <4>2, <4>4
    <3> QED BY <1>3, <2>3, <3>1 DEF StructuredReply, Goes, Ends
  <2> QED BY <2>1, <2>2, <2>3
<1>5. \E cost \in Nat : cost <= Dearest /\ guard' = [guard EXCEPT !.spent = @ + cost]
  <2>1. CASE CallFails(t)
    <3>1. guard.spent \in Nat /\ guard.spent + 0 = guard.spent /\ 0 <= Dearest
      BY SetsOfTasks, DearestCost
    <3>2. guard' = [guard EXCEPT !.spent = @ + 0]
      BY <2>1, <3>1 DEF CallFails, Inv, TypeOK
    <3> QED BY <3>1, <3>2
  <2>2. CASE \E c \in Costs, asked \in 0..MaxBatch : LoopReply(t, c, asked)
    BY <2>2, DearestCost DEF LoopReply, Record
  <2>3. CASE \E c \in Costs, valid \in BOOLEAN : StructuredReply(t, c, valid)
    BY <2>3, DearestCost DEF StructuredReply, Record
  <2> QED BY <2>1, <2>2, <2>3
<1>6. PICK f : Good(f) /\ frame' = [frame EXCEPT ![t] = f]
  BY <1>4
<1>7. PICK cost \in Nat : cost <= Dearest /\ guard' = [guard EXCEPT !.spent = @ + cost]
  BY <1>5
<1> QED BY <1>1, <1>2, <1>6, <1>7, CallEnds

LEMMA BegunCounted == \A kind \in Kinds : Counted(Begin(kind)) /\ Begin(kind).pc \notin {"none", "waiting"}
<1>1. {max_rounds, max_retries} \subseteq Nat /\ max_retries > 0
  BY DispatchAssumption DEF DispatchAssumption
<1> QED BY <1>1 DEF Begin, NoFrame, Counted, Ceiling, Kinds

LEMMA IdleCounted == Counted(NoFrame) /\ NoFrame.pc = "none"
BY DEF NoFrame, Counted, Ceiling

LEMMA StageCeiled ==
    ASSUME Inv, Ceiled, NEW policy \in Policies, NEW team \in Teams, StartStage(policy, team)
    PROVE  Ceiled'
<1>1. DOMAIN team \subseteq Tasks /\ team \in [DOMAIN team -> Kinds]
  BY DispatchAssumption DEF DispatchAssumption
<1>2. \A t \in Tasks : frame'[t] = IF t \in DOMAIN team THEN Begin(team[t]) ELSE NoFrame
  BY DEF StartStage
<1>3. Busy' = DOMAIN team /\ InFlight' = {}
  BY <1>1, <1>2, BegunCounted, IdleCounted DEF Busy, InFlight
<1>4. InFlight = {}
  BY DEF StartStage, Idle, Results, InFlight
<1>5. UNCHANGED <<setup, guard>> /\ drive'.physical = drive.physical
  BY DEF StartStage, Inv, TypeOK
<1>6. ASSUME NEW t \in Tasks PROVE Counted(frame[t])'
  <2>1. PICK f : f = frame'[t]
    OBVIOUS
  <2>2. Counted(f)
    BY <1>1, <1>2, <2>1, BegunCounted, IdleCounted
  <2> QED BY <1>5, <2>1, <2>2 DEF Counted, Ceiling, Rung
<1>7. Cardinality(Busy)' <= setup'.width
  BY <1>3, <1>5 DEF StartStage
<1>8. Reserved' /\ Spending'
  BY <1>3, <1>4, <1>5 DEF Ceiled, Reserved, Spending
<1> QED BY <1>6, <1>7, <1>8 DEF Ceiled

LEMMA InitCeiled == Init => Ceiled
<1> SUFFICES ASSUME Init PROVE Ceiled
  OBVIOUS
<1>1. Inv
  BY InitInv
<1>2. \A t \in Tasks : frame[t] = NoFrame
  BY DEF Init
<1>3. Busy = {} /\ InFlight = {} /\ \A t \in Tasks : Counted(frame[t])
  BY <1>2, IdleCounted DEF Busy, InFlight
<1>4. Cardinality(Busy) = 0 /\ max_calls \in Nat
  BY <1>3, FS_EmptySet, DispatchAssumption DEF DispatchAssumption
<1>5. Reserved /\ Spending
  BY <1>3, <1>4 DEF Init, Reserved, Spending
<1> QED BY <1>1, <1>3, <1>4, <1>5, SetsOfTasks DEF Ceiled

LEMMA DriveCeiled == Inv /\ Ceiled /\ (NewDrive \/ ReissueRun) => Ceiled'
<1> SUFFICES ASSUME Inv, Ceiled, NewDrive \/ ReissueRun PROVE Ceiled'
  OBVIOUS
<1>1. \A t \in Tasks : frame'[t] = NoFrame
  BY DEF NewDrive, ReissueRun, BuildContext
<1>2. UNCHANGED setup /\ guard' = [calls |-> 0, spent |-> 0] /\ drive'.physical = 0
  <2>1. PICK reissued \in BOOLEAN : BuildContext(reissued)
    BY DEF NewDrive, ReissueRun
  <2> QED BY <2>1 DEF BuildContext
<1>3. Busy' = {} /\ InFlight' = {}
  BY <1>1, IdleCounted DEF Busy, InFlight
<1>4. ASSUME NEW t \in Tasks PROVE Counted(frame[t])'
  <2>1. PICK f : f = frame'[t]
    OBVIOUS
  <2>2. Counted(f)
    BY <1>1, <2>1, IdleCounted
  <2> QED BY <1>2, <2>1, <2>2 DEF Counted, Ceiling, Rung
<1>5. Cardinality(Busy)' = 0 /\ max_calls \in Nat
  BY <1>3, FS_EmptySet, DispatchAssumption DEF DispatchAssumption
<1>6. Reserved' /\ Spending'
  BY <1>2, <1>3, <1>5 DEF Reserved, Spending
<1> QED BY <1>2, <1>4, <1>5, <1>6, SetsOfTasks DEF Ceiled

LEMMA CeiledStep == Inv /\ Ceiled /\ [Next]_vars => Ceiled'
<1> SUFFICES ASSUME Inv, Ceiled, [Next]_vars PROVE Ceiled'
  OBVIOUS
<1>1. ASSUME NEW t \in Tasks, TaskStep(t) PROVE Ceiled'
  BY <1>1, GateCeiled, StartCeiled, ReplyCeiled DEF TaskStep
<1>2. ASSUME NEW p \in Policies, NEW team \in Teams, StartStage(p, team) PROVE Ceiled'
  BY <1>2, StageCeiled
<1>3. CASE NewDrive \/ ReissueRun
  BY <1>3, DriveCeiled
<1>4. CASE UNCHANGED <<setup, guard, drive, frame>>
  <2>1. Reserved' /\ Spending' /\ Cardinality(Busy)' <= setup'.width
    BY <1>4 DEF Ceiled, Reserved, Spending, InFlight, Busy
  <2>2. (\A t \in Tasks : Counted(frame[t]))'
    BY <1>4 DEF Ceiled, Counted, Ceiling, Rung
  <2> QED BY <2>1, <2>2 DEF Ceiled
<1>5. ASSUME NEW n \in Lesions, Toggle(n) PROVE Ceiled'
  BY <1>4, <1>5 DEF Toggle
<1>6. ASSUME NEW S \in SUBSET DOMAIN McpCapability, BindServer(S) PROVE Ceiled'
  BY <1>4, <1>6 DEF BindServer
<1>7. CASE UNCHANGED vars
  BY <1>4, <1>7 DEF vars
<1> QED BY <1>1, <1>2, <1>3, <1>5, <1>6, <1>7 DEF Next

(* For any budget, costs and number of tasks: a drive makes no more calls  *)
(* than max_calls, a task no more than its rounds or retries allow, and    *)
(* the drive spends beyond max_usd only what calls in flight together      *)
(* cost more than the one projection that was checked.                     *)
THEOREM CeilingsAreKept == Spec => []CeilingsHold
<1>1. Inv /\ Ceiled => CeilingsHold
  <2> SUFFICES ASSUME Inv, Ceiled PROVE CeilingsHold
    OBVIOUS
  <2>1. drive.physical <= max_calls /\ \A t \in Tasks : frame[t].sent <= Ceiling(frame[t])
    BY DEF Ceiled, Reserved, Counted
  <2>2. ASSUME guard.spent > 0 PROVE guard.spent <= max_usd - Projected + setup.width * Dearest
    <3>1. Cardinality(InFlight) * Dearest \in Nat /\ setup.width * Dearest \in Nat
      BY SetsOfTasks, DearestCost, Products DEF InFlight
    <3>2. guard.spent + Cardinality(InFlight) * Dearest <= max_usd - Projected + setup.width * Dearest
      BY <2>2 DEF Ceiled, Spending
    <3> QED BY <3>1, <3>2, SetsOfTasks
  <2>3. Dearest \in Costs
    BY DispatchAssumption DEF DispatchAssumption, Dearest
  <2> QED BY <2>1, <2>2, <2>3 DEF CeilingsHold
<1>2. Init => Inv /\ Ceiled
  BY InitInv, InitCeiled
<1>3. (Inv /\ Ceiled) /\ [Next]_vars => (Inv /\ Ceiled)'
  BY InvStep, CeiledStep
<1> QED BY <1>1, <1>2, <1>3, PTL DEF Spec

=============================================================================
