----------------------------- MODULE DurableRun -----------------------------
(***************************************************************************)
(* What the engine promises about a run, without engines: a log that only  *)
(* grows, one committed result after the other along the declared edges of *)
(* the pathway the run was started with, until a result ends it.  Parking, *)
(* waking, retrying, pausing, crashing and replaying do not show.          *)
(***************************************************************************)
EXTENDS Pathway

VARIABLES
    phase,      \* "none", "live" or the status the run ended with
    pathway,    \* entry and edges of the pathway the run was started with
    log         \* position -> [stage, result]

vars == <<phase, pathway, log>>

Length == Cardinality(DOMAIN log)
Last == log[Length - 1]

(* The run can go on: nothing committed yet, or the last result routes.    *)
Open == Length = 0 \/ Routes(Last.result)
NextStage == IF Length = 0 THEN pathway.entry ELSE Last.result.to

Init ==
    /\ phase = "none"
    /\ DOMAIN log = {}
    /\ pathway.entry = NoStage

Begin ==
    /\ phase = "none"
    /\ phase' = "live"
    /\ pathway'.entry \in Stages
    /\ UNCHANGED log

Extend ==
    /\ phase = "live"
    /\ Open
    /\ DOMAIN log' = 0..Length
    /\ \A i \in DOMAIN log : log'[i] = log[i]
    /\ log'[Length].stage = NextStage
    /\ LET r == log'[Length].result
       IN  r \in StageResult /\ (Routes(r) => r.to \in pathway.edges[NextStage])
    /\ UNCHANGED <<phase, pathway>>

(* A run completes or degrades as its last result says, and fails only     *)
(* short of one.                                                           *)
End ==
    /\ phase = "live"
    /\ phase' = IF Open THEN "failed"
                ELSE IF Last.result.kind = "done" THEN "completed" ELSE "degraded"
    /\ UNCHANGED <<pathway, log>>

Next == Begin \/ Extend \/ End

Spec == Init /\ [][Next]_vars

=============================================================================
