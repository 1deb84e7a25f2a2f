------------------------------ MODULE Journal ------------------------------
(***************************************************************************)
(* The durable journal of ONE run: the rows that TimescaleJournal keeps    *)
(* for a run_id, and one operator per journal call.  Every call is a       *)
(* single SQL statement on an autocommit connection, so every operator     *)
(* below is one atomic step; a caller that makes two calls makes two       *)
(* steps.  All rows are keyed by run_id and no statement here touches two  *)
(* runs except claim_due_timers, whose effect on each run is independent.  *)
(*                                                                         *)
(* Time is abstracted to what the sweep can tell apart: a timer is due or  *)
(* not yet (wake_at <= now), and its lease is absent, fresh or stale       *)
(* (claimed_at against now - lease_ttl).                                   *)
(***************************************************************************)
EXTENDS Pathway

CONSTANT Answers    \* the payloads a human may answer with

VARIABLES
    status,         \* cogworx_journal_runs.status, "none" before the row exists
    fingerprint,    \* cogworx_journal_runs.pathway_fingerprint
    steps,          \* cogworx_journal_steps: step_index -> committed record
    attempts,       \* cogworx_step_attempts: step_index -> failures counted
    timers,         \* cogworx_timers: timer_id -> [due, lease]
    answers         \* cogworx_human_inputs: step_index -> answer

journal == <<status, fingerprint, steps, attempts, timers, answers>>

RunStatus == {"running", "completed", "failed", "awaiting_human",
              "degraded", "waiting", "paused", "retrying"}
Terminal  == {"completed", "failed", "degraded"}

StepRecord == [stage : Stages, result : StageResult]

(* A timer id is <<step_index, n>>: n = 0 is the timer of the Wait at that *)
(* step, n > 0 the timer armed after its n-th failed attempt.              *)
WaitTimer(i)     == <<i, 0>>
RetryTimer(i, n) == <<i, n>>
TimerRow == [due : BOOLEAN, lease : {"none", "fresh", "stale"}]

(* A table as a function from its keys: a row inserted, rows deleted. *)
Insert(table, key, row) ==
    [k \in DOMAIN table \cup {key} |-> IF k = key THEN row ELSE table[k]]
Delete(table, keys) == [k \in DOMAIN table \ keys |-> table[k]]
EmptyTable == [k \in {} |-> {}]
NoFingerprint == [entry |-> NoStage, edges |-> EmptyTable, twice |-> EmptyTable]

JournalInit ==
    /\ status = "none"
    /\ fingerprint = NoFingerprint
    /\ steps = EmptyTable
    /\ attempts = EmptyTable
    /\ timers = EmptyTable
    /\ answers = EmptyTable

JournalTypeOK ==
    /\ status \in RunStatus \cup {"none"}
    /\ DOMAIN steps \subseteq Nat
    /\ \A i \in DOMAIN steps : steps[i] \in StepRecord
    /\ DOMAIN attempts \subseteq Nat
    /\ \A i \in DOMAIN attempts : attempts[i] \in Nat \ {0}
    /\ DOMAIN timers \subseteq Nat \X Nat
    /\ \A id \in DOMAIN timers : timers[id] \in TimerRow
    /\ DOMAIN answers \subseteq Nat
    /\ \A i \in DOMAIN answers : answers[i] \in Answers

-----------------------------------------------------------------------------
(* Runs. *)

(* INSERT ... ON CONFLICT (run_id) DO NOTHING *)
StartRun(fp) ==
    /\ IF status = "none"
       THEN status' = "running" /\ fingerprint' = fp
       ELSE UNCHANGED <<status, fingerprint>>
    /\ UNCHANGED <<steps, attempts, timers, answers>>

(* An UPDATE with no condition on the status it overwrites. *)
SetRunStatus(new) ==
    /\ status' = new
    /\ UNCHANGED <<fingerprint, steps, attempts, timers, answers>>

(* UPDATE ... WHERE status = expect RETURNING: the two outcomes.           *)
CasWins(expect, new) ==
    /\ status = expect
    /\ SetRunStatus(new)
CasLoses(expect) ==
    /\ status # expect
    /\ UNCHANGED journal

-----------------------------------------------------------------------------
(* Steps, failure counts and human answers. *)

(* INSERT ... ON CONFLICT (run_id, step_index) DO NOTHING.  The caller is  *)
(* not told whether its row or an earlier one is stored.                   *)
CommitStep(i, record) ==
    /\ steps' = IF i \in DOMAIN steps THEN steps ELSE Insert(steps, i, record)
    /\ UNCHANGED <<status, fingerprint, attempts, timers, answers>>

ReadAttempt(i) == IF i \in DOMAIN attempts THEN attempts[i] ELSE 0

(* INSERT ... ON CONFLICT DO UPDATE SET attempt = attempt + 1 *)
IncrementAttempt(i) ==
    /\ attempts' = Insert(attempts, i, ReadAttempt(i) + 1)
    /\ UNCHANGED <<status, fingerprint, steps, timers, answers>>

(* First answer wins: ON CONFLICT (run_id, step_index) DO NOTHING.         *)
(* Fault: the conflict updates the row.                                    *)
OverwriteHumanInput(i, a) ==
    /\ answers' = Insert(answers, i, a)
    /\ UNCHANGED <<status, fingerprint, steps, attempts, timers>>

RecordHumanInput(i, a) ==
    /\ answers' = IF i \in DOMAIN answers THEN answers ELSE Insert(answers, i, a)
    /\ UNCHANGED <<status, fingerprint, steps, attempts, timers>>

-----------------------------------------------------------------------------
(* Timers. *)

(* ON CONFLICT (timer_id) DO NOTHING: re-arming an armed timer is a no-op. *)
SetTimer(id) ==
    /\ timers' = IF id \in DOMAIN timers THEN timers
                 ELSE Insert(timers, id, [due |-> FALSE, lease |-> "none"])
    /\ UNCHANGED <<status, fingerprint, steps, attempts, answers>>

CancelTimer(id) ==
    /\ timers' = Delete(timers, {id})
    /\ UNCHANGED <<status, fingerprint, steps, attempts, answers>>

CancelTimersForRun ==
    /\ timers' = Delete(timers, DOMAIN timers)
    /\ UNCHANGED <<status, fingerprint, steps, attempts, answers>>

(* The rows the claiming UPDATE matches: due, and unclaimed or stale.      *)
Claimable == {id \in DOMAIN timers : timers[id].due /\ timers[id].lease # "fresh"}

(* The rows survive the claim with a fresh lease. *)
ClaimDueTimers ==
    /\ timers' = [id \in DOMAIN timers |->
                    IF id \in Claimable THEN [timers[id] EXCEPT !.lease = "fresh"]
                    ELSE timers[id]]
    /\ UNCHANGED <<status, fingerprint, steps, attempts, answers>>

(* The passing of time: a wake_at is reached, a lease_ttl runs out. *)
TimerFallsDue(id) ==
    /\ id \in DOMAIN timers
    /\ ~timers[id].due
    /\ timers' = [timers EXCEPT ![id].due = TRUE]
    /\ UNCHANGED <<status, fingerprint, steps, attempts, answers>>

LeaseGoesStale(id) ==
    /\ id \in DOMAIN timers
    /\ timers[id].lease = "fresh"
    /\ timers' = [timers EXCEPT ![id].lease = "stale"]
    /\ UNCHANGED <<status, fingerprint, steps, attempts, answers>>

=============================================================================
