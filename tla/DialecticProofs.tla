--------------------------- MODULE DialecticProofs ---------------------------
(***************************************************************************)
(* A conclusion is honest and the evidence agrees with it, for any theses, *)
(* costs, ceilings, oracles and number of cycles.                          *)
(*                                                                         *)
(* The stages remember nothing, so the argument is about the shape of the  *)
(* log: each step stands where the one before it sent the run, a cycle is  *)
(* thesis, experiment, antithesis, evaluate in a row, and only the         *)
(* evaluation leads to the conclusion, which is the last step.  The last   *)
(* outputs of the whole run, the window of one cycle and the claim of the  *)
(* nearest thesis are then the same three steps.                           *)
(***************************************************************************)
EXTENDS Dialectic, SequenceTheorems, TLAPS

Routes == {"abstain", "over_budget", "stuck", "success", "unverifiable", "refine"}
Conclusions == {"verified", "human-confirmed", "unverified"}
Record ==
    [stage : Stages, kind : {"transition", "degraded", "await-human", "done"},
     to : Stages \cup {None},
     output : Theses \cup Verdict \cup Dispositions \cup {None} \cup Conclusions]

(* What step i is, at its stage.  A stage that timed out for the last time *)
(* ends the run.                                                           *)
TimedOut(i) == log[i].kind = "degraded" /\ log[i].to = None

Proposed(i) == log[i].kind = "transition" /\ log[i].to = "experiment"

Checked(i) ==
    /\ log[i].kind = "transition" /\ log[i].to = "antithesis"
    /\ \/ Oracle = "code" /\ log[i].output \in CodeVerdicts \cup {Refusal}
       \/ Oracle = "judge" /\ log[i].output \in JudgeVerdicts

Challenged(i) == log[i].kind = "transition" /\ log[i].to = "evaluate"

(* An evaluation that sends the run to the conclusion as a success has a   *)
(* cycle before it that earned it.                                         *)
Earned(i) ==
    /\ i > 3 /\ log[i - 3].output.claim # None
    /\ Passes(log[i - 2].output) /\ log[i - 1].output = "could_not_break"

Evaluated(i) ==
    /\ \E route \in Routes : log[i].kind = RouteResult(route).kind /\ log[i].to = RouteResult(route).to
    /\ log[i].kind = "transition" /\ log[i].to = "conclude" => Earned(i)

Step(i) ==
    /\ log[i].stage = "thesis" => Proposed(i) \/ TimedOut(i)
    /\ log[i].stage = "experiment" => Checked(i) \/ TimedOut(i)
    /\ log[i].stage = "antithesis" => Challenged(i) \/ TimedOut(i)
    /\ log[i].stage = "evaluate" => Evaluated(i)
    /\ log[i].stage = "conclude" => log[i].to = None /\ log[i].kind \in {"done", "degraded"}

Walk ==
    /\ log \in Seq(Record)
    /\ log # <<>> => log[1].stage = "thesis"
    /\ \A i \in 1..Len(log) : Step(i) /\ (i > 1 => log[i].stage = log[i - 1].to)

(* A run waits for a human only at the evaluation that asked for one, and  *)
(* the answer recorded is to that step.                                    *)
Questions ==
    /\ drive \in [pc : {"down", "stage", "settle", "answered"}, spent : Nat]
    /\ drive.pc = "answered" => status = "AWAITING_HUMAN"
    /\ status # "RUNNING" => drive.pc \in {"down", "answered"}
    /\ status = "AWAITING_HUMAN" => log # <<>> /\ Last(log).kind = "await-human"
    /\ drive.pc = "settle" => log # <<>>
    /\ answer.step # 0 => answer.step \in 1..Len(log) /\ log[answer.step].kind = "await-human"

(* What was concluded, told by the step before.                            *)
Honest ==
    Concluded =>
        LET n == Len(log) IN
        /\ log[n].output = "verified" <=> log[n - 1].kind = "transition"
        /\ log[n].output = "human-confirmed" <=>
              log[n - 1].kind = "await-human" /\ answer.step = n - 1 /\ answer.data = "confirm-success"
        /\ log[n].kind = "done" <=> log[n].output # "unverified"

Inv == Walk /\ Questions /\ Honest

-----------------------------------------------------------------------------
(* Reading the log back. *)

LEMMA Highest ==
    ASSUME NEW I \in SUBSET Int, NEW m \in I, \A j \in I : j <= m
    PROVE  I # {} /\ Max(I) = m
<1>1. m \in I /\ \A j \in I : m >= j
  OBVIOUS
<1>2. Max(I) \in I /\ \A j \in I : Max(I) >= j
  BY <1>1 DEF Max
<1>3. Max(I) \in Int /\ m \in Int /\ Max(I) <= m /\ m <= Max(I)
  BY <1>1, <1>2
<1> QED
  BY <1>1, <1>3

(* The last step of a stage, and the last that leads to the conclusion.    *)
LEMMA LastOfIs ==
    ASSUME log \in Seq(Record), NEW stage, NEW m \in 1..Len(log), log[m].stage = stage,
           \A j \in (m + 1)..Len(log) : log[j].stage # stage
    PROVE  LastOf(stage) = m
<1> DEFINE I == {j \in 1..Len(log) : log[j].stage = stage}
<1>1. I \in SUBSET Int /\ m \in I /\ \A j \in I : j <= m
  OBVIOUS
<1>2. I # {} /\ Max(I) = m
  BY <1>1, Highest
<1> QED
  BY <1>2 DEF LastOf, SelectLastInSeq

LEMMA RoutingIs ==
    ASSUME log \in Seq(Record), NEW m \in 1..Len(log), log[m].to = "conclude",
           \A j \in (m + 1)..Len(log) : log[j].to # "conclude"
    PROVE  Routing = m
<1> DEFINE I == {j \in 1..Len(log) : log[j].to = "conclude"}
<1>1. I \in SUBSET Int /\ m \in I /\ \A j \in I : j <= m
  OBVIOUS
<1>2. I # {} /\ Max(I) = m
  BY <1>1, Highest
<1> QED
  BY <1>2 DEF Routing, SelectLastInSeq

(* The nearest thesis: where a window starts, and whose claim it is about. *)
LEMMA ThesisIs ==
    ASSUME NEW n \in Nat, NEW m \in 1..n, log[m].stage = "thesis",
           \A j \in (m + 1)..n : log[j].stage # "thesis"
    PROVE  Window(n + 1) = (m + 1)..n /\ ClaimAt(n) = log[m].output.claim
<1> DEFINE I == {j \in 1..n : log[j].stage = "thesis"}
<1>1. I \in SUBSET Int /\ m \in I /\ \A j \in I : j <= m
  OBVIOUS
<1>2. I # {} /\ Max(I) = m
  BY <1>1, Highest
<1>3. n + 1 - 1 = n
  OBVIOUS
<1> QED
  BY <1>2, <1>3 DEF Window, ClaimAt, SelectLastInSubSeq

(* What is before a step, if it is where the run was sent.                 *)
LEMMA Kinds ==
    ASSUME Walk, NEW i \in 1..Len(log)
    PROVE  /\ log[i] \in Record
           /\ log[i].to = "experiment" <=> log[i].stage = "thesis" /\ Proposed(i)
           /\ log[i].to = "antithesis" <=> log[i].stage = "experiment" /\ Checked(i)
           /\ log[i].to = "evaluate" <=> log[i].stage = "antithesis" /\ Challenged(i)
           /\ log[i].to = "conclude" => log[i].stage = "evaluate" /\ Evaluated(i)
           /\ log[i].stage = "conclude" => log[i].to = None
<1>1. log[i] \in Record /\ Step(i)
  BY DEF Walk
<1>2. log[i].stage = "evaluate" => log[i].to \in {"thesis", "conclude"}
  BY <1>1 DEF Step, Evaluated, RouteResult, Routes
<1> QED
  BY <1>1, <1>2 DEF Step, Record, Stages, Proposed, Checked, Challenged, TimedOut, None

LEMMA Before ==
    ASSUME Walk, NEW i \in 1..Len(log)
    PROVE  /\ log[i].to = "evaluate" =>
                 /\ i > 2 /\ i - 1 \in 1..Len(log) /\ i - 2 \in 1..Len(log)
                 /\ log[i].stage = "antithesis" /\ log[i].kind = "transition"
                 /\ log[i - 1].stage = "experiment" /\ Checked(i - 1)
                 /\ log[i - 2].stage = "thesis"
           /\ log[i].stage = "evaluate" => i > 1 /\ log[i - 1].to = "evaluate"
           /\ log[i].stage = "conclude" => i > 1 /\ log[i - 1].to = "conclude" /\ i = Len(log)
<1>1. /\ Len(log) \in Nat /\ log[1].stage = "thesis"
      /\ \A j \in 1..Len(log) : j > 1 => log[j].stage = log[j - 1].to
  BY DEF Walk
<1>2. log[i].stage = "evaluate" => i > 1 /\ log[i - 1].to = "evaluate"
  BY <1>1
<1>3. ASSUME log[i].to = "evaluate"
      PROVE  /\ i > 2 /\ i - 1 \in 1..Len(log) /\ i - 2 \in 1..Len(log)
             /\ log[i].stage = "antithesis" /\ log[i].kind = "transition"
             /\ log[i - 1].stage = "experiment" /\ Checked(i - 1)
             /\ log[i - 2].stage = "thesis"
  <2>1. log[i].stage = "antithesis" /\ log[i].kind = "transition"
    BY <1>3, Kinds DEF Challenged
  <2>2. i > 1 /\ i - 1 \in 1..Len(log) /\ log[i - 1].to = "antithesis"
    BY <1>1, <2>1
  <2>3. log[i - 1].stage = "experiment" /\ Checked(i - 1)
    BY <2>2, Kinds
  <2>4. i - 1 > 1 /\ i - 2 \in 1..Len(log) /\ log[i - 1 - 1].to = "experiment"
    BY <1>1, <2>2, <2>3
  <2>5. log[i - 2].stage = "thesis"
    BY <2>4, Kinds
  <2> QED
    BY <2>1, <2>2, <2>3, <2>4, <2>5
<1>4. ASSUME log[i].stage = "conclude" PROVE i > 1 /\ log[i - 1].to = "conclude" /\ i = Len(log)
  <2>1. i > 1 /\ log[i - 1].to = "conclude" /\ log[i].to = None
    BY <1>1, <1>4, Kinds
  <2>2. i = Len(log)
    <3> SUFFICES ASSUME i # Len(log) PROVE FALSE
      OBVIOUS
    <3>1. i + 1 \in 1..Len(log) /\ log[i + 1].stage = None
      BY <1>1, <2>1
    <3> QED
      BY <3>1, Kinds DEF Record, Stages, None
  <2> QED
    BY <2>1, <2>2
<1> QED
  BY <1>2, <1>3, <1>4

(* The cycle before an evaluation.                                         *)
LEMMA Cycle ==
    ASSUME Walk, NEW m \in 1..Len(log), log[m].stage = "evaluate"
    PROVE  /\ m > 3 /\ {m - 3, m - 2, m - 1} \subseteq 1..Len(log)
           /\ log[m - 1].stage = "antithesis" /\ log[m - 1].kind = "transition"
           /\ log[m - 2].stage = "experiment" /\ Checked(m - 2)
           /\ log[m - 3].stage = "thesis"
           /\ Window(m) = {m - 2, m - 1}
           /\ ClaimAt(m - 2) = log[m - 3].output.claim
           /\ ClaimAt(m - 1) = log[m - 3].output.claim
<1>1. m > 1 /\ m - 1 \in 1..Len(log) /\ log[m - 1].to = "evaluate"
  BY Before DEF Walk
<1>2. /\ m - 1 > 2 /\ m - 1 - 1 \in 1..Len(log) /\ m - 1 - 2 \in 1..Len(log)
      /\ log[m - 1].stage = "antithesis" /\ log[m - 1].kind = "transition"
      /\ log[m - 1 - 1].stage = "experiment" /\ Checked(m - 1 - 1)
      /\ log[m - 1 - 2].stage = "thesis"
  BY <1>1, Before
<1>3. m - 1 - 1 = m - 2 /\ m - 1 - 2 = m - 3
  BY <1>1
<1>4. /\ m > 3 /\ {m - 3, m - 2, m - 1} \subseteq 1..Len(log)
      /\ log[m - 1].stage = "antithesis" /\ log[m - 1].kind = "transition"
      /\ log[m - 2].stage = "experiment" /\ Checked(m - 2)
      /\ log[m - 3].stage = "thesis"
  BY <1>1, <1>2, <1>3
<1>5. Window(m) = {m - 2, m - 1} /\ ClaimAt(m - 1) = log[m - 3].output.claim
  <2>1. m - 1 \in Nat /\ m - 3 \in 1..(m - 1) /\ m - 1 + 1 = m
    BY <1>4
  <2>2. \A j \in ((m - 3) + 1)..(m - 1) : log[j].stage # "thesis"
    BY <1>4
  <2>3. Window(m - 1 + 1) = ((m - 3) + 1)..(m - 1) /\ ClaimAt(m - 1) = log[m - 3].output.claim
    BY <1>4, <2>1, <2>2, ThesisIs
  <2> QED
    BY <1>4, <2>1, <2>3
<1>6. ClaimAt(m - 2) = log[m - 3].output.claim
  <2>1. m - 2 \in Nat /\ m - 3 \in 1..(m - 2)
    BY <1>4
  <2>2. \A j \in ((m - 3) + 1)..(m - 2) : log[j].stage # "thesis"
    BY <1>4
  <2> QED
    BY <1>4, <2>1, <2>2, ThesisIs
<1> QED
  BY <1>4, <1>5, <1>6

(* What the evaluation weighs: the three steps before it.                  *)
LEMMA Weighed ==
    ASSUME Walk, Current = "evaluate"
    PROVE  LET n == Len(log) IN
           /\ n \in 1..Len(log) /\ n > 2
           /\ LastOutput("antithesis") = log[n].output
           /\ LastOutput("experiment") = log[n - 1].output
           /\ LastOutput("thesis") = log[n - 2].output
<1> DEFINE n == Len(log)
<1>1. log \in Seq(Record) /\ n \in 1..Len(log) /\ log[n].to = "evaluate"
  BY DEF Walk, Current, Last
<1>2. /\ n > 2 /\ n - 1 \in 1..Len(log) /\ n - 2 \in 1..Len(log)
      /\ log[n].stage = "antithesis" /\ log[n - 1].stage = "experiment" /\ log[n - 2].stage = "thesis"
  BY <1>1, Before
<1>3. LastOf("antithesis") = n
  BY <1>1, <1>2, LastOfIs
<1>4. LastOf("experiment") = n - 1
  <2>1. \A j \in ((n - 1) + 1)..Len(log) : log[j].stage # "experiment"
    BY <1>2
  <2> QED
    BY <1>1, <1>2, <2>1, LastOfIs
<1>5. LastOf("thesis") = n - 2
  <2>1. \A j \in ((n - 2) + 1)..Len(log) : log[j].stage # "thesis"
    BY <1>2
  <2> QED
    BY <1>1, <1>2, <2>1, LastOfIs
<1> QED
  BY <1>1, <1>2, <1>3, <1>4, <1>5 DEF LastOutput

(* The router sends a run on as a success only for what is one.            *)
LEMMA Routed ==
    ASSUME NEW v, NEW d, NEW a
    PROVE  LET route == Route(v, d, a) IN
           /\ route \in Routes
           /\ RouteResult(route).kind = "transition" /\ RouteResult(route).to = "conclude" =>
                 ~a /\ Passes(v) /\ d = "could_not_break"
<1> DEFINE route == Route(v, d, a)
<1>1. route \in Routes
  BY DEF Route, Routes
<1>2. RouteResult(route).kind = "transition" /\ RouteResult(route).to = "conclude" => route = "success"
  BY <1>1 DEF RouteResult, Routes
<1>3. route = "success" => ~a /\ Passes(v) /\ d = "could_not_break"
  BY DEF Route
<1> QED
  BY <1>1, <1>2, <1>3

(* Where the run is led to its conclusion, and once it has been concluded. *)
LEMMA Led ==
    ASSUME Walk
    PROVE  /\ Current = "conclude" =>
                 Len(log) \in 1..Len(log) /\ log[Len(log)].to = "conclude" /\ Routing = Len(log)
           /\ Concluded =>
                 /\ Len(log) > 1 /\ Len(log) - 1 \in 1..Len(log)
                 /\ log[Len(log) - 1].to = "conclude" /\ Routing = Len(log) - 1
<1> DEFINE n == Len(log)
<1>1. log \in Seq(Record) /\ n \in Nat
  BY DEF Walk
<1>2. ASSUME Current = "conclude" PROVE n \in 1..Len(log) /\ log[n].to = "conclude" /\ Routing = n
  <2>1. n \in 1..Len(log) /\ log[n].to = "conclude"
    BY <1>1, <1>2 DEF Current, Last
  <2> QED
    BY <1>1, <2>1, RoutingIs
<1>3. ASSUME Concluded
      PROVE  n > 1 /\ n - 1 \in 1..Len(log) /\ log[n - 1].to = "conclude" /\ Routing = n - 1
  <2>1. n \in 1..Len(log) /\ log[n].stage = "conclude"
    BY <1>1, <1>3 DEF Concluded, Last
  <2>2. n > 1 /\ n - 1 \in 1..Len(log) /\ log[n - 1].to = "conclude" /\ log[n].to # "conclude"
    BY <1>1, <2>1, Before, Kinds DEF None
  <2>3. \A j \in ((n - 1) + 1)..Len(log) : log[j].to # "conclude"
    BY <2>2
  <2> QED
    BY <1>1, <2>2, <2>3, RoutingIs
<1> QED
  BY <1>2, <1>3

(* A success that was earned passes the window of its cycle as well.       *)
LEMMA EarnedIsExec ==
    ASSUME Walk, NEW m \in 1..Len(log), m = Routing, log[m].to = "conclude", log[m].kind = "transition"
    PROVE  ExecSuccess /\ Earned(m) /\ log[m].stage = "evaluate"
<1>1. log[m].stage = "evaluate" /\ Earned(m)
  BY Kinds DEF Evaluated
<1>2. /\ Window(m) = {m - 2, m - 1}
      /\ log[m - 1].stage = "antithesis" /\ log[m - 2].stage = "experiment"
  BY <1>1, Cycle
<1>3. InWindow(m, "experiment") = {log[m - 2].output}
  BY <1>2 DEF InWindow
<1>4. InWindow(m, "antithesis") = {log[m - 1].output}
  BY <1>2 DEF InWindow
<1> QED
  BY <1>1, <1>3, <1>4 DEF Earned, ExecSuccess

-----------------------------------------------------------------------------
(* The steps. *)

(* A commit of the stage the run is at.                                    *)
LEMMA Committed ==
    ASSUME Walk, NEW kind, NEW to, NEW output, CommitStep(kind, to, output),
           [stage |-> Current, kind |-> kind, to |-> to, output |-> output] \in Record
    PROVE  /\ log' \in Seq(Record) /\ log' # <<>> /\ Len(log') = Len(log) + 1 /\ Len(log) \in Nat
           /\ \A i \in 1..Len(log) : log'[i] = log[i]
           /\ log'[Len(log) + 1] = [stage |-> Current, kind |-> kind, to |-> to, output |-> output]
           /\ Last(log') = log'[Len(log) + 1]
<1> DEFINE rec == [stage |-> Current, kind |-> kind, to |-> to, output |-> output]
<1>1. log \in Seq(Record) /\ log' = Append(log, rec)
  BY DEF Walk, CommitStep
<1>2. /\ log' \in Seq(Record) /\ log' # <<>> /\ Len(log') = Len(log) + 1 /\ Len(log) \in Nat
      /\ \A i \in 1..Len(log) : log'[i] = log[i]
      /\ log'[Len(log) + 1] = rec
  BY <1>1, AppendProperties
<1> QED
  BY <1>2 DEF Last

(* The walk goes on if the step committed is what its stage commits.       *)
LEMMA WalksOn ==
    ASSUME Walk, UNCHANGED setup,
           NEW kind, NEW to, NEW output, CommitStep(kind, to, output),
           [stage |-> Current, kind |-> kind, to |-> to, output |-> output] \in Record,
           NEW n \in Nat, n = Len(log) + 1, Step(n)'
    PROVE  Walk'
<1>1. /\ log' \in Seq(Record) /\ log' # <<>> /\ Len(log') = n /\ Len(log) \in Nat
      /\ \A i \in 1..Len(log) : log'[i] = log[i]
      /\ log'[n].stage = Current
  BY Committed
<1>2. log'[1].stage = "thesis"
  <2>1. CASE log = <<>>
    BY <1>1, <2>1 DEF Current
  <2>2. CASE log # <<>>
    BY <1>1, <2>2 DEF Walk
  <2> QED
    BY <2>1, <2>2
<1>3. ASSUME NEW i \in 1..Len(log') PROVE Step(i)' /\ (i > 1 => log'[i].stage = log'[i - 1].to)
  <2>1. CASE i = n
    <3>1. i > 1 => log'[i - 1] = log[Len(log)] /\ Current = log[Len(log)].to
      BY <1>1, <2>1 DEF Current, Last, Walk
    <3> QED
      BY <1>1, <2>1, <3>1
  <2>2. CASE i # n
    <3>1. i \in 1..Len(log) /\ Step(i) /\ (i > 1 => log[i].stage = log[i - 1].to)
      BY <1>1, <2>2 DEF Walk
    <3>2. i > 1 => log'[i - 1] = log[i - 1]
      BY <1>1, <3>1
    <3>3. i > 3 => log'[i - 3] = log[i - 3] /\ log'[i - 2] = log[i - 2]
      BY <1>1, <3>1
    <3>4. log'[i] = log[i] /\ (Earned(i) => Earned(i)')
      BY <1>1, <3>1, <3>2, <3>3 DEF Earned
    <3>5. Step(i)'
      BY <3>1, <3>4 DEF Step, Proposed, Checked, Challenged, Evaluated, TimedOut, Oracle
    <3> QED
      BY <1>1, <3>1, <3>2, <3>5
  <2> QED
    BY <2>1, <2>2
<1> QED
  BY <1>1, <1>2, <1>3 DEF Walk

(* A step that goes on with the loop, or to the write of the status.       *)
LEMMA StageQuestions ==
    ASSUME Walk, Questions, UNCHANGED <<status, answer>>,
           NEW kind, NEW to, NEW output, CommitStep(kind, to, output),
           [stage |-> Current, kind |-> kind, to |-> to, output |-> output] \in Record,
           drive.pc = "stage",
           drive' \in [pc : {"stage", "settle"}, spent : Nat]
    PROVE  Questions'
<1>1. status = "RUNNING"
  BY DEF Questions
<1>2. /\ log' # <<>> /\ Len(log') = Len(log) + 1 /\ Len(log) \in Nat
      /\ \A i \in 1..Len(log) : log'[i] = log[i]
  BY Committed
<1> QED
  BY <1>1, <1>2 DEF Questions

(* A commit short of the conclusion.                                       *)
LEMMA StageCommits ==
    ASSUME Inv, UNCHANGED <<setup, status, answer>>,
           NEW kind, NEW to, NEW output, CommitStep(kind, to, output),
           [stage |-> Current, kind |-> kind, to |-> to, output |-> output] \in Record,
           drive.pc = "stage", Current # "conclude",
           drive' \in [pc : {"stage", "settle"}, spent : Nat],
           NEW n \in Nat, n = Len(log) + 1, Step(n)'
    PROVE  Inv'
<1>1. Walk' /\ Questions'
  BY WalksOn, StageQuestions DEF Inv
<1>2. Last(log').stage = Current
  BY Committed DEF Inv
<1>3. Honest'
  BY <1>2 DEF Honest, Concluded
<1> QED
  BY <1>1, <1>3 DEF Inv

(* The new step of a model or a check stage.                               *)
LEMMA Extends ==
    ASSUME Inv, UNCHANGED <<setup, status, answer>>, drive.pc = "stage",
           drive' \in [pc : {"stage", "settle"}, spent : Nat],
           NEW kind, NEW to, NEW output, CommitStep(kind, to, output),
           output \in Theses \cup Verdict \cup Dispositions \cup {None},
           \/ Current = "thesis" /\ kind = "transition" /\ to = "experiment"
           \/ /\ Current = "experiment" /\ kind = "transition" /\ to = "antithesis"
              /\ \/ Oracle = "code" /\ output \in CodeVerdicts \cup {Refusal}
                 \/ Oracle = "judge" /\ output \in JudgeVerdicts
           \/ Current = "antithesis" /\ kind = "transition" /\ to = "evaluate"
           \/ Current \in ModelStages /\ kind = "degraded" /\ to = None
    PROVE  Inv'
<1> DEFINE rec == [stage |-> Current, kind |-> kind, to |-> to, output |-> output]
<1>1. rec \in Record /\ Current \in ModelStages
  BY DEF Record, Stages, ModelStages
<1>2. PICK n \in Nat : n = Len(log) + 1
  BY DEF Inv, Walk
<1>3. log'[n] = rec
  BY <1>1, <1>2, Committed DEF Inv
<1>4. Step(n)'
  BY <1>3 DEF Step, Proposed, Checked, Challenged, TimedOut, Oracle, ModelStages
<1> QED
  BY <1>1, <1>2, <1>4, StageCommits DEF ModelStages

LEMMA EvaluateKeeps == ASSUME Inv, Evaluate PROVE Inv'
<1> DEFINE v == LastOutput("experiment")
           d == LastOutput("antithesis")
           a == LastOutput("thesis").claim = None
           route == Route(v, d, a)
           result == RouteResult(route)
<1>1. /\ drive.pc = "stage" /\ Current = "evaluate" /\ CommitStep(result.kind, result.to, None)
      /\ UNCHANGED <<setup, status, answer>>
      /\ drive' \in [pc : {"stage", "settle"}, spent : Nat]
  BY DEF Evaluate, At, Inv, Questions, Settling
<1>2. route \in Routes
  BY Routed
<1>3. [stage |-> Current, kind |-> result.kind, to |-> result.to, output |-> None] \in Record
  BY <1>1, <1>2 DEF Routes, RouteResult, Record, Stages
<1>4. PICK n \in Nat : n = Len(log) + 1
  BY DEF Inv, Walk
<1>5. log'[n] = [stage |-> Current, kind |-> result.kind, to |-> result.to, output |-> None]
  BY <1>1, <1>3, <1>4, Committed DEF Inv
<1>6. result.kind = "transition" /\ result.to = "conclude" => Earned(n)'
  <2> SUFFICES ASSUME result.kind = "transition", result.to = "conclude" PROVE Earned(n)'
    OBVIOUS
  <2>1. ~a /\ Passes(v) /\ d = "could_not_break"
    <3>1. route = "success"
      BY <1>2 DEF RouteResult, Routes
    <3> QED
      BY <3>1 DEF Route
  <2>2. /\ Len(log) \in 1..Len(log) /\ Len(log) > 2 /\ d = log[Len(log)].output
        /\ v = log[Len(log) - 1].output /\ LastOutput("thesis") = log[Len(log) - 2].output
    BY <1>1, Weighed DEF Inv
  <2>3. /\ n > 3 /\ n - 1 = Len(log) /\ n - 2 = Len(log) - 1 /\ n - 3 = Len(log) - 2
        /\ {n - 3, n - 2, n - 1} \subseteq 1..Len(log)
    BY <1>4, <2>2
  <2>4. log'[n - 1] = log[n - 1] /\ log'[n - 2] = log[n - 2] /\ log'[n - 3] = log[n - 3]
    BY <1>1, <1>3, <2>3, Committed DEF Inv
  <2> QED
    BY <2>1, <2>2, <2>3, <2>4 DEF Earned
<1>7. Evaluated(n)'
  BY <1>2, <1>5, <1>6 DEF Evaluated
<1>8. Step(n)'
  BY <1>1, <1>5, <1>7 DEF Step
<1> QED
  BY <1>1, <1>3, <1>4, <1>8, StageCommits

(* The conclusion is the one the step before it entitles to.               *)
LEMMA ConcludeKeeps == ASSUME Inv, Conclude PROVE Inv'
<1> DEFINE m == Len(log)
           kind == IF Conclusion = "unverified" THEN "degraded" ELSE "done"
<1>1. /\ drive.pc = "stage" /\ Current = "conclude" /\ CommitStep(kind, None, Conclusion)
      /\ UNCHANGED <<setup, status, answer>>
      /\ drive' \in [pc : {"stage", "settle"}, spent : Nat]
  BY DEF Conclude, At, Inv, Questions, Settling
<1>2. m \in 1..Len(log) /\ log[m].to = "conclude" /\ Routing = m
  BY <1>1, Led DEF Inv
<1>3. Conclusion \in Conclusions
  BY DEF Conclusion, Conclusions
<1>4. [stage |-> Current, kind |-> kind, to |-> None, output |-> Conclusion] \in Record
  BY <1>1, <1>3 DEF Record, Stages
<1>5. PICK n \in Nat : n = m + 1
  BY DEF Inv, Walk
<1>6. /\ log'[n] = [stage |-> "conclude", kind |-> kind, to |-> None, output |-> Conclusion]
      /\ log'[n - 1] = log[m] /\ Len(log') = n
  BY <1>1, <1>2, <1>4, <1>5, Committed DEF Inv
<1>7. Walk' /\ Questions'
  <2>1. Step(n)'
    BY <1>6 DEF Step
  <2> QED
    BY <1>1, <1>4, <1>5, <2>1, WalksOn, StageQuestions DEF Inv
<1>8. Conclusion = "verified" <=> log[m].kind = "transition"
  BY <1>2, EarnedIsExec DEF Conclusion, Inv
<1>9. Conclusion = "human-confirmed" <=>
        log[m].kind = "await-human" /\ answer.step = m /\ answer.data = "confirm-success"
  BY <1>2 DEF Conclusion, HumanInput, None
<1>10. Honest'
  <2>1. n - 1 = m
    BY <1>5, <1>2
  <2>2. kind = "done" <=> Conclusion # "unverified"
    OBVIOUS
  <2> QED
    BY <1>1, <1>6, <1>8, <1>9, <2>1, <2>2 DEF Honest
<1> QED
  BY <1>7, <1>10 DEF Inv

(* A step that leaves the log and the answer alone.                        *)
LEMMA Aside ==
    ASSUME Inv, UNCHANGED <<setup, log, answer>>, Questions' PROVE Inv'
<1>1. Walk'
  BY DEF Inv, Walk, Step, Proposed, Checked, Challenged, Evaluated, TimedOut, Earned, Oracle
<1>2. Honest'
  BY DEF Inv, Honest, Concluded
<1> QED
  BY <1>1, <1>2 DEF Inv

LEMMA AnswerKeeps == ASSUME Inv, NEW data, RecordAnswer(data) PROVE Inv'
<1>1. /\ status = "AWAITING_HUMAN" /\ UNCHANGED <<setup, log, status>>
      /\ drive' = [drive EXCEPT !.pc = "answered"]
      /\ answer' = IF answer.step = 0 THEN [step |-> Len(log), data |-> data] ELSE answer
  BY DEF RecordAnswer
<1>2. log # <<>> /\ log[Len(log)].kind = "await-human" /\ Len(log) \in 1..Len(log)
  BY <1>1 DEF Inv, Questions, Last, Walk
<1>3. Questions'
  BY <1>1, <1>2 DEF Inv, Questions
<1>4. ~Concluded
  BY <1>2 DEF Inv, Walk, Step, Concluded, Last
<1>5. Walk'
  BY <1>1 DEF Inv, Walk, Step, Proposed, Checked, Challenged, Evaluated, TimedOut, Earned, Oracle
<1>6. Honest'
  BY <1>1, <1>4 DEF Honest, Concluded
<1> QED
  BY <1>3, <1>5, <1>6 DEF Inv

(* What the drive spends is a number.                                      *)
LEMMA StageKeeps == ASSUME Inv, RunStage PROVE Inv'
<1>1. drive \in [pc : {"down", "stage", "settle", "answered"}, spent : Nat]
      /\ (drive.pc = "settle" => log # <<>>)
      /\ Down \in [pc : {"down", "stage", "settle", "answered"}, spent : Nat] /\ Down.pc = "down"
  BY DEF Inv, Questions, Down
<1>2. CASE \E th \in Theses, c \in Costs : ProposeThesis(th, c)
  <2>1. PICK th \in Theses, c \in Costs : ProposeThesis(th, c)
    BY <1>2
  <2>2. drive.pc = "stage" /\ drive' \in [pc : {"stage", "settle"}, spent : Nat]
    BY <1>1, <2>1, DialecticAssumption DEF ProposeThesis, At, Onward
  <2> QED
    BY <2>1, <2>2, Extends DEF ProposeThesis, At
<1>3. CASE \E v \in Verdict : RunCode(v) \/ \E c \in Costs : Judge(v, c)
  <2>1. PICK v \in Verdict : RunCode(v) \/ \E c \in Costs : Judge(v, c)
    BY <1>3
  <2>2. CASE RunCode(v)
    <3>1. drive.pc = "stage" /\ drive' \in [pc : {"stage", "settle"}, spent : Nat]
      BY <1>1, <2>2 DEF RunCode, At
    <3> QED
      BY <2>2, <3>1, Extends DEF RunCode, At
  <2>3. ASSUME NEW c \in Costs, Judge(v, c) PROVE Inv'
    <3>1. drive.pc = "stage" /\ drive' \in [pc : {"stage", "settle"}, spent : Nat]
      BY <1>1, <2>3, DialecticAssumption DEF Judge, At, Onward
    <3> QED
      BY <2>3, <3>1, Extends DEF Judge, At
  <2> QED
    BY <2>1, <2>2, <2>3
<1>4. CASE \E d \in Dispositions, c \in Costs : Challenge(d, c)
  <2>1. PICK d \in Dispositions, c \in Costs : Challenge(d, c)
    BY <1>4
  <2>2. drive.pc = "stage" /\ drive' \in [pc : {"stage", "settle"}, spent : Nat]
    BY <1>1, <2>1, DialecticAssumption DEF Challenge, At, Onward
  <2> QED
    BY <2>1, <2>2, Extends DEF Challenge, At
<1>5. CASE Evaluate \/ Conclude
  BY <1>5, EvaluateKeeps, ConcludeKeeps
<1>6. CASE WriteStatus
  <2>1. UNCHANGED <<setup, log, answer>> /\ drive' = Down
        /\ (status' = "AWAITING_HUMAN" => log # <<>> /\ Last(log).kind = "await-human")
    BY <1>1, <1>6 DEF WriteStatus
  <2>2. Questions'
    BY <1>1, <2>1 DEF Inv, Questions
  <2> QED
    BY <2>1, <2>2, Aside
<1>7. CASE OverBudget \/ StageRaises
  <2>1. UNCHANGED <<setup, log, answer, status>> /\ drive' = Down /\ drive.pc = "stage"
    BY <1>7 DEF OverBudget, StageRaises, CallsModel
  <2>2. Questions'
    BY <1>1, <2>1 DEF Inv, Questions
  <2> QED
    BY <2>1, <2>2, Aside
<1>8. CASE TimesOut
  <2>1. drive.pc = "stage" /\ Current \in ModelStages /\ UNCHANGED <<setup, answer>>
    BY <1>8 DEF TimesOut, CallsModel
  <2>2. CASE status' = "RETRYING" /\ drive' = Down /\ UNCHANGED log
    <3>1. Questions'
      BY <1>1, <2>1, <2>2 DEF Inv, Questions
    <3> QED
      BY <2>1, <2>2, <3>1, Aside
  <2>3. CASE CommitStep("degraded", None, None) /\ Settling /\ UNCHANGED status
    <3>1. drive' \in [pc : {"stage", "settle"}, spent : Nat]
      BY <1>1, <2>3 DEF Settling
    <3> QED
      BY <2>1, <2>3, <3>1, Extends
  <2> QED
    BY <1>8, <2>2, <2>3 DEF TimesOut
<1> QED
  BY <1>2, <1>3, <1>4, <1>5, <1>6, <1>7, <1>8 DEF RunStage

LEMMA InvBegins == Init => Inv
  BY DEF Init, Inv, Walk, Questions, Honest, Concluded

LEMMA InvKept == Inv /\ [Next]_vars => Inv'
<1> SUFFICES ASSUME Inv, [Next]_vars PROVE Inv'
  OBVIOUS
<1>1. drive \in [pc : {"down", "stage", "settle", "answered"}, spent : Nat] /\ Questions
      /\ Down \in [pc : {"down", "stage", "settle", "answered"}, spent : Nat] /\ Down.pc = "down"
  BY DEF Inv, Questions, Down
<1>2. CASE Crash
  <2>1. UNCHANGED <<setup, log, answer, status>> /\ drive' = Down
    BY <1>2 DEF Crash
  <2>2. Questions'
    BY <1>1, <2>1 DEF Questions
  <2> QED
    BY <2>1, <2>2, Aside
<1>3. CASE Resume \/ FireRetry \/ TakeAnswer
  <2>1. UNCHANGED <<setup, log, answer>> /\ status' = "RUNNING" /\ StartDrive
    BY <1>3 DEF Resume, FireRetry, TakeAnswer
  <2>2. Questions'
    BY <1>1, <2>1 DEF Questions, StartDrive
  <2> QED
    BY <2>1, <2>2, Aside
<1>4. CASE UNCHANGED vars
  <2>1. UNCHANGED <<setup, log, answer, status, drive>>
    BY <1>4 DEF vars
  <2>2. Questions'
    BY <1>1, <2>1 DEF Questions
  <2> QED
    BY <2>1, <2>2, Aside
<1> QED
  BY <1>2, <1>3, <1>4, StageKeeps, AnswerKeeps DEF Next, Answers

(* A run is concluded as verified exactly when the router sent it there as *)
(* a success, and as confirmed exactly when a human confirmed this very    *)
(* question: the gates of EvaluateStage and ConcludeStage never disagree.  *)
THEOREM ConclusionIsHonest == Spec => []HonestConclusion
<1>1. Inv => HonestConclusion
  <2> SUFFICES ASSUME Inv, Concluded PROVE HonestConclusion
    BY DEF HonestConclusion
  <2> DEFINE n == Len(log)
  <2>1. n > 1 /\ n - 1 \in 1..Len(log) /\ log[n - 1].to = "conclude" /\ Routing = n - 1 /\ n \in 1..Len(log)
    BY Led DEF Inv, Walk
  <2>2. answer.step # 0 => answer.step = n - 1
    <3> SUFFICES ASSUME answer.step # 0 PROVE answer.step = n - 1
      OBVIOUS
    <3>1. PICK i \in 1..Len(log) : i = answer.step /\ log[i].kind = "await-human"
      BY DEF Inv, Questions
    <3>2. log[i].to = "conclude" /\ log[i].stage = "evaluate"
      <4>1. log[i].stage \in Stages /\ Step(i)
        <5>1. log[i] \in Record
          BY Kinds DEF Inv
        <5>2. Step(i)
          BY DEF Inv, Walk
        <5> QED
          BY <5>1, <5>2 DEF Record
      <4>2. log[i].stage = "evaluate"
        BY <3>1, <4>1 DEF Step, Proposed, Checked, Challenged, TimedOut, Stages
      <4>3. PICK route \in Routes : log[i].kind = RouteResult(route).kind /\ log[i].to = RouteResult(route).to
        BY <4>1, <4>2 DEF Step, Evaluated
      <4>4. log[i].to = "conclude"
        BY <3>1, <4>3 DEF RouteResult, Routes
      <4> QED
        BY <4>2, <4>4
    <3>3. log[n].stage = "conclude"
      BY DEF Concluded, Last
    <3>4. i # n
      BY <3>2, <3>3
    <3>5. i + 1 \in 1..Len(log) /\ log[i + 1].stage = log[i + 1 - 1].to
      BY <2>1, <3>4 DEF Inv, Walk
    <3>6. log[i + 1].stage = "conclude"
      BY <3>2, <3>5
    <3>7. i + 1 = n
      BY <3>5, <3>6, Before DEF Inv
    <3> QED
      BY <3>1, <3>7
  <2>3. HumanInput = "confirm-success" <=> answer.step = n - 1 /\ answer.data = "confirm-success"
    BY <2>1 DEF HumanInput, None
  <2>4. Asked <=> log[n - 1].kind = "await-human"
    BY <2>1 DEF Asked
  <2> QED
    BY <2>1, <2>2, <2>3, <2>4 DEF Inv, Honest, HonestConclusion, Last
<1> QED
  BY <1>1, InvBegins, InvKept, PTL DEF Spec

(* A verified run has, in its last cycle and about the claim of its        *)
(* thesis, a proof by an executed check and a survival, and nothing but an *)
(* executed check ever confirms or refutes a claim.                        *)
THEOREM EvidenceMatches == Spec => []EvidenceAgrees
<1>1. Inv => EvidenceAgrees
  <2> SUFFICES ASSUME Inv PROVE EvidenceAgrees
    OBVIOUS
  <2>1. ASSUME Concluded, Last(log).output = "verified"
        PROVE  \E i, j \in Window(Routing) :
                  /\ [type |-> "tool_proof", epistemic |-> "confirmed"] \in Evidence(i)
                  /\ [type |-> "antithesis_survival", epistemic |-> "inference"] \in Evidence(j)
                  /\ ClaimAt(i) = ClaimAt(j) /\ ClaimAt(i) # None
    <3> DEFINE m == Len(log) - 1
    <3>1. m \in 1..Len(log) /\ log[m].to = "conclude" /\ Routing = m /\ log[m].kind = "transition"
      BY <2>1, Led DEF Inv, Honest, Last
    <3>2. Earned(m) /\ log[m].stage = "evaluate"
      BY <3>1, EarnedIsExec DEF Inv
    <3>3. /\ Window(m) = {m - 2, m - 1}
          /\ log[m - 1].stage = "antithesis" /\ log[m - 1].kind = "transition"
          /\ log[m - 2].stage = "experiment" /\ log[m - 2].kind = "transition"
          /\ ClaimAt(m - 2) = log[m - 3].output.claim /\ ClaimAt(m - 1) = log[m - 3].output.claim
      BY <3>1, <3>2, Cycle DEF Inv, Checked
    <3>4. [type |-> "tool_proof", epistemic |-> "confirmed"] \in Evidence(m - 2)
      BY <3>2, <3>3 DEF Earned, Passes, Evidence, RecordsAt, OracleRecord
    <3>5. [type |-> "antithesis_survival", epistemic |-> "inference"] \in Evidence(m - 1)
      BY <3>2, <3>3 DEF Earned, Evidence, RecordsAt, AntithesisRecord
    <3> QED
      BY <3>1, <3>2, <3>3, <3>4, <3>5 DEF Earned
  <2>2. ASSUME NEW i \in 1..Len(log), NEW e \in Evidence(i), e.epistemic = "confirmed"
        PROVE  Oracle = "code" /\ log[i].output.source = "tool"
    <3>1. log[i].kind = "transition" /\ log[i].stage \in {"experiment", "antithesis"} /\ e \in RecordsAt(i)
      BY <2>2 DEF Evidence, RecordsAt
    <3>2. log[i].stage = "experiment"
      BY <2>2, <3>1 DEF RecordsAt, AntithesisRecord
    <3>3. log[i].output.valid_check /\ is_executable(log[i].output)
      BY <3>1, <3>2 DEF RecordsAt, OracleRecord
    <3>4. Checked(i)
      BY <3>1, <3>2 DEF Inv, Walk, Step, TimedOut
    <3>5. CASE log[i].output \in JudgeVerdicts
      BY <3>3, <3>5 DEF is_executable, JudgeVerdicts
    <3>6. CASE log[i].output = Refusal
      BY <3>3, <3>6 DEF Refusal
    <3>7. CASE Oracle = "code" /\ log[i].output \in CodeVerdicts
      BY <3>7 DEF CodeVerdicts
    <3> QED
      BY <3>4, <3>5, <3>6, <3>7 DEF Checked
  <2> QED
    BY <2>1, <2>2 DEF EvidenceAgrees
<1> QED
  BY <1>1, InvBegins, InvKept, PTL DEF Spec
=============================================================================
