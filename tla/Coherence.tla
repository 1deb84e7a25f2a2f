----------------------------- MODULE Coherence -----------------------------
(***************************************************************************)
(* Contradictions are found and settled behind the writers' back.  Every   *)
(* write to the entity graph marks its subject dirty in the transaction of *)
(* the write; the reconciler drains the marks: it reads the claims of a    *)
(* subject, asks an oracle which of them contradict each other, decides    *)
(* which claim yields, copies what a rule selects into the world scope,    *)
(* and commits its verdicts together with the removal of the mark, unless  *)
(* a write has touched the subject meanwhile (its epoch has moved).        *)
(*                                                                         *)
(* There is one reconciler, as its docstring demands; writers are any      *)
(* number of transactions.  The oracle is a family of contradictory sets   *)
(* of contents, asked by the MUS search; it may fail, and the search may   *)
(* run out of calls or fail its verification, at any time.                 *)
(***************************************************************************)
EXTENDS Integers, FiniteSets, Sequences

CONSTANTS
    Subjects,       \* normalised subjects
    Contents,       \* what a claim says: predicate and object
    Sources,        \* who vouches for a claim
    Nobody,         \* the defeated_by of a claim that is not defeated
    Statements,     \* what clients may write: [claim, source]
    Comparable,     \* pairs of contents with one predicate, or close embeddings
    OnePredicate,   \* pairs of contents with one predicate
    Since,          \* the valid_from an agent's claim of a content is given
    Level0,         \* the epistemic rank a content is first written with
    Ruled,          \* the contents a promotion rule selects
    min_sources,    \* its min_distinct_sources
    Configs,        \* the stores, oracles and CoherenceConfigs that may be running
    MaxWrites,      \* bound: writes by clients
    MaxFailures     \* bound: exceptions and crashes in the reconciler

Forever == 1000                         \* a valid_to that is NULL
Promoter == "scope-promoter"            \* the source the promoter declares

Key == [scope : {"agent", "world"}, subject : Subjects]
Claim == [key : Key, content : Contents]

ASSUME CoherenceAssumption ==
    /\ IsFiniteSet(Contents) /\ Nobody \notin Claim /\ Promoter \notin Sources
    /\ Statements \subseteq [claim : Claim, source : Sources]
    /\ OnePredicate \subseteq Comparable /\ Comparable \subseteq SUBSET Contents
    /\ Since \in [Contents -> 0..Forever - 1] /\ Level0 \in [Contents -> 0..2]
    /\ Ruled \subseteq Contents /\ min_sources \in Nat
    /\ Configs \subseteq [store : {"neo4j", "memory"},
                          conflicts : SUBSET SUBSET Contents, batch_limit : Nat \ {0},
                          max_claims : Nat, max_mus : Nat, max_attempts : Nat]
    /\ MaxWrites \in Nat /\ MaxFailures \in Nat

VARIABLES
    config,         \* the store, the minimal contradictory sets, the CoherenceConfig
    claims,         \* the Claim nodes, with the sources of their evidence
    verdicts,       \* the Adjudication nodes
    marks,          \* the DirtySubject nodes
    order,          \* their keys, oldest marked_at first
    tick,           \* the frame of the reconciler
    seen,           \* the evidence the last committed pass over a claim read
    fate,           \* whether the last commit over a key examined it, or why not
    last,           \* the verdicts of the last pass that examined it
    writes, failures \* for the bounds

graph == <<claims, verdicts>>
queue == <<marks, order>>
history == <<seen, fate, last>>         \* for the properties: no action reads it
bounds == <<config, writes, failures>>
vars == <<graph, queue, tick, history, bounds>>

-----------------------------------------------------------------------------
(* Nodes. *)

ClaimNode == [evidence : SUBSET (Sources \cup {Promoter}), level : 0..2,
              since : 0..Forever, until : 0..Forever, defeated_by : Claim \cup {Nobody}]
Verdict == [key : Key, claims : SUBSET Claim,
            resolution : {"poison", "too-large", "defeat", "none", "escalated"}]
Defeat == [winner : Claim, loser : Claim, until : 0..Forever]
Mark == [epoch : Nat, attempts : Nat]
Unmarked == [epoch |-> 0, attempts |-> 0]

ClaimsOf(k) == {c \in Claim : c.key = k}
Written(c) == claims[c].evidence # {}
Now == Cardinality({c \in Claim : Written(c)})     \* a clock of first writes

Dirty(k) == marks[k].epoch > 0
At(k) == CHOOSE i \in 1..Len(order) : order[i] = k
Without(k) ==
    IF \A i \in 1..Len(order) : order[i] # k THEN order
    ELSE [i \in 1..Len(order) - 1 |-> IF i < At(k) THEN order[i] ELSE order[i + 1]]

(* In the transaction of the write.                                        *)
MarkDirty(k) ==
    /\ marks' = [marks EXCEPT ![k].epoch = @ + 1]
    /\ order' = Append(Without(k), k)

(* Fault: the mark goes, whatever was written since.                       *)
ClearAlways(k, epoch) ==
    /\ marks' = [marks EXCEPT ![k] = Unmarked]
    /\ order' = Without(k)

(* The mark is deleted if no write has touched it since it was claimed.    *)
ClearDirty(k, epoch) ==
    IF marks[k].epoch = epoch
    THEN marks' = [marks EXCEPT ![k] = Unmarked] /\ order' = Without(k)
    ELSE UNCHANGED queue

(* The id of an adjudication is a digest of its claims; that of the two    *)
(* verdicts about no claim, of the key and the reason.                     *)
SameId(v, w) ==
    /\ v.key = w.key /\ v.claims = w.claims
    /\ v.claims = {} => v.resolution = w.resolution

(* MERGE ... ON CREATE: what is on record stays.                           *)
Merge(old, new) == old \cup {v \in new : \A w \in old : ~SameId(v, w)}

-----------------------------------------------------------------------------
(* The reconciler's frame. *)

Idle == [pc |-> "idle", batch |-> <<>>, read |-> [c \in {} |-> 0], working |-> {},
         found |-> {}, defeats |-> {}, rounds |-> 0, todo |-> {}, moving |-> Nobody]

Subject == Head(tick.batch)             \* the DirtySubject being processed
K == Subject.key

Goto(label) == tick' = [tick EXCEPT !.pc = label]
NextSubject ==
    tick' = IF Len(tick.batch) = 1 THEN Idle
            ELSE [Idle EXCEPT !.pc = "next", !.batch = Tail(tick.batch)]

Init ==
    /\ config \in Configs
    /\ claims = [c \in Claim |-> [evidence |-> {}, level |-> Level0[c.content], since |-> 0,
                                  until |-> Forever, defeated_by |-> Nobody]]
    /\ verdicts = {}
    /\ marks = [k \in Key |-> Unmarked]
    /\ order = <<>>
    /\ tick = Idle
    /\ seen = [c \in Claim |-> {}]
    /\ fate = [k \in Key |-> "settled"] /\ last = [k \in Key |-> {}]
    /\ writes = 0 /\ failures = 0

-----------------------------------------------------------------------------
(* The writers: one transaction each. *)

Touch(c) ==
    /\ writes < MaxWrites
    /\ writes' = writes + 1
    /\ MarkDirty(c.key)
    /\ UNCHANGED <<verdicts, tick, history, config, failures>>

(* A claim is written with evidence, or written again: what it says stays, *)
(* the evidence is added.  A scoped view dates its facts itself.           *)
WriteClaim(c, s) ==
    /\ claims' = [claims EXCEPT ![c].evidence = @ \cup {s},
                     ![c].since = IF Written(c) THEN @
                                  ELSE IF c.key.scope = "world" THEN Now ELSE Since[c.content]]
    /\ Touch(c)

(* First-hand evidence lifts the epistemic rank; never lowers it.          *)
Upgrade(c, level, s) ==
    /\ Written(c) /\ claims[c].level < level
    /\ claims' = [claims EXCEPT ![c].evidence = @ \cup {s}, ![c].level = level]
    /\ Touch(c)

(* The first end of validity stays.                                        *)
Invalidate(c, until) ==
    /\ Written(c)
    /\ claims' = [claims EXCEPT ![c].until = IF @ = Forever THEN until ELSE @]
    /\ Touch(c)

-----------------------------------------------------------------------------
(* The reconciler: claim, count the attempt, read. *)

(* The oldest marks, with their epochs and attempts as they are now.       *)
ClaimDirty ==
    /\ tick.pc = "idle" /\ order # <<>>
    /\ LET n == IF Len(order) < config.batch_limit THEN Len(order) ELSE config.batch_limit IN
          tick' = [Idle EXCEPT !.pc = "next",
                     !.batch = [i \in 1..n |-> [key |-> order[i], mark |-> marks[order[i]]]]]
    /\ UNCHANGED <<graph, queue, history, bounds>>

(* Fault: nothing is put on record.                                        *)
SetAsideSilently(reason) ==
    /\ ClearDirty(K, Subject.mark.epoch)
    /\ fate' = [fate EXCEPT ![K] = reason]
    /\ NextSubject
    /\ UNCHANGED <<graph, seen, last, bounds>>

(* Fault: the mark of an examined subject is not touched.                  *)
SetAsideMarked(reason) ==
    /\ verdicts' = Merge(verdicts, {[key |-> K, claims |-> {}, resolution |-> reason]})
    /\ fate' = [fate EXCEPT ![K] = reason]
    /\ NextSubject
    /\ UNCHANGED <<claims, queue, seen, last, bounds>>

(* A commit that says why nothing was examined, and clears the mark.       *)
SetAside(reason) ==
    /\ verdicts' = Merge(verdicts, {[key |-> K, claims |-> {}, resolution |-> reason]})
    /\ ClearDirty(K, Subject.mark.epoch)
    /\ fate' = [fate EXCEPT ![K] = reason]
    /\ NextSubject
    /\ UNCHANGED <<claims, seen, last, bounds>>

Exhausted == Subject.mark.attempts >= config.max_attempts
Poison == tick.pc = "next" /\ Exhausted /\ SetAside("poison")
TooLarge == tick.pc = "too-large" /\ SetAside("too-large")

BumpAttempts ==
    /\ tick.pc = "next" /\ ~Exhausted
    /\ marks' = [marks EXCEPT ![K].attempts = IF Dirty(K) THEN @ + 1 ELSE @]
    /\ Goto("fetch")
    /\ UNCHANGED <<graph, order, history, bounds>>

(* What claims_about returns.  The queries of the Neo4j store do not ask   *)
(* for the status, so every claim they return reads active.                *)
ReadClaims(k) ==
    [c \in {c \in ClaimsOf(k) : Written(c)} |->
        IF config.store = "memory" THEN claims[c]
        ELSE [claims[c] EXCEPT !.defeated_by = Nobody]]

ActiveIn(read) == {c \in DOMAIN read : read[c].defeated_by = Nobody}

(* valid_from .. valid_to, both ends included.                             *)
Overlap(read, a, b) == read[a].since <= read[b].until /\ read[b].since <= read[a].until

Says(cs) == {c.content : c \in cs}

(* Pairs of active claims that may contradict each other and have no       *)
(* verdict yet.                                                            *)
CandidatePairs(read) ==
    {p \in {{a, b} : a, b \in ActiveIn(read)} :
        /\ Says(p) \in Comparable
        /\ \A a \in p : \A b \in p \ {a} : Overlap(read, a, b)
        /\ \A v \in verdicts : v.claims # p}

(* The adjudication ids are read after the claims; nobody else writes any. *)
(* The promoter passes over the claims no rule names.                      *)
Fetch ==
    /\ tick.pc = "fetch"
    /\ LET read == ReadClaims(K)
           pairs == CandidatePairs(read) IN
          tick' = IF Cardinality(DOMAIN read) > config.max_claims
                  THEN [tick EXCEPT !.pc = "too-large"]
                  ELSE [tick EXCEPT !.pc = IF pairs = {} THEN "promote" ELSE "search",
                          !.read = read, !.working = UNION pairs, !.todo = {c \in ActiveIn(read) : c.content \in Ruled}]
    /\ UNCHANGED <<graph, queue, history, bounds>>

-----------------------------------------------------------------------------
(* The MUS loop: at most max_mus rounds, one verdict each. *)

Searching == tick.pc = "search" /\ tick.rounds < config.max_mus
MUSes == {m \in SUBSET tick.working : Says(m) \in config.conflicts}
Level(c) == tick.read[c].level
From(c) == tick.read[c].since

IsUpdate(a, b) ==
    Says({a, b}) \in OnePredicate /\ From(a) # From(b)
BothConfirmed(a, b) == Level(a) = 2 /\ Level(b) = 2

(* What decide_resolution may answer; at equal rank the confidence bounds  *)
(* decide, or are too close.                                               *)
MayDefeat(a, b) ==
    /\ ~BothConfirmed(a, b)
    /\ Level(a) >= Level(b)
    /\ IsUpdate(a, b) => From(a) > From(b)
MayEscalate(a, b) ==
    \/ BothConfirmed(a, b)
    \/ IF IsUpdate(a, b)
       THEN From(a) > From(b) /\ Level(a) < Level(b)
       ELSE Level(a) = Level(b)

Found(cs, resolution) ==
    Merge(tick.found, {[key |-> K, claims |-> cs, resolution |-> resolution]})

StopWith(cs) == tick' = [tick EXCEPT !.pc = "promote", !.found = Found(cs, "escalated")]

(* Fault: the winner leaves the working set as well.                       *)
DecideBoth ==
    /\ Searching
    /\ \E a, b \in tick.working :
          /\ a # b /\ {a, b} \in MUSes /\ MayDefeat(a, b)
          /\ tick' = [tick EXCEPT !.rounds = @ + 1, !.working = @ \ {a, b},
                        !.found = Found({a, b}, "defeat"),
                        !.defeats = @ \cup {[winner |-> a, loser |-> b,
                            until |-> IF IsUpdate(a, b) THEN From(a) ELSE Forever]}]
    /\ UNCHANGED <<graph, queue, history, bounds>>

(* The loser leaves the working set, and the search goes on.               *)
Decide ==
    /\ Searching
    /\ \E a, b \in tick.working :
          /\ a # b /\ {a, b} \in MUSes /\ MayDefeat(a, b)
          /\ tick' = [tick EXCEPT !.rounds = @ + 1, !.working = @ \ {b},
                        !.found = Found({a, b}, "defeat"),
                        !.defeats = @ \cup {[winner |-> a, loser |-> b,
                            until |-> IF IsUpdate(a, b) THEN From(a) ELSE Forever]}]
    /\ UNCHANGED <<graph, queue, history, bounds>>

(* A claim that contradicts itself has no loser: the round is spent.       *)
DecideNothing ==
    /\ Searching
    /\ \E c \in tick.working :
          /\ {c} \in MUSes
          /\ tick' = [tick EXCEPT !.rounds = @ + 1, !.found = Found({c}, "none")]
    /\ UNCHANGED <<graph, queue, history, bounds>>

(* More than two claims, no clear winner, an unverified set: for a human.  *)
Escalate ==
    /\ Searching
    /\ \E m \in MUSes :
          /\ \/ Cardinality(m) > 2
             \/ \E a, b \in m : a # b /\ MayEscalate(a, b)
          /\ StopWith(m)
    /\ UNCHANGED <<graph, queue, history, bounds>>

Unverified ==
    /\ Searching
    /\ \E m \in MUSes : StopWith(m)
    /\ UNCHANGED <<graph, queue, history, bounds>>

OutOfCalls ==
    /\ Searching /\ tick.working # {}
    /\ MUSes # {} \/ tick.rounds > 0
    /\ StopWith(tick.working)
    /\ UNCHANGED <<graph, queue, history, bounds>>

(* Consistent, or no round left.                                           *)
EndSearch ==
    /\ tick.pc = "search"
    /\ MUSes = {} \/ tick.rounds = config.max_mus
    /\ Goto("promote")
    /\ UNCHANGED <<graph, queue, history, bounds>>

-----------------------------------------------------------------------------
(* Promotion, then the commit. *)

InWorld(c) == [c EXCEPT !.key.scope = "world"]

(* The evidence is read now, everything else as it was fetched.            *)
Qualifies(c) == c.content \in Ruled /\ Cardinality(claims[c].evidence) >= min_sources

Promote ==
    /\ tick.pc = "promote"
    /\ \/ tick.todo = {} /\ Goto("commit")
       \/ \E c \in tick.todo :
             IF Qualifies(c)
             THEN tick' = [tick EXCEPT !.pc = "assert", !.moving = c]
             ELSE tick' = [tick EXCEPT !.todo = @ \ {c}]
    /\ UNCHANGED <<graph, queue, history, bounds>>

(* The sink mints the claim in its scope: a write like any other.          *)
AssertFact ==
    /\ tick.pc = "assert"
    /\ LET w == InWorld(tick.moving) IN
          /\ claims' = [claims EXCEPT ![w].evidence = @ \cup {Promoter},
                          ![w].since = IF Written(w) THEN @ ELSE Now,
                          ![w].level = IF Written(w) THEN @ ELSE Level(tick.moving)]
          /\ MarkDirty(w.key)
    /\ Goto("copy")
    /\ UNCHANGED <<verdicts, history, bounds>>

(* Fault: evidence is copied only onto a claim just minted.                *)
CopyOnce ==
    /\ tick.pc = "copy"
    /\ config.store = "neo4j" \/ InWorld(tick.moving) # tick.moving
    /\ LET w == InWorld(tick.moving) IN
          claims' = IF claims[w].evidence = {Promoter}
                    THEN [claims EXCEPT ![w].evidence = @ \cup claims[tick.moving].evidence]
                    ELSE claims
    /\ tick' = [tick EXCEPT !.pc = "promote", !.todo = @ \ {tick.moving}, !.moving = Nobody]
    /\ UNCHANGED <<verdicts, queue, history, bounds>>

(* A transaction of its own, and one that marks nothing.  In memory, the   *)
(* copy of a claim onto itself appends to the list it iterates: it never   *)
(* returns.                                                                *)
CopyEvidence ==
    /\ tick.pc = "copy"
    /\ config.store = "neo4j" \/ InWorld(tick.moving) # tick.moving
    /\ claims' = [claims EXCEPT ![InWorld(tick.moving)].evidence =
                     @ \cup claims[tick.moving].evidence]
    /\ tick' = [tick EXCEPT !.pc = "promote", !.todo = @ \ {tick.moving}, !.moving = Nobody]
    /\ UNCHANGED <<verdicts, queue, history, bounds>>

(* SUPERSEDES: the first to defeat a claim stays on record.                *)
Defeated(c) ==
    LET ds == {d \in tick.defeats : d.loser = c}
        node == claims[c] IN
    IF ds = {} THEN node
    ELSE LET d == CHOOSE x \in ds : TRUE IN
         [node EXCEPT !.defeated_by = IF @ = Nobody THEN d.winner ELSE @,
                      !.until = IF @ = Forever THEN d.until ELSE @]

(* One transaction: adjudications, defeats, and the mark by its epoch.     *)
CommitReconciliation ==
    /\ tick.pc = "commit"
    /\ verdicts' = Merge(verdicts, tick.found)
    /\ claims' = [c \in Claim |-> Defeated(c)]
    /\ ClearDirty(K, Subject.mark.epoch)
    /\ seen' = [c \in Claim |-> IF c \in DOMAIN tick.read THEN tick.read[c].evidence ELSE seen[c]]
    /\ fate' = [fate EXCEPT ![K] = "settled"] /\ last' = [last EXCEPT ![K] = tick.found]
    /\ NextSubject
    /\ UNCHANGED bounds

(* An exception is caught: the mark stays, the next subject is processed.  *)
(* A crash, or an exception while claiming, ends the tick.                 *)
Raise ==
    /\ tick.pc # "idle" /\ failures < MaxFailures
    /\ failures' = failures + 1
    /\ NextSubject \/ tick' = Idle
    /\ UNCHANGED <<graph, queue, history, config, writes>>

Client ==
    \E st \in Statements :
        \/ WriteClaim(st.claim, st.source)
        \/ \E level \in 1..2 : Upgrade(st.claim, level, st.source)
        \/ \E x \in ClaimsOf(st.claim.key) :
              Written(x) /\ Invalidate(st.claim, claims[x].since)
Search == Decide \/ DecideNothing \/ Escalate \/ Unverified \/ OutOfCalls \/ EndSearch
Reconcile ==
    \/ ClaimDirty \/ Poison \/ TooLarge \/ BumpAttempts \/ Fetch \/ Search
    \/ Promote \/ AssertFact \/ CopyEvidence \/ CommitReconciliation

Next == Client \/ Reconcile \/ Raise
Spec == Init /\ [][Next]_vars

(* The sweeper goes on ticking, and a tick goes on.                        *)
FairSpec == Spec /\ WF_vars(Reconcile)

-----------------------------------------------------------------------------
(* Properties. *)

Examined(k) == ~Dirty(k) /\ fate[k] = "settled"
Active(c) == Written(c) /\ claims[c].defeated_by = Nobody

(* No write is lost to a pass it overlapped: when a subject is clean and   *)
(* was not given up on, its last pass read all the evidence there is, the  *)
(* evidence the promoter writes between its two transactions included.     *)
Settled ==
    \A c \in Claim : Examined(c.key) => seen[c] = claims[c].evidence

(* The two writes of a promotion are not atomic, and a crash or a write    *)
(* may come between them: still, once the agent's subject is clean, each   *)
(* claim a rule selects is in the world scope with all of its evidence.    *)
PromotedInFull ==
    \A c \in Claim :
        /\ c.key.scope = "agent" /\ Examined(c.key)
        /\ Active(c) /\ Qualifies(c)
        => claims[c].evidence \cup {Promoter} \subseteq claims[InWorld(c)].evidence

Opposed(a, b) == Says({a, b}) \in config.conflicts \cap Comparable

(* Verdicts that leave every claim as it is: "escalated" hands the claims  *)
(* over, "none" is about a claim that contradicts itself.                  *)
Open == {"escalated", "none"}

(* A pass may leave a pair it read alone: it came upon claims it could not *)
(* settle, and stopped; or each of its rounds defeated a claim and none is *)
(* left, in which case it clears the mark all the same and escalates       *)
(* nothing.  In memory the open verdict is on record; in Neo4j, where a    *)
(* defeated claim is searched again, an older one may hold its id.         *)
Halted(k) ==
    \E v \in last[k] :
        /\ v.resolution \in Open
        /\ config.store = "memory" =>
              \E w \in verdicts : w.claims = v.claims /\ w.resolution \in Open
SpentOnDefeats(k) ==
    Cardinality({v \in last[k] : v.resolution = "defeat"}) = config.max_mus

(* Two active claims that contradict each other and may be compared are    *)
(* not passed over: once their subject is clean and was examined, there is *)
(* a verdict about the two of them, or the very pass that examined it last *)
(* halted at an open verdict, or had max_mus_per_subject defeats to show.  *)
ConflictsFaced ==
    \A a, b \in Claim :
        /\ a.key = b.key /\ Active(a) /\ Active(b)
        /\ Opposed(a, b) /\ Overlap(claims, a, b) /\ Examined(a.key)
        => \/ \E v \in verdicts : v.claims = {a, b}
           \/ Halted(a.key)
           \/ SpentOnDefeats(a.key)

(* A mark goes only if all the subject's evidence was read, or if a        *)
(* verdict on record says that it was given up on.                         *)
NeverSwallowed ==
    [][\A k \in Key : Dirty(k) /\ ~Dirty(k)' =>
          \/ \A c \in ClaimsOf(k) : seen'[c] = claims'[c].evidence
          \/ \E v \in verdicts' : v.key = k /\ v.claims = {}]_vars

(* Promotion writes the world scope while it is being drained, which marks *)
(* it again; a pass that loses the race is repeated.  Still, once clients  *)
(* stop writing, the queue drains.                                         *)
Drains == config.store = "neo4j" => <>[](order = <<>>)

(* "only promote active ones" (promotion.py).                              *)
OnlyActivePromoted ==
    tick.pc = "assert" => claims[tick.moving].defeated_by = Nobody

=============================================================================
