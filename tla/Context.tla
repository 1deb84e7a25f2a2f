------------------------------- MODULE Context ------------------------------
(***************************************************************************)
(* The prompt of a model call: ContextAssembler.assemble over the default  *)
(* layout of six slots, the MemoryContributor and MemoryInjector behind    *)
(* the memory slot, the channels they read and the latent store whose uses *)
(* they count.                                                             *)
(*                                                                         *)
(* A call is a sequence of steps that other calls, and the writers of the  *)
(* stores, come between wherever the code awaits: every channel reads its  *)
(* store at a time of its own.  Two calls may share one contributor.       *)
(***************************************************************************)
EXTENDS Recall, Integers

CONSTANTS
    Callers,        \* concurrent calls of assemble
    Requests,       \* what they may ask for
    Claims, Episodes, Latents,      \* ids: naturals
    returns_status, \* does a read of the entity graph return a claim's status?
    hot_first,      \* does the latent channel read the hot tier first?
    hot_capacity,
    min_per_kind,
    token_budget,   \* of the memory policy
    MaxChanges      \* bound: writes to the stores

HeadSections == <<"rules", "personality", "instructions">>

VARIABLES
    claims,         \* the entity graph: the claims and their state
    latents,        \* the latent store
    calls,          \* the frame of every call
    stash,          \* last_injected_memory of the contributor: whose it is
    uses,           \* history: the uses that calls recorded
    changes         \* bound

vars == <<claims, latents, calls, stash, uses, changes>>

Request == [sections : SUBSET ToSet(HeadSections), tools : Seq(STRING),
            serves : SUBSET Channels, total_budget : Nat]

(* "cold" is no channel: it marks the second read of dense.latent.         *)
ASSUME ContextAssumption ==
    /\ Claims \cup Episodes \cup Latents \subseteq Nat
    /\ \A r \in Requests : r \in Request
    /\ token_budget \in Nat /\ returns_status \in BOOLEAN
    /\ "cold" \notin Channels

NewClaim == [version |-> 0, defeated |-> FALSE, valid |-> TRUE]
NoReads == [c \in Channels |-> <<>>]

NewFrame == [pc |-> "idle", sections |-> {}, tools |-> <<>>, serves |-> {}, budget |-> 0,
             remaining |-> 0, tool_tokens |-> 0, alloc |-> 0,
             reads |-> NoReads, unread |-> {}, chunks |-> <<>>, token_count |-> 0,
             memory |-> "none", defeated |-> {}, as_of |-> {}]

-----------------------------------------------------------------------------
(* The stores. *)

Stored == DOMAIN latents
NewRow == [version |-> 0, use |-> 0, last |-> changes, tier |-> "cold"]

(* Fault: putting a row puts its usage too. *)
PutResets(l) ==
    latents' = [x \in Stored \cup {l} |->
                  IF x # l THEN latents[x]
                  ELSE IF l \in Stored THEN [NewRow EXCEPT !.version = latents[l].version + 1]
                  ELSE NewRow]

(* A put of a row that is there touches its content only. *)
PutRow(l) ==
    latents' = [x \in Stored \cup {l} |->
                  IF x # l THEN latents[x]
                  ELSE IF l \in Stored THEN [latents[l] EXCEPT !.version = @ + 1] ELSE NewRow]

(* UPDATE ... WHERE id = ANY(ids). *)
record_use(ids) ==
    latents' = [l \in Stored |-> IF l \in ids
                                 THEN [latents[l] EXCEPT !.use = @ + 1, !.last = changes]
                                 ELSE latents[l]]

(* Activation rises with uses and falls with age, at rates that any pair   *)
(* of rows may compare by; what is certain is that a row no less used and  *)
(* no older comes first.                                                   *)
Outranks(a, b) ==
    LET x == latents[a]
        y == latents[b]
    IN  /\ x.use >= y.use /\ x.last >= y.last
        /\ x.use > y.use \/ x.last > y.last \/ a < b

HotSets ==
    {H \in SUBSET Stored : /\ Cardinality(H) = Min({hot_capacity, Cardinality(Stored)})
                           /\ \A a \in Stored \ H, b \in H : ~Outranks(a, b)}

(* What a channel reads of its store.  The claims it found that were not   *)
(* valid when the injection was stamped are dropped from the k.  The       *)
(* in-memory graph returns a claim as it is; no query of the Neo4j one     *)
(* returns the status, and a defeated claim reads as an active one.        *)
ValidClaims == {c \in Claims : claims[c].valid}

ClaimResults(channel, as_of) ==
    LET top == TopOf(channel, Claims)
        ids == Pick(top, {i \in 1..Len(top) : top[i] \in as_of})
    IN  [i \in 1..Len(ids) |-> Result("claim", ids[i], claims[ids[i]].version,
                                      returns_status /\ claims[ids[i]].defeated)]

EpisodeResults(channel) ==
    LET ids == TopOf(channel, Episodes)
    IN  [i \in 1..Len(ids) |-> Result("episode", ids[i], 0, FALSE)]

LatentResults(channel, tiers) ==
    LET ids == TopOf(channel, {l \in Stored : latents[l].tier \in tiers})
    IN  [i \in 1..Len(ids) |-> Result("latent", ids[i], latents[ids[i]].version, FALSE)]

Search(channel, as_of) ==
    CASE channel = "temporal.episodes" -> EpisodeResults(channel)
      [] channel = "dense.latent" -> LatentResults(channel, {"hot", "cold"})
      [] OTHER -> ClaimResults(channel, as_of)

-----------------------------------------------------------------------------
(* Texts and their costs. *)

(* An empty text is not counted. *)
Cost(text) == IF text = <<>> THEN 0 ELSE Count(text)

HeadText(sections) ==
    LET names == Pick(HeadSections, {i \in 1..Len(HeadSections) : HeadSections[i] \in sections})
    IN  [i \in 1..Len(names) |-> Section(names[i])]

TaskText == <<Section("task")>>
Envelope(texts) == <<Section("memory:start")>> \o texts \o <<Section("memory:end")>>
BodyCost(texts) == IF texts = <<>> THEN 0 ELSE Count(Envelope(texts))
Overhead == Count(Envelope(<<>>))

RequiredTokens(sections) == Cost(HeadText(sections \ {"personality"})) + Cost(TaskText)

(* What joining the personality to the head message costs. *)
PersonalityDelta(sections) == Cost(HeadText(sections)) - Cost(HeadText(sections \ {"personality"}))

Texts(chunks) == [i \in 1..Len(chunks) |-> chunks[i].text]

(* Fault: the rendered envelope is not compared with what was allotted. *)
TrimNothing(chunks, alloc) == chunks

(* Chunks go from the end until the envelope fits what was allotted. *)
Trim(chunks, alloc) ==
    IF BodyCost(Texts(chunks)) <= alloc THEN chunks
    ELSE LET fits == {n \in 1..Len(chunks) - 1 : BodyCost(Texts(SubSeq(chunks, 1, n))) <= alloc}
         IN  IF fits = {} THEN <<>> ELSE SubSeq(chunks, 1, Max(fits))

-----------------------------------------------------------------------------
(* A call of assemble. *)

Init ==
    /\ claims = [c \in Claims |-> NewClaim]
    /\ latents = [l \in {} |-> NewRow]
    /\ calls = [u \in Callers |-> NewFrame]
    /\ stash = "none"
    /\ uses = [l \in Latents |-> 0]
    /\ changes = 0

Goto(u, f) == calls' = [calls EXCEPT ![u] = f]
At(u, pc) == calls[u].pc = pc

(* Phase 1: the required slots.  A slot with nothing to say is absent from *)
(* sections, and so is a personality whose contributor raised.             *)
Begin(u, r) ==
    /\ At(u, "idle")
    /\ LET required == RequiredTokens(r.sections)
           f == [NewFrame EXCEPT !.sections = r.sections, !.tools = r.tools, !.serves = r.serves,
                                 !.budget = r.total_budget]
       IN  Goto(u, IF required > r.total_budget THEN [f EXCEPT !.pc = "raised"]
                   ELSE [f EXCEPT !.pc = "personality", !.remaining = r.total_budget - required])
    /\ UNCHANGED <<claims, latents, stash, uses, changes>>

(* The contributor of a required slot raised, or said ok and had nothing. *)
RequiredFails(u) ==
    /\ At(u, "idle")
    /\ Goto(u, [NewFrame EXCEPT !.pc = "raised"])
    /\ UNCHANGED <<claims, latents, stash, uses, changes>>

(* Phase 2: the personality, whole or not at all. *)
ChargePersonality(u) ==
    /\ At(u, "personality")
    /\ LET f == calls[u]
           delta == PersonalityDelta(f.sections)
       IN  Goto(u, IF delta <= f.remaining
                   THEN [f EXCEPT !.pc = "tools", !.remaining = @ - delta]
                   ELSE [f EXCEPT !.pc = "tools", !.sections = @ \ {"personality"}])
    /\ UNCHANGED <<claims, latents, stash, uses, changes>>

(* Then the tools one by one, each that fits. *)
ChargeTool(u) ==
    /\ At(u, "tools") /\ calls[u].tools # <<>>
    /\ LET f == calls[u]
           cost == Count(<<Section(Head(f.tools))>>)
       IN  Goto(u, IF cost <= f.remaining
                   THEN [f EXCEPT !.tools = Tail(@), !.remaining = @ - cost,
                                  !.tool_tokens = @ + cost]
                   ELSE [f EXCEPT !.tools = Tail(@)])
    /\ UNCHANGED <<claims, latents, stash, uses, changes>>

(* Phase 3: what is left, less the empty envelope, within the policy. *)
Allot(f) == Min({IF f.remaining < Overhead THEN 0 ELSE f.remaining - Overhead, token_budget})

(* The contributor clears its stash, and recalls if there is a query: the  *)
(* channels that can serve it start together, with as_of stamped.          *)
OpenMemory(u) ==
    /\ At(u, "tools") /\ calls[u].tools = <<>>
    /\ LET alloc == Allot(calls[u])
           f == [calls[u] EXCEPT !.alloc = alloc]
       IN  /\ Goto(u, IF alloc = 0 \/ f.serves = {} THEN [f EXCEPT !.pc = "render"]
                      ELSE [f EXCEPT !.pc = "recall", !.unread = f.serves, !.as_of = ValidClaims,
                                     !.defeated = {c \in Claims : claims[c].defeated}])
           /\ stash' = IF alloc = 0 THEN stash ELSE "none"
    /\ UNCHANGED <<claims, latents, uses, changes>>

HasRead(u, channel, results) ==
    Goto(u, [calls[u] EXCEPT !.reads[channel] = results, !.unread = @ \ {channel}])

ReadChannel(u, channel) ==
    /\ At(u, "recall") /\ channel \in calls[u].unread
    /\ ~(hot_first /\ channel = "dense.latent")
    /\ HasRead(u, channel, Search(channel, calls[u].as_of))
    /\ UNCHANGED <<claims, latents, stash, uses, changes>>

(* A channel that raises counts as failed and contributes nothing. *)
ChannelFails(u, channel) ==
    /\ At(u, "recall") /\ channel \in calls[u].unread
    /\ HasRead(u, channel, <<>>)
    /\ UNCHANGED <<claims, latents, stash, uses, changes>>

(* The hot tier is read once; unless it fills the answer the cold tier is  *)
(* read then.                                                              *)
ReadHot(u) ==
    /\ hot_first
    /\ At(u, "recall") /\ "dense.latent" \in calls[u].unread \ {"cold"}
    /\ LET hot == LatentResults("dense.latent", {"hot"})
       IN  IF Len(Accepted(hot)) >= k
           THEN HasRead(u, "dense.latent", FirstOf(k, Accepted(hot)))
           ELSE Goto(u, [calls[u] EXCEPT !.reads["dense.latent"] = hot,
                             !.unread = (@ \ {"dense.latent"}) \cup {"cold"}])
    /\ UNCHANGED <<claims, latents, stash, uses, changes>>

ReadCold(u) ==
    /\ At(u, "recall") /\ "cold" \in calls[u].unread
    /\ Goto(u, [calls[u] EXCEPT
                  !.reads["dense.latent"] = HotFirst("dense.latent", @,
                                                     LatentResults("dense.latent", {"cold"})),
                  !.unread = @ \ {"cold"}])
    /\ UNCHANGED <<claims, latents, stash, uses, changes>>

(* Fault: what was recalled goes in, defeated or not.                      *)
ExcludeNothing(results) == results

ExcludeDefeated(results) == Pick(results, {i \in 1..Len(results) : ~results[i].defeated})

Recalled(u) == At(u, "recall") /\ calls[u].unread = {}

LatentIds(chunks) == {chunks[i].key[2] : i \in {i \in 1..Len(chunks) : chunks[i].key[1] = Kind.latent}}

(* Fusion raises: the whole memory is lost, the slot degraded. *)
FusionRaises(u) ==
    /\ Recalled(u) /\ TextsDiffer(calls[u].reads)
    /\ Goto(u, [calls[u] EXCEPT !.pc = "render", !.reads = NoReads])
    /\ UNCHANGED <<claims, latents, stash, uses, changes>>

(* inject: fuse, leave defeated claims out, assemble. *)
Inject(u) ==
    /\ Recalled(u) /\ ~TextsDiffer(calls[u].reads)
    /\ Goto(u, [calls[u] EXCEPT !.pc = "use", !.reads = NoReads,
                    !.chunks = assemble(ExcludeDefeated(fuse(calls[u].reads)),
                                        calls[u].alloc, min_per_kind)])
    /\ UNCHANGED <<claims, latents, stash, uses, changes>>

(* The uses of the latent chunks are recorded, at best effort; the         *)
(* contributor keeps what was injected for the assembler to pick up.       *)
RecordUse(u) ==
    /\ At(u, "use")
    /\ LET ids == LatentIds(calls[u].chunks)
       IN  \/ /\ record_use(ids)
              /\ uses' = [l \in Latents |-> IF l \in ids THEN uses[l] + 1 ELSE uses[l]]
           \/ UNCHANGED <<latents, uses>>
    /\ stash' = u
    /\ Goto(u, [calls[u] EXCEPT !.pc = "render"])
    /\ UNCHANGED <<claims, changes>>

(* Trim, render, count; pick up the stash if the contributor was called. *)
Render(u) ==
    /\ At(u, "render")
    /\ LET f == calls[u]
           shown == Trim(f.chunks, f.alloc)
       IN  Goto(u, [f EXCEPT !.pc = "done", !.chunks = shown,
                        !.token_count = Cost(HeadText(f.sections)) + BodyCost(Texts(shown))
                                            + Cost(TaskText) + f.tool_tokens,
                        !.memory = IF f.alloc = 0 THEN "none" ELSE stash])
    /\ UNCHANGED <<claims, latents, stash, uses, changes>>

-----------------------------------------------------------------------------
(* The writers of the stores. *)

Write == changes < MaxChanges /\ changes' = changes + 1

(* Evidence moves the confidence that a claim is rendered with. *)
NewEvidence(c) ==
    /\ Write
    /\ claims' = [claims EXCEPT ![c].version = @ + 1]
    /\ UNCHANGED <<latents, calls, stash, uses>>

Defeat(c) ==
    /\ ~claims[c].defeated
    /\ Write
    /\ claims' = [claims EXCEPT ![c].defeated = TRUE]
    /\ UNCHANGED <<latents, calls, stash, uses>>

Invalidate(c) ==
    /\ claims[c].valid
    /\ Write
    /\ claims' = [claims EXCEPT ![c].valid = FALSE]
    /\ UNCHANGED <<latents, calls, stash, uses>>

Put(l) ==
    /\ Write
    /\ PutRow(l)
    /\ UNCHANGED <<claims, calls, stash, uses>>

Sweep(H) ==
    /\ latents' = [l \in Stored |-> [latents[l] EXCEPT !.tier = IF l \in H THEN "hot" ELSE "cold"]]
    /\ latents' # latents
    /\ UNCHANGED <<claims, calls, stash, uses, changes>>

-----------------------------------------------------------------------------

Assemble(u) ==
    \/ \E r \in Requests : Begin(u, r)
    \/ RequiredFails(u)
    \/ ChargePersonality(u)
    \/ ChargeTool(u)
    \/ OpenMemory(u)
    \/ \E channel \in Channels : ReadChannel(u, channel) \/ ChannelFails(u, channel)
    \/ ReadHot(u)
    \/ ReadCold(u)
    \/ FusionRaises(u)
    \/ Inject(u)
    \/ RecordUse(u)
    \/ Render(u)

Next ==
    \/ \E u \in Callers : Assemble(u)
    \/ \E c \in Claims : NewEvidence(c) \/ Defeat(c) \/ Invalidate(c)
    \/ \E l \in Latents : Put(l)
    \/ \E H \in HotSets : Sweep(H)

Spec == Init /\ [][Next]_vars

-----------------------------------------------------------------------------
(* Correctness. *)

(* The prompt of a call is within its budget, the tools it carries         *)
(* included, whatever was dropped or trimmed on the way there.             *)
WithinBudget ==
    \A u \in Callers : At(u, "done") => calls[u].token_count <= calls[u].budget

(* With a graph that returns the status: a claim that was defeated when a  *)
(* recall began is not in the prompt, whichever channel found it and       *)
(* whenever that one read.  With one that does not, nothing keeps it out.  *)
DefeatedLeftOut ==
    returns_status => \A u \in Callers : At(u, "done") =>
        \A i \in 1..Len(calls[u].chunks) :
            calls[u].chunks[i].key[1] = Kind.claim => calls[u].chunks[i].key[2] \notin calls[u].defeated

(* The use count of a row is the number of injections that recorded it:    *)
(* none is lost to a concurrent one, to a sweep or to a put.               *)
UsesCounted == \A l \in Stored : latents[l].use = uses[l]

=============================================================================
