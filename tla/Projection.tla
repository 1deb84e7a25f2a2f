----------------------------- MODULE Projection -----------------------------
(***************************************************************************)
(* Committed steps become knowledge: one projection consumer (the trial    *)
(* projector, the episode projector, the claim extractor or the verdict    *)
(* evidence projector) that polls the journal of all runs with a cursor    *)
(* and writes what it finds, together with its new cursor, in one          *)
(* transaction of the store that keeps both.                               *)
(*                                                                         *)
(* The consumers share the journal and nothing else, so the module holds   *)
(* one, of a kind chosen at the start, and every kind is checked.  A tick  *)
(* is a coroutine; an event may start one while another runs, so a         *)
(* consumer has several tickers.  The journal's writers are transactions:  *)
(* an INSERT draws its xid first and becomes visible when it commits, in   *)
(* any order of the xids.                                                  *)
(***************************************************************************)
EXTENDS Naturals, FiniteSets

CONSTANTS
    Runs,           \* run ids, as numbers in the order of their bytes
    MaxStep,        \* bound: the last step index of a run
    Legacy,         \* the rows the commit_xid migration found in the table
    Relevant,       \* the rows that hold something to project
    Poisons,        \* the sets of rows whose stamp may be malformed
    Collations,     \* the orders the database may give run ids: [Runs -> Nat]
    Kinds,          \* the kinds of consumer
    Tickers,        \* the coroutines that may tick
    Solo,           \* the kinds that only one ticker ticks for
    batch_limit,    \* rows read per tick
    MaxAborts       \* bound: INSERTs rolled back

Row == [run : Runs, step : 0..MaxStep]

ASSUME ProjectionAssumption ==
    /\ Runs \subseteq Nat /\ IsFiniteSet(Runs) /\ MaxStep \in Nat
    /\ Legacy \subseteq Row /\ Relevant \subseteq Row
    /\ \A P \in Poisons : P \subseteq Row
    /\ Collations \subseteq [Runs -> Nat]
    /\ Kinds \subseteq {"trials", "episodes", "claims", "evidence"} /\ Solo \subseteq Kinds
    /\ batch_limit \in Nat \ {0} /\ MaxAborts \in Nat

VARIABLES
    setup,          \* what is being run: its kind, the collation, the malformed rows
    next_xid,       \* the next transaction id
    open,           \* the rows of INSERTs in flight, with their xid
    rows,           \* the rows committed, with their commit_xid
    aborts,         \* INSERTs rolled back so far
    cursor,         \* the stored cursor of the consumer
    written,        \* how many times the store holds what a row projects to
    mirrored,       \* the rows whose turns are in the latent store
    tick            \* the frame of every ticker

log == <<next_xid, open, rows, aborts>>
store == <<cursor, written, mirrored>>
vars == <<setup, log, store, tick>>

-----------------------------------------------------------------------------
(* Cursors, in the order of the journal's keyset and of the Neo4j stores:  *)
(* commit ordinal, then run id by byte, then step.                         *)

Cursor == [xid : Nat, run : Nat, step : Nat]
NoCursor == [xid |-> 0, run |-> 0, step |-> 0]

CursorOf(r) == [xid |-> rows[r], run |-> r.run, step |-> r.step]

Before(a, b) ==
    \/ a.xid < b.xid
    \/ a.xid = b.xid /\ a.run < b.run
    \/ a.xid = b.xid /\ a.run = b.run /\ a.step < b.step

(* The episode store's upsert compares run ids by the database's collation.*)
CollatedBefore(a, b) ==
    \/ a.xid < b.xid
    \/ a.xid = b.xid /\ setup.collation[a.run] < setup.collation[b.run]
    \/ a.xid = b.xid /\ a.run = b.run /\ a.step < b.step

Supersedes(new, old) ==
    \/ old = NoCursor
    \/ IF setup.kind = "episodes" THEN CollatedBefore(old, new) ELSE Before(old, new)

Merges == setup.kind \in {"trials", "episodes"}     \* a repeated write is dropped

Frame == [pc : {"idle", "fetch", "stage", "project", "mirror"},
          cursor : Cursor, batch : SUBSET Row]
Idle == [pc |-> "idle", cursor |-> NoCursor, batch |-> {}]

pc(t) == tick[t].pc
Goto(t, label) == tick' = [tick EXCEPT ![t].pc = label]
Finish(t) == tick' = [tick EXCEPT ![t] = Idle]

Init ==
    /\ setup \in [kind : Kinds, collation : Collations, poison : Poisons]
    /\ next_xid = 2
    /\ open = [r \in {} |-> 0]
    /\ rows = [r \in Legacy |-> 1]
    /\ aborts = 0
    /\ cursor = NoCursor
    /\ written = [r \in Row |-> 0]
    /\ mirrored = {}
    /\ tick = [t \in Tickers |-> Idle]

-----------------------------------------------------------------------------
(* The journal's writers. *)

Drop(f, r) == [q \in DOMAIN f \ {r} |-> f[q]]

(* INSERT ... : the default of commit_xid draws the transaction's id.      *)
BeginCommit(r) ==
    /\ r \notin DOMAIN rows \cup DOMAIN open
    /\ r.step = 0 \/ [r EXCEPT !.step = @ - 1] \in DOMAIN rows
    /\ open' = [q \in DOMAIN open \cup {r} |-> IF q = r THEN next_xid ELSE open[q]]
    /\ next_xid' = next_xid + 1
    /\ UNCHANGED <<rows, aborts, setup, store, tick>>

Commit(r) ==
    /\ r \in DOMAIN open
    /\ rows' = [q \in DOMAIN rows \cup {r} |-> IF q = r THEN open[r] ELSE rows[q]]
    /\ open' = Drop(open, r)
    /\ UNCHANGED <<next_xid, aborts, setup, store, tick>>

(* The connection is lost: the row is gone, its xid is spent.              *)
Abort(r) ==
    /\ r \in DOMAIN open
    /\ aborts < MaxAborts
    /\ aborts' = aborts + 1
    /\ open' = Drop(open, r)
    /\ UNCHANGED <<next_xid, rows, setup, store, tick>>

-----------------------------------------------------------------------------
(* The ticks. *)

(* Fault: the read without its fence.                                      *)
Unfenced(c) == {r \in DOMAIN rows : Before(c, CursorOf(r))}

(* Visible rows past the cursor and below every transaction in flight.     *)
Readable(c) ==
    {r \in DOMAIN rows :
        /\ Before(c, CursorOf(r))
        /\ rows[r] < next_xid
        /\ \A q \in DOMAIN open : rows[r] < open[q]}

(* The first rows of R, oldest first, LIMIT batch_limit.                   *)
IsBatch(B, R) ==
    /\ \A b \in B, q \in R \ B : Before(CursorOf(b), CursorOf(q))
    /\ Cardinality(B) <= batch_limit
    /\ B = R \/ Cardinality(B) = batch_limit

IsLast(r, B) == r \in B /\ \A q \in B : q = r \/ Before(CursorOf(q), CursorOf(r))

ReadCursor(t) ==
    /\ pc(t) = "idle"
    /\ setup.kind \in Solo => \A u \in Tickers \ {t} : pc(u) = "idle"
    /\ tick' = [tick EXCEPT ![t].pc = "fetch", ![t].cursor = cursor]
    /\ UNCHANGED <<setup, log, store>>

Fetch(t) ==
    /\ pc(t) = "fetch"
    /\ LET R == Readable(tick[t].cursor) IN
          \/ R = {} /\ Finish(t)
          \/ \E B \in SUBSET R :
                /\ B # {} /\ IsBatch(B, R)
                /\ tick' = [tick EXCEPT ![t].pc = "stage", ![t].batch = B]
    /\ UNCHANGED <<setup, log, store>>

Malformed(t) == tick[t].batch \cap setup.poison # {}

(* Faults: a malformed stamp is passed over; the turns are embedded here.  *)
StageBlind(t) ==
    /\ pc(t) = "stage"
    /\ Goto(t, "project")
    /\ UNCHANGED <<setup, log, store>>

StageMirrors(t) ==
    /\ pc(t) = "stage"
    /\ IF Malformed(t) THEN Finish(t) ELSE Goto(t, "project")
    /\ mirrored' = IF setup.kind = "claims"
                   THEN mirrored \cup (tick[t].batch \cap Relevant) ELSE mirrored
    /\ UNCHANGED <<setup, log, cursor, written>>

(* Resolve the outcomes, parse the turns, call the model: no write.  One   *)
(* malformed stamp anywhere in the batch raises out of the tick.           *)
Stage(t) ==
    /\ pc(t) = "stage"
    /\ IF Malformed(t) THEN Finish(t) ELSE Goto(t, "project")
    /\ UNCHANGED <<setup, log, store>>

Credit(B) ==
    [r \in Row |-> IF r \notin B \cap Relevant THEN written[r]
                   ELSE IF Merges THEN 1 ELSE written[r] + 1]

(* What the batch holds; the claim extractor has its latent writes left.   *)
Write(t) ==
    /\ written' = Credit(tick[t].batch)
    /\ IF setup.kind = "claims" THEN Goto(t, "mirror") ELSE Finish(t)
    /\ UNCHANGED <<setup, log, mirrored>>

(* Faults: the cursor moves back; a batch with nothing to write leaves it; *)
(* the cursor has a transaction of its own, which may not happen.          *)
ProjectAnyCursor(t) ==
    /\ pc(t) = "project"
    /\ \E last \in Row : IsLast(last, tick[t].batch) /\ cursor' = CursorOf(last)
    /\ Write(t)

ProjectOnlyFull(t) ==
    /\ pc(t) = "project"
    /\ \E last \in Row :
          /\ IsLast(last, tick[t].batch)
          /\ cursor' = IF tick[t].batch \cap Relevant # {} /\ Supersedes(CursorOf(last), cursor)
                       THEN CursorOf(last) ELSE cursor
    /\ Write(t)

ProjectApart(t) ==
    /\ pc(t) = "project"
    /\ \E last \in Row :
          /\ IsLast(last, tick[t].batch)
          /\ cursor' \in {cursor, CursorOf(last)}
    /\ Write(t)

(* One transaction: what the batch holds, and the cursor if it advances.   *)
(* A batch with nothing to write advances it too.                          *)
Project(t) ==
    /\ pc(t) = "project"
    /\ \E last \in Row :
          /\ IsLast(last, tick[t].batch)
          /\ cursor' = IF Supersedes(CursorOf(last), cursor) THEN CursorOf(last) ELSE cursor
    /\ Write(t)

(* The user turns go to the latent store, one put each; an error there     *)
(* ends the tick in silence.                                               *)
Mirror(t) ==
    /\ pc(t) = "mirror"
    /\ \/ \E r \in tick[t].batch :
             /\ mirrored' = mirrored \cup ({r} \cap Relevant)
             /\ tick' = [tick EXCEPT ![t].batch = @ \ {r}]
       \/ tick[t].batch = {} /\ Finish(t) /\ UNCHANGED mirrored
    /\ UNCHANGED <<setup, log, cursor, written>>

(* A crash, a cancelled task, a store or a model that raises: a tick keeps *)
(* nothing outside the stores.                                             *)
Interrupt(t) ==
    /\ pc(t) # "idle"
    /\ Finish(t)
    /\ UNCHANGED <<setup, log, store>>

Insert(r) == BeginCommit(r) \/ Commit(r) \/ Abort(r)
Tick(t) == ReadCursor(t) \/ Fetch(t) \/ Stage(t) \/ Project(t) \/ Mirror(t) \/ Interrupt(t)
Next == (\E r \in Row : Insert(r)) \/ (\E t \in Tickers : Tick(t))

Spec == Init /\ [][Next]_vars

(* Every INSERT ends, ticks go on being called, and a store or model that  *)
(* is asked again and again answers in the end.                            *)
FairSpec ==
    /\ Spec
    /\ \A r \in Row : WF_vars(Commit(r))
    /\ \A t \in Tickers :
          /\ WF_vars(ReadCursor(t)) /\ WF_vars(Mirror(t))
          /\ SF_vars(Fetch(t)) /\ SF_vars(Stage(t)) /\ SF_vars(Project(t))

-----------------------------------------------------------------------------
(* Correctness. *)

(* Every variable has its type, and a transaction id is drawn before it is *)
(* used.                                                                   *)
TypeOK ==
    /\ setup \in [kind : Kinds, collation : Collations, poison : Poisons]
    /\ next_xid \in Nat \ {0} /\ aborts \in 0..MaxAborts
    /\ DOMAIN open \subseteq Row /\ \A r \in DOMAIN open : open[r] \in 1..next_xid - 1
    /\ DOMAIN rows \subseteq Row /\ \A r \in DOMAIN rows : rows[r] \in 1..next_xid - 1
    /\ DOMAIN open \cap DOMAIN rows = {}
    /\ cursor \in Cursor
    /\ written \in [Row -> Nat]
    /\ mirrored \subseteq Row
    /\ tick \in [Tickers -> Frame]

(* Nothing is ever left behind: every committed row the cursor has reached *)
(* is in the store, whatever order the writers' transactions ended in and  *)
(* whichever tickers raced.                                                *)
NothingSkipped ==
    \A r \in DOMAIN rows \cap Relevant :
        ~Before(cursor, CursorOf(r)) => written[r] > 0

(* Crashes and racing ticks write nothing twice: a merged row is there     *)
(* once, and the evidence of a row is created once by a lone ticker.       *)
CountedOnce ==
    Merges \/ setup.kind \in Solo => \A r \in Row : written[r] <= 1

(* A turn reaches the latent store only after the claims drawn from it.    *)
MirrorAfterClaims == \A r \in mirrored : written[r] > 0

(* A malformed row stops the consumer: the cursor never passes it.         *)
PoisonStops ==
    \A r \in setup.poison \cap DOMAIN rows : Before(cursor, CursorOf(r))

(* The cursor of a Neo4j store never moves back, and so a stale tick that  *)
(* ends late cannot make a later one read rows again.                      *)
CursorAdvances ==
    [][setup.kind # "episodes" => ~Before(cursor', cursor)]_vars

Done(r) == r \in DOMAIN rows \cap Relevant => written[r] > 0

(* Every committed row is projected in the end, if no row is malformed,    *)
(* and for the episodes if the database orders run ids by their bytes.     *)
Bytewise == [r \in Runs |-> r]
AllProjected ==
    setup.poison = {} /\ (setup.kind = "episodes" => setup.collation = Bytewise)
        => \A r \in Row : r \in DOMAIN rows ~> Done(r)

=============================================================================
