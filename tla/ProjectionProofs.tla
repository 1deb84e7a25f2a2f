-------------------------- MODULE ProjectionProofs --------------------------
(***************************************************************************)
(* Theorems about a projection consumer, for any kind, any number of       *)
(* tickers, any batch limit, any set of runs and any interleaving with the *)
(* transactions that write the journal.                                    *)
(*                                                                         *)
(* The argument: a cursor that was read under the fence is below every     *)
(* transaction in flight, so no row can appear at or before it any more    *)
(* (Safe), and a batch is an initial piece of what lies past the cursor it *)
(* was read with (Piece).  Both survive whatever other tickers do, since   *)
(* they speak of the ticker's own cursor and not of the stored one.        *)
(***************************************************************************)
EXTENDS Projection, TLAPS

(* What has to be true of a row before a cursor may be at or past it.      *)
Handled(r) ==
    /\ r \notin setup.poison
    /\ r \in Relevant => written[r] > 0

(* Below every transaction in flight, and nothing unhandled behind it.     *)
Fenced(n) == n < next_xid /\ \A q \in DOMAIN open : n < open[q]
Safe(c) ==
    /\ c \in Cursor
    /\ Fenced(c.xid)
    /\ \A r \in DOMAIN rows : Before(c, CursorOf(r)) \/ Handled(r)

(* A batch holds every row past c up to each of its own.                   *)
Piece(B, c) ==
    /\ B \subseteq DOMAIN rows
    /\ \A b \in B :
          /\ Fenced(rows[b])
          /\ \A r \in DOMAIN rows :
                r \in B \/ ~Before(c, CursorOf(r)) \/ Before(CursorOf(b), CursorOf(r))

Sound(f) ==
    /\ f.pc # "idle" => Safe(f.cursor)
    /\ f.pc \in {"stage", "project"} => Piece(f.batch, f.cursor)
    /\ f.pc = "project" => f.batch \cap setup.poison = {}
    /\ f.pc = "mirror" => \A r \in f.batch \cap Relevant : written[r] > 0

Inv ==
    /\ TypeOK
    /\ Safe(cursor)
    /\ \A t \in Tickers : Sound(tick[t])
    /\ MirrorAfterClaims

-----------------------------------------------------------------------------
(* Cursors. *)

LEMMA CursorTyped ==
    ASSUME TypeOK, NEW r \in DOMAIN rows
    PROVE  r \in Row /\ CursorOf(r) \in Cursor
<1>1. r \in Row /\ rows[r] \in Nat
  BY DEF TypeOK
<1>2. Runs \subseteq Nat /\ MaxStep \in Nat
  BY ProjectionAssumption
<1>3. r.run \in Runs /\ r.step \in 0..MaxStep
  BY <1>1 DEF Row
<1>4. \A n \in 0..MaxStep : n \in Nat
  OBVIOUS
<1>5. r.run \in Nat /\ r.step \in Nat
  BY <1>2, <1>3, <1>4
<1> QED
  BY <1>1, <1>5 DEF CursorOf, Cursor

LEMMA BeforeXid ==
    ASSUME NEW a \in Cursor, NEW b \in Cursor, a.xid < b.xid PROVE Before(a, b)
  BY DEF Before

(* A type for the idle frame, and for a frame with one field changed.      *)
LEMMA FrameTyped ==
    ASSUME NEW f \in Frame, NEW l \in {"idle", "fetch", "stage", "project", "mirror"}
    PROVE  /\ Idle \in Frame
           /\ [f EXCEPT !.pc = l] \in Frame
           /\ \A c \in Cursor : [f EXCEPT !.pc = l, !.cursor = c] \in Frame
           /\ \A B \in SUBSET Row : /\ [f EXCEPT !.pc = l, !.batch = B] \in Frame
                                     /\ [f EXCEPT !.batch = B] \in Frame
  BY DEF Frame, Idle, Cursor, NoCursor

-----------------------------------------------------------------------------
(* What a step of a writer, or of another ticker, leaves true.             *)

LEMMA InsertTyped ==
    ASSUME TypeOK, NEW r \in Row, Insert(r) PROVE TypeOK'
<1> USE DEF TypeOK, Drop, store
<1>1. CASE BeginCommit(r)
  BY <1>1 DEF BeginCommit
<1>2. CASE Commit(r)
  BY <1>2 DEF Commit
<1>3. CASE Abort(r)
  BY <1>3, ProjectionAssumption DEF Abort
<1> QED
  BY <1>1, <1>2, <1>3 DEF Insert

(* A row that is written now carries an id above everything fenced.        *)
LEMMA InsertFenced ==
    ASSUME TypeOK, NEW r \in Row, Insert(r), NEW n \in Nat, Fenced(n)
    PROVE  /\ Fenced(n)'
           /\ \A q \in DOMAIN rows : q \in DOMAIN rows' /\ rows'[q] = rows[q]
           /\ \A q \in DOMAIN rows' \ DOMAIN rows : n < rows'[q]
<1> USE DEF TypeOK, Drop, Fenced
<1>1. CASE BeginCommit(r)
  BY <1>1 DEF BeginCommit
<1>2. CASE Commit(r)
  BY <1>2 DEF Commit
<1>3. CASE Abort(r)
  BY <1>3 DEF Abort
<1> QED
  BY <1>1, <1>2, <1>3 DEF Insert

LEMMA InsertRest ==
    ASSUME NEW r \in Row, Insert(r)
    PROVE  UNCHANGED <<setup, cursor, written, mirrored, tick>>
  BY DEF Insert, BeginCommit, Commit, Abort, store

LEMMA InsertSafe ==
    ASSUME TypeOK, NEW r \in Row, Insert(r), NEW c, Safe(c) PROVE Safe(c)'
<1>1. c \in Cursor /\ c.xid \in Nat /\ Fenced(c.xid)
  BY DEF Safe, Cursor
<1>2. /\ Fenced(c.xid)'
      /\ \A q \in DOMAIN rows : q \in DOMAIN rows' /\ rows'[q] = rows[q]
      /\ \A q \in DOMAIN rows' \ DOMAIN rows : c.xid < rows'[q]
  BY <1>1, InsertFenced
<1>3. TypeOK'
  BY InsertTyped
<1>4. ASSUME NEW q \in DOMAIN rows' PROVE (Before(c, CursorOf(q)) \/ Handled(q))'
  <2>1. CASE q \in DOMAIN rows
    <3>1. CursorOf(q)' = CursorOf(q)
      BY <1>2, <2>1 DEF CursorOf
    <3>2. Handled(q)' <=> Handled(q)
      BY InsertRest DEF Handled
    <3> QED
      BY <2>1, <3>1, <3>2 DEF Safe, Before
  <2>2. CASE q \notin DOMAIN rows
    <3>1. c.xid < rows'[q]
      BY <1>2, <2>2
    <3> QED
      BY <3>1 DEF CursorOf, Before
  <2> QED
    BY <2>1, <2>2
<1> QED
  BY <1>1, <1>2, <1>4 DEF Safe

LEMMA InsertPiece ==
    ASSUME TypeOK, NEW r \in Row, Insert(r), NEW B, NEW c \in Cursor, Piece(B, c)
    PROVE  Piece(B, c)'
<1>1. ASSUME NEW b \in B
      PROVE  /\ b \in DOMAIN rows'
             /\ rows'[b] = rows[b]
             /\ Fenced(rows[b])'
             /\ \A q \in DOMAIN rows : q \in DOMAIN rows' /\ rows'[q] = rows[q]
             /\ \A q \in DOMAIN rows' \ DOMAIN rows : rows[b] < rows'[q]
  <2>1. b \in DOMAIN rows /\ rows[b] \in Nat /\ Fenced(rows[b])
    BY DEF Piece, TypeOK
  <2> QED
    BY <2>1, InsertFenced
<1>2. ASSUME NEW b \in B, NEW q \in DOMAIN rows'
      PROVE  q \in B \/ ~Before(c, CursorOf(q)') \/ Before(CursorOf(b)', CursorOf(q)')
  <2>1. CASE q \in DOMAIN rows
    <3>1. CursorOf(q)' = CursorOf(q) /\ CursorOf(b)' = CursorOf(b)
      BY <1>1, <2>1 DEF CursorOf
    <3> QED
      BY <2>1, <3>1 DEF Piece
  <2>2. CASE q \notin DOMAIN rows
    BY <1>1, <2>2 DEF CursorOf, Before
  <2> QED
    BY <2>1, <2>2
<1>3. B \subseteq DOMAIN rows'
  BY <1>1
<1>4. ASSUME NEW b \in B PROVE Fenced(rows[b])'
  BY <1>1
<1> QED
  BY <1>1, <1>2, <1>3 DEF Piece, Before, CursorOf, Fenced

-----------------------------------------------------------------------------
(* The ticks.  They leave the journal alone, and only add to what is       *)
(* written, so what is safe stays safe.                                    *)

LEMMA TickLog == ASSUME NEW t \in Tickers, Tick(t) PROVE UNCHANGED <<setup, log>>
  BY DEF Tick, ReadCursor, Fetch, Stage, Project, Write, Mirror, Interrupt

LEMMA CreditGrows ==
    ASSUME TypeOK, NEW B \in SUBSET Row
    PROVE  /\ Credit(B) \in [Row -> Nat]
           /\ \A r \in Row : written[r] > 0 => Credit(B)[r] > 0
           /\ \A r \in B \cap Relevant : Credit(B)[r] > 0
<1>1. \A r \in Row : written[r] \in Nat
  BY DEF TypeOK
<1> QED
  BY <1>1 DEF Credit

Grows == \A r \in Row : written[r] > 0 => written'[r] > 0

LEMMA QuietSafe ==
    ASSUME TypeOK, UNCHANGED <<setup, log>>, Grows, NEW c, Safe(c) PROVE Safe(c)'
<1>1. ASSUME NEW r \in DOMAIN rows PROVE Before(c, CursorOf(r)') \/ Handled(r)'
  <2>1. r \in Row /\ CursorOf(r)' = CursorOf(r)
    BY DEF TypeOK, CursorOf, log
  <2>2. Handled(r) => Handled(r)'
    BY <2>1 DEF Handled, Grows
  <2> QED
    BY <2>1, <2>2 DEF Safe
<1> QED
  BY <1>1 DEF Safe, Fenced, log, Before, CursorOf

LEMMA QuietPiece ==
    ASSUME UNCHANGED <<setup, log>>, NEW B, NEW c, Piece(B, c) PROVE Piece(B, c)'
  BY DEF Piece, Fenced, Before, CursorOf, log

(* The frames that a step leaves alone stay sound.                         *)
LEMMA QuietSound ==
    ASSUME TypeOK, UNCHANGED <<setup, log>>, Grows, NEW f \in Frame, Sound(f)
    PROVE  Sound(f)'
<1>1. f.pc # "idle" => Safe(f.cursor)'
  BY QuietSafe DEF Sound
<1>2. f.pc \in {"stage", "project"} => Piece(f.batch, f.cursor)'
  BY QuietPiece DEF Sound
<1>3. f.batch \subseteq Row
  BY DEF Frame
<1> QED
  BY <1>1, <1>2, <1>3 DEF Sound, Grows, log

(* What each action makes of its own frame.                                *)
Moved(t, f) ==
    /\ tick' = [tick EXCEPT ![t] = f]
    /\ f \in Frame
    /\ Sound(f)'

LEMMA IdleSound == Idle \in Frame /\ Sound(Idle)'
  BY DEF Idle, Frame, Sound, Cursor, NoCursor

LEMMA ReadCursorMoves ==
    ASSUME Inv, NEW t \in Tickers, ReadCursor(t) PROVE \E f : Moved(t, f)
<1>1. PICK c : c = cursor
  OBVIOUS
<1>2. PICK f : f = [tick[t] EXCEPT !.pc = "fetch", !.cursor = c]
  OBVIOUS
<1>3. tick' = [tick EXCEPT ![t] = f]
  BY <1>1, <1>2 DEF ReadCursor
<1>4. tick[t] \in Frame /\ c \in Cursor
  BY <1>1 DEF Inv, TypeOK
<1>5. f \in Frame
  BY <1>2, <1>4, FrameTyped
<1>6. f.pc = "fetch" /\ f.cursor = c
  BY <1>2, <1>4 DEF Frame
<1>7. Safe(c) /\ UNCHANGED <<setup, log>> /\ TypeOK /\ Grows
  BY <1>1 DEF ReadCursor, Inv, store, Grows
<1>8. Safe(c)'
  BY <1>7, QuietSafe
<1>9. Sound(f)'
  BY <1>6, <1>8 DEF Sound
<1> QED
  BY <1>3, <1>5, <1>9 DEF Moved

LEMMA FetchMoves ==
    ASSUME Inv, NEW t \in Tickers, Fetch(t) PROVE \E f : Moved(t, f)
<1>1. CASE tick' = [tick EXCEPT ![t] = Idle]
  BY <1>1, IdleSound DEF Moved
<1>2. ASSUME NEW B \in SUBSET Readable(tick[t].cursor), IsBatch(B, Readable(tick[t].cursor)),
             tick' = [tick EXCEPT ![t].pc = "stage", ![t].batch = B]
      PROVE  \E f : Moved(t, f)
  <2>1. PICK c : c = tick[t].cursor
    OBVIOUS
  <2>2. PICK f : f = [tick[t] EXCEPT !.pc = "stage", !.batch = B]
    OBVIOUS
  <2>3. TypeOK /\ tick[t] \in Frame /\ c \in Cursor /\ Safe(c)
    BY <2>1 DEF Inv, TypeOK, Sound, Fetch, pc, Frame
  <2>4. tick' = [tick EXCEPT ![t] = f]
    BY <1>2, <2>2, <2>3 DEF TypeOK
  <2>5. B \subseteq DOMAIN rows /\ B \subseteq Row
    BY <2>3 DEF Readable, TypeOK
  <2>6. f \in Frame
    BY <2>2, <2>3, <2>5, FrameTyped
  <2>7. f.pc = "stage" /\ f.batch = B /\ f.cursor = c
    BY <2>1, <2>2, <2>3 DEF Frame
  <2>8. ASSUME NEW b \in B, NEW r \in DOMAIN rows
        PROVE  r \in B \/ ~Before(c, CursorOf(r)) \/ Before(CursorOf(b), CursorOf(r))
    <3>1. CASE r \in Readable(c)
      BY <1>2, <2>1, <3>1 DEF IsBatch
    <3>2. CASE Before(c, CursorOf(r)) /\ r \notin Readable(c)
      <4>1. rows[r] < next_xid
        BY <2>3 DEF TypeOK
      <4>2. PICK q \in DOMAIN open : ~(rows[r] < open[q])
        BY <3>2, <4>1 DEF Readable
      <4>3. rows[b] < open[q]
        BY <2>1, <4>2 DEF Readable
      <4>4. rows[b] \in Nat /\ rows[r] \in Nat /\ open[q] \in Nat
        BY <2>3, <2>5, <4>2 DEF TypeOK
      <4>5. rows[b] < rows[r]
        BY <4>2, <4>3, <4>4
      <4> QED
        BY <4>5 DEF CursorOf, Before
    <3> QED
      BY <3>1, <3>2
  <2>9. Piece(B, c)
    BY <2>1, <2>5, <2>8 DEF Piece, Fenced, Readable
  <2>10. UNCHANGED <<setup, log>> /\ Grows
    BY DEF Fetch, Grows, store
  <2>11. Safe(c)' /\ Piece(B, c)'
    BY <2>3, <2>9, <2>10, QuietSafe, QuietPiece
  <2>12. Sound(f)'
    BY <2>7, <2>11 DEF Sound
  <2> QED
    BY <2>4, <2>6, <2>12 DEF Moved
<1> QED
  BY <1>1, <1>2 DEF Fetch, Finish

LEMMA StageMoves ==
    ASSUME Inv, NEW t \in Tickers, Stage(t) PROVE \E f : Moved(t, f)
<1>1. CASE tick' = [tick EXCEPT ![t] = Idle]
  BY <1>1, IdleSound DEF Moved
<1>2. CASE ~Malformed(t) /\ Goto(t, "project")
  <2>1. PICK f : f = [tick[t] EXCEPT !.pc = "project"]
    OBVIOUS
  <2>2. PICK g : g = tick[t]
    OBVIOUS
  <2>3. TypeOK /\ g \in Frame /\ g.pc = "stage" /\ Sound(g)
    BY <2>2 DEF Inv, TypeOK, Stage, pc
  <2>4. UNCHANGED <<setup, log>> /\ Grows
    BY DEF Stage, Grows, store
  <2>5. Sound(g)'
    BY <2>3, <2>4, QuietSound, SMTT(30)
  <2>6. f \in Frame
    BY <2>1, <2>2, <2>3, FrameTyped
  <2>7. f.pc = "project" /\ f.batch = g.batch /\ f.cursor = g.cursor
    BY <2>1, <2>2, <2>3 DEF Frame
  <2>8. f.batch \cap setup'.poison = {}
    BY <1>2, <2>2, <2>4, <2>7 DEF Malformed
  <2>9. Sound(f)'
    BY <2>3, <2>5, <2>7, <2>8 DEF Sound
  <2>10. tick' = [tick EXCEPT ![t] = f]
    BY <1>2, <2>1 DEF Goto
  <2> QED
    BY <2>6, <2>9, <2>10 DEF Moved
<1> QED
  BY <1>1, <1>2 DEF Stage, Finish

LEMMA MirrorMoves ==
    ASSUME Inv, NEW t \in Tickers, Mirror(t) PROVE \E f : Moved(t, f)
<1>1. CASE tick' = [tick EXCEPT ![t] = Idle]
  BY <1>1, IdleSound DEF Moved
<1>2. ASSUME NEW r \in tick[t].batch, tick' = [tick EXCEPT ![t].batch = @ \ {r}]
      PROVE  \E f : Moved(t, f)
  <2>1. PICK g : g = tick[t]
    OBVIOUS
  <2>2. PICK f : f = [g EXCEPT !.batch = g.batch \ {r}]
    OBVIOUS
  <2>3. TypeOK /\ g \in Frame /\ g.pc = "mirror" /\ Sound(g)
    BY <2>1 DEF Inv, TypeOK, Mirror, pc
  <2>4. UNCHANGED <<setup, log>> /\ Grows
    BY DEF Mirror, Grows
  <2>5. Sound(g)'
    BY <2>3, <2>4, QuietSound
  <2>6. g.batch \ {r} \in SUBSET Row
    BY <2>3 DEF Frame
  <2>7. f \in Frame
    BY <2>2, <2>3, <2>6, FrameTyped
  <2>8. f.pc = "mirror" /\ f.batch = g.batch \ {r} /\ f.cursor = g.cursor
    BY <2>2, <2>3 DEF Frame
  <2>9. Sound(f)'
    BY <2>3, <2>5, <2>8 DEF Sound
  <2>10. tick' = [tick EXCEPT ![t] = f]
    BY <1>2, <2>1, <2>2, <2>3 DEF Inv, TypeOK
  <2> QED
    BY <2>7, <2>9, <2>10 DEF Moved
<1> QED
  BY <1>1, <1>2 DEF Mirror, Finish

(* The transaction: everything up to the last row of the batch is handled, *)
(* so the cursor may move there.                                           *)
LEMMA ProjectSafe ==
    ASSUME Inv, NEW t \in Tickers, Project(t), NEW last \in Row, IsLast(last, tick[t].batch)
    PROVE  /\ Grows
           /\ \A r \in tick[t].batch \cap Relevant : written'[r] > 0
           /\ \A c : c = CursorOf(last) => Safe(c)'
<1>1. PICK g : g = tick[t]
  OBVIOUS
<1>2. TypeOK /\ g \in Frame /\ g.pc = "project" /\ Sound(g) /\ last \in g.batch
  BY <1>1 DEF Inv, TypeOK, Project, pc, IsLast
<1>3. g.batch \in SUBSET Row
  BY <1>2 DEF Frame
<1>4. written' = Credit(g.batch) /\ UNCHANGED <<setup, log>>
  BY <1>1 DEF Project, Write
<1>5. Grows /\ \A r \in g.batch \cap Relevant : written'[r] > 0
  BY <1>2, <1>3, <1>4, CreditGrows DEF Grows
<1>6. Sound(g)'
  BY <1>2, <1>4, <1>5, QuietSound
<1>7. Safe(g.cursor)' /\ Piece(g.batch, g.cursor)' /\ g.batch \cap setup'.poison = {}
  BY <1>2, <1>6 DEF Sound
<1>8. ASSUME NEW c, c = CursorOf(last) PROVE Safe(c)'
  <2>1. last \in DOMAIN rows /\ c \in Cursor
    BY <1>2, <1>8, CursorTyped DEF Sound, Piece
  <2>2. c.xid = rows'[last] /\ c = CursorOf(last)'
    BY <1>4, <1>8 DEF CursorOf, log
  <2>3. Fenced(c.xid)'
    BY <1>2, <1>7, <2>2 DEF Piece, Fenced
  <2>4. ASSUME NEW r \in DOMAIN rows' PROVE Before(c, CursorOf(r)') \/ Handled(r)'
    <3>1. CASE r \in g.batch
      BY <1>5, <1>7, <3>1 DEF Handled
    <3>2. CASE ~Before(g.cursor, CursorOf(r)')
      BY <1>7, <3>2 DEF Safe, Before
    <3>3. CASE Before(c, CursorOf(r)')
      BY <3>3
    <3>4. r \in g.batch \/ ~Before(g.cursor, CursorOf(r)') \/ Before(c, CursorOf(r)')
      BY <1>2, <1>7, <2>2 DEF Piece, Before
    <3> QED
      BY <3>1, <3>2, <3>3, <3>4
  <2> QED
    BY <2>1, <2>3, <2>4 DEF Safe, Before
<1> QED
  BY <1>1, <1>5, <1>8

LEMMA ProjectMoves ==
    ASSUME Inv, NEW t \in Tickers, Project(t)
    PROVE  /\ Safe(cursor)' /\ Grows
           /\ \E f : Moved(t, f)
<1>1. PICK last \in Row :
        /\ IsLast(last, tick[t].batch)
        /\ cursor' = IF Supersedes(CursorOf(last), cursor) THEN CursorOf(last) ELSE cursor
  BY DEF Project
<1>2. /\ Grows
      /\ \A r \in tick[t].batch \cap Relevant : written'[r] > 0
      /\ \A c : c = CursorOf(last) => Safe(c)'
  BY <1>1, ProjectSafe
<1>3. UNCHANGED <<setup, log>> /\ TypeOK /\ tick[t] \in Frame
  BY DEF Project, Write, Inv, TypeOK
<1>4. Safe(cursor)'
  <2>1. PICK c : c = cursor'
    OBVIOUS
  <2>2. Safe(c)'
    <3>1. CASE c = CursorOf(last)
      BY <1>2, <3>1
    <3>2. CASE c = cursor
      BY <1>2, <1>3, <3>2, QuietSafe DEF Inv
    <3> QED
      BY <1>1, <2>1, <3>1, <3>2
  <2> QED
    BY <2>1, <2>2 DEF Safe
<1>5. CASE tick' = [tick EXCEPT ![t] = Idle]
  BY <1>2, <1>4, <1>5, IdleSound DEF Moved
<1>6. CASE Goto(t, "mirror")
  <2>1. PICK g : g = tick[t]
    OBVIOUS
  <2>2. PICK f : f = [g EXCEPT !.pc = "mirror"]
    OBVIOUS
  <2>3. Sound(g) /\ g.pc = "project" /\ g \in Frame
    BY <1>3, <2>1 DEF Inv, Project, pc
  <2>4. Sound(g)'
    BY <1>2, <1>3, <2>3, QuietSound
  <2>5. f.pc = "mirror" /\ f.batch = g.batch /\ f.cursor = g.cursor
    BY <2>2, <2>3 DEF Frame
  <2>6. f \in Frame
    BY <2>2, <2>3, FrameTyped
  <2>7. Sound(f)'
    BY <1>2, <2>1, <2>3, <2>4, <2>5 DEF Sound
  <2>8. tick' = [tick EXCEPT ![t] = f]
    BY <1>6, <2>1, <2>2 DEF Goto
  <2> QED
    BY <1>2, <1>4, <2>6, <2>7, <2>8 DEF Moved
<1> QED
  BY <1>5, <1>6 DEF Project, Write, Finish

-----------------------------------------------------------------------------
(* The invariant. *)

LEMMA InitInv == Init => Inv
<1> SUFFICES ASSUME Init PROVE Inv
  OBVIOUS
<1>1. Idle \in Frame /\ NoCursor \in Cursor
  BY DEF Idle, Frame, Cursor, NoCursor
<1>2. TypeOK
  BY <1>1, ProjectionAssumption DEF Init, TypeOK
<1>3. \A r \in DOMAIN rows : Before(NoCursor, CursorOf(r))
  BY DEF Init, Before, CursorOf, NoCursor
<1>4. Safe(cursor)
  BY <1>1, <1>3 DEF Init, Safe, Fenced, NoCursor
<1>5. \A t \in Tickers : Sound(tick[t])
  BY DEF Init, Idle, Sound
<1>6. MirrorAfterClaims
  BY DEF Init, MirrorAfterClaims
<1> QED
  BY <1>2, <1>4, <1>5, <1>6 DEF Inv

LEMMA InsertInv == ASSUME Inv, NEW r \in Row, Insert(r) PROVE Inv'
<1>1. TypeOK' /\ UNCHANGED <<setup, cursor, written, mirrored, tick>>
  BY InsertTyped, InsertRest DEF Inv
<1>2. Safe(cursor)'
  <2>1. PICK c : c = cursor
    OBVIOUS
  <2>2. Safe(c)'
    BY <2>1, InsertSafe DEF Inv
  <2> QED
    BY <1>1, <2>1, <2>2 DEF Safe
<1>3. ASSUME NEW t \in Tickers PROVE Sound(tick[t])'
  <2>1. PICK f : f = tick[t]
    OBVIOUS
  <2>2. Sound(f) /\ f \in Frame /\ TypeOK
    BY <2>1 DEF Inv, TypeOK
  <2>3. f.pc # "idle" => Safe(f.cursor)'
    BY <2>2, InsertSafe DEF Sound
  <2>4. f.pc \in {"stage", "project"} => Piece(f.batch, f.cursor)'
    BY <2>2, InsertPiece DEF Sound, Frame
  <2>5. Sound(f)'
    BY <1>1, <2>2, <2>3, <2>4 DEF Sound
  <2> QED
    BY <1>1, <2>1, <2>5 DEF Sound
<1>4. MirrorAfterClaims'
  BY <1>1 DEF Inv, MirrorAfterClaims
<1> QED
  BY <1>1, <1>2, <1>3, <1>4 DEF Inv

(* A tick's frame becomes sound, and the others stay so.                   *)
LEMMA TickInv == ASSUME Inv, NEW t \in Tickers, Tick(t) PROVE Inv'
<1>1. \E f : Moved(t, f)
  <2>1. Interrupt(t) => \E f : Moved(t, f)
    BY IdleSound DEF Interrupt, Finish, Moved
  <2> QED
    BY <2>1, ReadCursorMoves, FetchMoves, StageMoves, ProjectMoves, MirrorMoves DEF Tick
<1>2. UNCHANGED <<setup, log>> /\ TypeOK
  BY TickLog DEF Inv
<1>3. Grows /\ written' \in [Row -> Nat]
  <2>1. CASE Project(t)
    <3>1. tick[t].batch \in SUBSET Row
      BY <1>2 DEF TypeOK, Frame
    <3> QED
      BY <1>2, <2>1, <3>1, CreditGrows, ProjectMoves DEF Project, Write
  <2>2. CASE UNCHANGED written
    BY <1>2, <2>2 DEF Grows, TypeOK
  <2> QED
    BY <2>1, <2>2 DEF Tick, ReadCursor, Fetch, Stage, Mirror, Interrupt, store
<1>4. Safe(cursor)'
  <2>1. CASE Project(t)
    BY <2>1, ProjectMoves
  <2>2. CASE UNCHANGED cursor
    <3>1. PICK c : c = cursor
      OBVIOUS
    <3>2. Safe(c)'
      BY <1>2, <1>3, <3>1, QuietSafe DEF Inv
    <3> QED
      BY <2>2, <3>1, <3>2 DEF Safe
  <2> QED
    BY <2>1, <2>2 DEF Tick, ReadCursor, Fetch, Stage, Mirror, Interrupt, store
<1>5. ASSUME NEW u \in Tickers PROVE Sound(tick[u])' /\ tick'[u] \in Frame
  <2>1. PICK f : Moved(t, f)
    BY <1>1
  <2>2. CASE u = t
    <3>1. tick'[u] = f
      BY <1>2, <2>1, <2>2 DEF Moved, TypeOK
    <3> QED
      BY <2>1, <3>1 DEF Moved, Sound
  <2>3. CASE u # t
    <3>1. PICK g : g = tick[u]
      OBVIOUS
    <3>2. tick'[u] = g /\ g \in Frame /\ Sound(g)
      BY <1>2, <2>1, <2>3, <3>1 DEF Moved, TypeOK, Inv
    <3>3. Sound(g)'
      BY <1>2, <1>3, <3>2, QuietSound
    <3> QED
      BY <3>2, <3>3 DEF Sound
  <2> QED
    BY <2>2, <2>3
<1>6. MirrorAfterClaims' /\ mirrored' \subseteq Row
  <2>1. CASE UNCHANGED mirrored
    BY <1>2, <1>3, <2>1 DEF Inv, MirrorAfterClaims, Grows, TypeOK
  <2>2. ASSUME NEW r \in tick[t].batch, mirrored' = mirrored \cup ({r} \cap Relevant),
               UNCHANGED written, pc(t) = "mirror"
        PROVE  MirrorAfterClaims' /\ mirrored' \subseteq Row
    <3>1. r \in Relevant => written[r] > 0
      BY <2>2 DEF Inv, Sound, pc
    <3>2. tick[t].batch \subseteq Row
      BY <1>2 DEF TypeOK, Frame
    <3> QED
      BY <1>2, <2>2, <3>1, <3>2 DEF Inv, MirrorAfterClaims, TypeOK
  <2> QED
    BY <2>1, <2>2 DEF Tick, ReadCursor, Fetch, Stage, Project, Write, Mirror, Interrupt, store
<1>7. TypeOK'
  <2>1. tick' \in [Tickers -> Frame]
    <3>1. DOMAIN tick' = Tickers /\ tick' = [u \in Tickers |-> tick'[u]]
      BY <1>1, <1>2 DEF Moved, TypeOK
    <3> QED
      BY <1>5, <3>1
  <2>2. cursor' \in Cursor
    BY <1>4 DEF Safe
  <2> QED
    BY <1>2, <1>3, <1>6, <2>1, <2>2 DEF TypeOK, log
<1> QED
  BY <1>4, <1>5, <1>6, <1>7 DEF Inv

LEMMA StepInv == Inv /\ [Next]_vars => Inv'
<1> SUFFICES ASSUME Inv, [Next]_vars PROVE Inv'
  OBVIOUS
<1>1. CASE UNCHANGED vars
  BY <1>1 DEF vars, log, store, Inv, TypeOK, Safe, Fenced, Sound, Piece, Handled, Before,
              CursorOf, MirrorAfterClaims
<1>2. CASE \E r \in Row : Insert(r)
  BY <1>2, InsertInv
<1>3. CASE \E t \in Tickers : Tick(t)
  BY <1>3, TickInv
<1> QED
  BY <1>1, <1>2, <1>3 DEF Next

LEMMA Invariance == Spec => []Inv
  BY InitInv, StepInv, PTL DEF Spec

-----------------------------------------------------------------------------
(* The theorems. *)

(* Whatever order the journal's transactions commit in and whichever ticks *)
(* race or die, no committed row at or behind the stored cursor is missing *)
(* from the store: the fence of committed_steps_after is enough.           *)
THEOREM NothingIsSkipped == Spec => []NothingSkipped
<1>1. Inv => NothingSkipped
  BY DEF Inv, Safe, Handled, NothingSkipped
<1> QED
  BY <1>1, Invariance, PTL

(* A malformed stamp stops every consumer in front of it, for good.        *)
THEOREM PoisonIsNeverPassed == Spec => []PoisonStops
<1>1. Inv => PoisonStops
  BY DEF Inv, Safe, Handled, PoisonStops
<1> QED
  BY <1>1, Invariance, PTL

(* What is in the latent store was projected before it.                    *)
THEOREM LatentFollowsClaims == Spec => []MirrorAfterClaims
<1>1. Inv => MirrorAfterClaims
  BY DEF Inv
<1> QED
  BY <1>1, Invariance, PTL

(* The cursor of a Neo4j store never moves back.                           *)
THEOREM CursorOnlyAdvances == Spec => CursorAdvances
<1>1. ASSUME Inv, [Next]_vars, setup.kind # "episodes" PROVE ~Before(cursor', cursor)
  <2>1. cursor \in Cursor
    BY <1>1 DEF Inv, TypeOK
  <2>2. CASE cursor' = cursor
    BY <2>1, <2>2 DEF Before, Cursor
  <2>3. ASSUME NEW c \in Cursor, cursor' = c, Supersedes(c, cursor)
        PROVE  ~Before(cursor', cursor)
    BY <1>1, <2>1, <2>3 DEF Supersedes, Before, Cursor, NoCursor
  <2>4. ASSUME NEW t \in Tickers, Project(t)
        PROVE  ~Before(cursor', cursor)
    <3>1. cursor' \in Cursor
      BY <1>1, <2>4, ProjectMoves DEF Safe
    <3> QED
      BY <2>2, <2>3, <2>4, <3>1 DEF Project
  <2> QED
    BY <1>1, <2>2, <2>4 DEF Next, Insert, BeginCommit, Commit, Abort, Tick, ReadCursor, Fetch,
       Stage, Mirror, Interrupt, store, vars
<1>2. Inv /\ [Next]_vars => [setup.kind # "episodes" => ~Before(cursor', cursor)]_vars
  BY <1>1
<1> QED
  BY <1>2, Invariance, PTL DEF Spec, CursorAdvances

-----------------------------------------------------------------------------
(* Counting.  What a lone ticker has read is what is stored until it       *)
(* projects: its batch is ahead of the cursor, and everything written is   *)
(* behind it.                                                              *)

Alone == ~Merges /\ setup.kind \in Solo

OneTicks == \A t, u \in Tickers : pc(t) # "idle" /\ pc(u) # "idle" => t = u

Ahead(f) ==
    /\ f.pc \in {"fetch", "stage", "project"} => f.cursor = cursor
    /\ f.pc \in {"stage", "project"} => \A b \in f.batch : Before(cursor, CursorOf(b))

Behind == \A r \in Row : written[r] > 0 => r \in DOMAIN rows /\ ~Before(cursor, CursorOf(r))

Counted ==
    /\ Alone => OneTicks /\ Behind /\ \A t \in Tickers : Ahead(tick[t])
    /\ CountedOnce

LEMMA Ordered ==
    ASSUME NEW a \in Cursor, NEW b \in Cursor, NEW c \in Cursor
    PROVE  /\ Before(a, b) => ~Before(b, a)
           /\ Before(a, b) /\ Before(b, c) => Before(a, c)
           /\ a = b \/ Before(a, b) \/ Before(b, a)
  BY DEF Before, Cursor

LEMMA InitCounted == Init => Counted
  BY DEF Init, Counted, OneTicks, Behind, Ahead, CountedOnce, Idle, pc

LEMMA InsertCounted == ASSUME Inv, Counted, NEW r \in Row, Insert(r) PROVE Counted'
<1>1. UNCHANGED <<setup, cursor, written, tick>>
  BY InsertRest
<1>2. \A q \in DOMAIN rows : q \in DOMAIN rows' /\ CursorOf(q)' = CursorOf(q)
  BY DEF Insert, BeginCommit, Commit, Abort, CursorOf, Inv, TypeOK
<1>3. Alone => Behind'
  BY <1>1, <1>2 DEF Counted, Behind, Before
<1>4. ASSUME Alone, NEW t \in Tickers PROVE Ahead(tick[t])'
  <2>1. Ahead(tick[t]) /\ Sound(tick[t])
    BY <1>4 DEF Counted, Inv
  <2>2. pc(t) \in {"stage", "project"} => tick[t].batch \subseteq DOMAIN rows
    BY <2>1 DEF Sound, Piece, pc
  <2> QED
    BY <1>1, <1>2, <2>1, <2>2 DEF Ahead, Before, pc
<1> QED
  BY <1>1, <1>3, <1>4 DEF Counted, Alone, Merges, OneTicks, CountedOnce, pc

(* A tick that writes nothing.                                             *)
LEMMA QuietCounted ==
    ASSUME Inv, Counted, NEW t \in Tickers, NEW f, tick' = [tick EXCEPT ![t] = f],
           UNCHANGED <<setup, log, cursor, written>>,
           Alone => Ahead(f)',
           Alone /\ f.pc # "idle" => \A u \in Tickers : u # t => pc(u) = "idle"
    PROVE  Counted'
<1>1. \A u \in Tickers : tick'[u] = IF u = t THEN f ELSE tick[u]
  BY DEF Inv, TypeOK
<1>2. Alone => OneTicks'
  BY <1>1 DEF Counted, OneTicks, pc
<1>3. ASSUME Alone, NEW u \in Tickers PROVE Ahead(tick[u])'
  BY <1>1, <1>3 DEF Counted, Ahead, Before, CursorOf, log
<1>4. Alone => Behind'
  BY DEF Counted, Behind, Before, CursorOf, log
<1> QED
  BY <1>2, <1>3, <1>4 DEF Counted, Alone, Merges, CountedOnce

(* What a batch adds is new, and is behind the cursor it moves.            *)
LEMMA ProjectCounted == ASSUME Inv, Counted, NEW t \in Tickers, Project(t) PROVE Counted'
<1>1. PICK last \in Row :
        /\ IsLast(last, tick[t].batch)
        /\ cursor' = IF Supersedes(CursorOf(last), cursor) THEN CursorOf(last) ELSE cursor
  BY DEF Project
<1> DEFINE B == tick[t].batch
<1>2. /\ written' = Credit(B) /\ UNCHANGED <<setup, log>> /\ pc(t) = "project"
      /\ TypeOK /\ B \subseteq Row /\ B \subseteq DOMAIN rows
  BY DEF Project, Write, Inv, TypeOK, Frame, Sound, Piece, pc
<1>3. CASE ~Alone
  <2>1. Merges => \A r \in Row : written'[r] <= 1
    BY <1>2 DEF Credit, Counted, CountedOnce
  <2> QED
    BY <1>2, <1>3, <2>1 DEF Alone, Merges, Counted, CountedOnce
<1>4. CASE Alone
  <2>1. \A u \in Tickers : u # t => pc(u) = "idle"
    BY <1>2, <1>4 DEF Counted, OneTicks
  <2>2. cursor \in Cursor /\ \A r \in DOMAIN rows : r \in Row /\ CursorOf(r) \in Cursor
    BY <1>2, CursorTyped DEF TypeOK
  <2>3. \A b \in B : Before(cursor, CursorOf(b))
    BY <1>2, <1>4 DEF Counted, Ahead, pc
  <2>4. last \in B /\ last \in DOMAIN rows /\ cursor' = CursorOf(last)
    BY <1>1, <1>2, <1>4, <2>3 DEF IsLast, Supersedes, Alone, Merges
  <2>5. \A b \in B : ~Before(CursorOf(last), CursorOf(b))
    <3> SUFFICES ASSUME NEW b \in B PROVE ~Before(CursorOf(last), CursorOf(b))
      OBVIOUS
    <3>1. b = last \/ Before(CursorOf(b), CursorOf(last))
      BY <1>1 DEF IsLast
    <3>2. CursorOf(b) \in Cursor /\ CursorOf(last) \in Cursor
      BY <1>2, <2>2, <2>4
    <3> QED
      BY <3>1, <3>2, Ordered
  <2>6. \A r \in DOMAIN rows : ~Before(cursor, CursorOf(r)) => ~Before(CursorOf(last), CursorOf(r))
    BY <2>2, <2>3, <2>4, Ordered
  <2>7. ASSUME NEW r \in Row
        PROVE  /\ written'[r] <= 1
               /\ written'[r] > 0 => r \in DOMAIN rows /\ ~Before(CursorOf(last), CursorOf(r))
    <3>1. written[r] \in Nat /\ written[r] <= 1
      BY <1>2, <1>4 DEF TypeOK, Counted, CountedOnce, Alone
    <3>2. r \in B => written[r] = 0
      BY <1>4, <2>3, <3>1 DEF Counted, Behind
    <3>3. CASE r \in B \cap Relevant
      <4>1. written'[r] = 1
        BY <1>2, <1>4, <3>2, <3>3 DEF Credit, Alone
      <4> QED
        BY <1>2, <2>5, <3>3, <4>1
    <3>4. CASE r \notin B \cap Relevant
      <4>1. written'[r] = written[r]
        BY <1>2, <3>4 DEF Credit
      <4> QED
        BY <1>4, <2>6, <3>1, <4>1 DEF Counted, Behind
    <3> QED
      BY <3>3, <3>4
  <2>8. Behind'
    BY <1>2, <2>4, <2>7 DEF Behind, CursorOf, log, Before
  <2>9. \A u \in Tickers : tick'[u].pc \in {"idle", "mirror"} /\ (u # t => tick'[u].pc = "idle")
    <3>1. tick[t] \in Frame /\ tick \in [Tickers -> Frame] /\ Idle.pc = "idle"
      BY <1>2 DEF TypeOK, Idle
    <3>2. tick'[t].pc \in {"idle", "mirror"} /\ \A u \in Tickers : u # t => tick'[u] = tick[u]
      BY <3>1 DEF Project, Write, Goto, Finish, Frame
    <3> QED
      BY <2>1, <3>2 DEF pc
  <2> QED
    BY <1>2, <2>7, <2>8, <2>9 DEF Counted, OneTicks, Ahead, CountedOnce, Alone, Merges, pc
<1> QED
  BY <1>3, <1>4

LEMMA TickCounted == ASSUME Inv, Counted, NEW t \in Tickers, Tick(t) PROVE Counted'
<1>1. tick \in [Tickers -> Frame] /\ tick[t] \in Frame /\ Idle.pc = "idle"
  BY DEF Inv, TypeOK, Idle
<1>2. Alone /\ pc(t) # "idle" => \A u \in Tickers : u # t => pc(u) = "idle"
  BY DEF Counted, OneTicks
<1>3. ASSUME Finish(t), UNCHANGED <<setup, log, cursor, written>> PROVE Counted'
  <2>1. tick' = [tick EXCEPT ![t] = Idle] /\ Ahead(Idle)'
    BY <1>1, <1>3 DEF Finish, Ahead
  <2> QED
    BY <1>1, <1>3, <2>1, QuietCounted
<1>4. CASE ReadCursor(t)
  <2>1. PICK f : f = [tick[t] EXCEPT !.pc = "fetch", !.cursor = cursor]
    OBVIOUS
  <2>2. tick' = [tick EXCEPT ![t] = f] /\ UNCHANGED <<setup, log, cursor, written>>
    BY <1>1, <1>4, <2>1 DEF ReadCursor, store
  <2>3. f.pc = "fetch" /\ f.cursor = cursor
    BY <1>1, <2>1 DEF Frame
  <2>4. Ahead(f)'
    BY <2>2, <2>3 DEF Ahead
  <2>5. Alone => \A u \in Tickers : u # t => pc(u) = "idle"
    BY <1>4 DEF ReadCursor, Alone
  <2> QED
    BY <2>2, <2>4, <2>5, QuietCounted
<1>5. CASE Fetch(t)
  <2>1. ASSUME NEW B \in SUBSET Readable(tick[t].cursor),
               tick' = [tick EXCEPT ![t].pc = "stage", ![t].batch = B]
        PROVE  Counted'
    <3>1. PICK f : f = [tick[t] EXCEPT !.pc = "stage", !.batch = B]
      OBVIOUS
    <3>2. /\ tick' = [tick EXCEPT ![t] = f] /\ UNCHANGED <<setup, log, cursor, written>>
          /\ pc(t) = "fetch"
      BY <1>1, <1>5, <2>1, <3>1 DEF Fetch, store
    <3>3. f.pc = "stage" /\ f.cursor = tick[t].cursor /\ f.batch = B
      BY <1>1, <3>1 DEF Frame
    <3>4. Alone => f.cursor = cursor /\ \A b \in B : Before(cursor, CursorOf(b))
      BY <3>2, <3>3 DEF Counted, Ahead, Readable, pc
    <3>5. Alone => Ahead(f)'
      BY <3>2, <3>3, <3>4 DEF Ahead, Before, CursorOf, log
    <3> QED
      BY <1>2, <3>2, <3>5, QuietCounted
  <2> QED
    BY <1>3, <1>5, <2>1 DEF Fetch, store
<1>6. CASE Stage(t)
  <2>1. CASE Goto(t, "project")
    <3>1. PICK f : f = [tick[t] EXCEPT !.pc = "project"]
      OBVIOUS
    <3>2. /\ tick' = [tick EXCEPT ![t] = f] /\ UNCHANGED <<setup, log, cursor, written>>
          /\ pc(t) = "stage"
      BY <1>6, <2>1, <3>1 DEF Stage, Goto, store
    <3>3. f.pc = "project" /\ f.cursor = tick[t].cursor /\ f.batch = tick[t].batch
      BY <1>1, <3>1 DEF Frame
    <3>4. Alone => Ahead(f)'
      BY <3>2, <3>3 DEF Counted, Ahead, Before, CursorOf, log, pc
    <3> QED
      BY <1>2, <3>2, <3>4, QuietCounted
  <2> QED
    BY <1>3, <1>6, <2>1 DEF Stage, store
<1>7. CASE Mirror(t)
  <2>1. ASSUME NEW r \in tick[t].batch, tick' = [tick EXCEPT ![t].batch = @ \ {r}]
        PROVE  Counted'
    <3>1. PICK f : f = [tick[t] EXCEPT !.batch = @ \ {r}]
      OBVIOUS
    <3>2. /\ tick' = [tick EXCEPT ![t] = f] /\ UNCHANGED <<setup, log, cursor, written>>
          /\ pc(t) = "mirror"
      BY <1>1, <1>7, <2>1, <3>1 DEF Mirror
    <3>3. f.pc = "mirror"
      BY <1>1, <3>1, <3>2 DEF Frame, pc
    <3>4. Ahead(f)'
      BY <3>3 DEF Ahead
    <3> QED
      BY <1>2, <3>2, <3>4, QuietCounted
  <2> QED
    BY <1>3, <1>7, <2>1 DEF Mirror
<1>8. CASE Interrupt(t)
  BY <1>3, <1>8 DEF Interrupt, store
<1> QED
  BY <1>4, <1>5, <1>6, <1>7, <1>8, ProjectCounted DEF Tick

(* Crashes and racing ticks write nothing twice: what a merging consumer   *)
(* projects is there once, and the evidence of a row is created once when  *)
(* one ticker at a time ticks for it, wherever that ticker dies and        *)
(* whatever the journal's writers do meanwhile.                            *)
THEOREM NothingCountsTwice == Spec => []CountedOnce
<1>1. ASSUME Inv, Counted, [Next]_vars PROVE Counted'
  <2>1. CASE UNCHANGED vars
    BY <1>1, <2>1 DEF vars, log, store, Counted, Alone, Merges, OneTicks, Behind, Ahead, CountedOnce,
       Before, CursorOf, pc
  <2> QED
    BY <1>1, <2>1, InsertCounted, TickCounted DEF Next
<1>2. Inv /\ Counted /\ [Next]_vars => Counted'
  BY <1>1
<1>3. Counted => CountedOnce
  BY DEF Counted
<1> QED
  BY <1>2, <1>3, InitCounted, Invariance, PTL DEF Spec

=============================================================================
