-------------------------- MODULE CoherenceProofs ---------------------------
(***************************************************************************)
(* No write is lost to the reconciler, for any number of subjects, claims, *)
(* writers, rules, oracles and stores.                                     *)
(*                                                                         *)
(* The argument is one of epochs.  While a subject's mark has the epoch    *)
(* that was claimed, what the pass has read of it is what there is; every  *)
(* write, the promoter's own included, moves the epoch on, and only the    *)
(* one reconciler moves it back, when it drops the mark.  The evidence     *)
(* that a promotion copies marks nothing: it is covered by the mark of the *)
(* claim minted a step before, whose epoch is past any that was claimed.   *)
(*                                                                         *)
(* Every opposed pair among the claims a pass read is followed through its *)
(* search, to its commit, and each round of the search to what it decided. *)
(***************************************************************************)
EXTENDS Coherence, FiniteSetTheorems, TLAPS

TickFields == {"pc", "batch", "read", "working", "found", "defeats", "rounds", "todo", "moving"}
ClaimFields == {"evidence", "level", "since", "until", "defeated_by"}
Entry == [key : Key, mark : Mark]
Places == 1..Len(tick.batch)

GraphShape ==
    /\ DOMAIN claims = Claim /\ \A c \in Claim : DOMAIN claims[c] = ClaimFields
    /\ DOMAIN seen = Claim /\ DOMAIN fate = Key /\ DOMAIN last = Key

(* A subject is in the queue once.                                         *)
QueueShape ==
    /\ marks \in [Key -> Mark]
    /\ order \in Seq(Key)
    /\ \A i, j \in 1..Len(order) : order[i] = order[j] => i = j

(* Of a subject that is still to be processed, the claimed epoch is not    *)
(* ahead of the mark's.                                                    *)
TickShape ==
    /\ DOMAIN tick = TickFields
    /\ tick.batch \in Seq(Entry)
    /\ tick.pc # "idle" => tick.batch # <<>>
    /\ \A i, j \in Places : tick.batch[i].key = tick.batch[j].key => i = j
    /\ \A i \in Places : tick.batch[i].mark.epoch <= marks[tick.batch[i].key].epoch

Full(c) == claims[c].evidence \cup {Promoter} \subseteq claims[InWorld(c)].evidence

(* What a pass knows, as long as its subject's epoch is the one claimed.   *)
Examining == {"search", "promote", "assert", "copy", "commit"}
PassRead ==
    tick.pc \in Examining =>
        /\ DOMAIN tick.read \subseteq ClaimsOf(K)
        /\ tick.todo \subseteq ClaimsOf(K)
        /\ tick.pc = "commit" => tick.todo = {}
        /\ \A c \in DOMAIN tick.read : tick.read[c].evidence \subseteq claims[c].evidence
        /\ marks[K].epoch = Subject.mark.epoch =>
             \A c \in ClaimsOf(K) :
                /\ claims[c].evidence = IF c \in DOMAIN tick.read THEN tick.read[c].evidence ELSE {}
                /\ K.scope = "agent" /\ Active(c) /\ Qualifies(c) => c \in tick.todo \/ Full(c)

(* Between its two writes a promotion's target is marked past any claim.   *)
Moving ==
    /\ tick.pc \in {"assert", "copy"} => tick.moving \in ClaimsOf(K)
    /\ tick.pc = "copy" =>
           LET w == InWorld(tick.moving) IN
           /\ Promoter \in claims[w].evidence /\ Dirty(w.key)
           /\ \A i \in Places :
                 tick.batch[i].key = w.key => tick.batch[i].mark.epoch < marks[w.key].epoch

Behind == \A c \in Claim : seen[c] \subseteq claims[c].evidence

Shape == config \in Configs /\ GraphShape /\ QueueShape /\ TickShape
Inv == /\ Shape /\ PassRead /\ Moving
       /\ Behind /\ Settled /\ PromotedInFull

-----------------------------------------------------------------------------
(* Claims and the queue. *)

LEMMA InWorldIs ==
    ASSUME NEW c \in Claim
    PROVE  /\ InWorld(c) \in Claim
           /\ InWorld(c).key = [scope |-> "world", subject |-> c.key.subject]
           /\ InWorld(c).content = c.content
BY DEF InWorld, Claim, Key

(* Leaving the queue: every other subject stays in it, once.               *)
LEMMA Removal ==
    ASSUME QueueShape, NEW k \in Key
    PROVE  /\ Without(k) \in Seq(Key)
           /\ \A i \in 1..Len(Without(k)) : Without(k)[i] # k
           /\ \A i, j \in 1..Len(Without(k)) : Without(k)[i] = Without(k)[j] => i = j
<1>1. CASE \A i \in 1..Len(order) : order[i] # k
  BY <1>1 DEF Without, QueueShape
<1>2. CASE ~(\A i \in 1..Len(order) : order[i] # k)
  <2> DEFINE n == Len(order)
             p == At(k)
             rest == [i \in 1..n - 1 |-> IF i < p THEN order[i] ELSE order[i + 1]]
  <2>1. n \in Nat /\ order \in [1..n -> Key]
    BY DEF QueueShape
  <2>2. p \in 1..n /\ order[p] = k
    BY <1>2 DEF At
  <2>3. n - 1 \in Nat /\ \A i \in 1..n - 1 : i \in 1..n /\ i + 1 \in 1..n /\ i # p => i < p \/ i > p
    BY <2>1, <2>2
  <2>4. rest \in [1..n - 1 -> Key]
    BY <2>1, <2>3
  <2>5. rest \in Seq(Key) /\ Len(rest) = n - 1
    BY <2>3, <2>4
  <2>6. ASSUME NEW i \in 1..n - 1 PROVE rest[i] # k
    <3>1. CASE i < p
      BY <3>1, <2>1, <2>2, <2>3 DEF QueueShape
    <3>2. CASE ~(i < p)
      <4>1. i + 1 # p /\ i + 1 \in 1..n /\ rest[i] = order[i + 1]
        BY <3>2, <2>1, <2>2, <2>3
      <4> QED BY <4>1, <2>2 DEF QueueShape
    <3> QED BY <3>1, <3>2
  <2>7. ASSUME NEW i \in 1..n - 1, NEW j \in 1..n - 1, rest[i] = rest[j] PROVE i = j
    <3> DEFINE f(x) == IF x < p THEN x ELSE x + 1
    <3>1. f(i) \in 1..n /\ f(j) \in 1..n /\ order[f(i)] = order[f(j)]
      BY <2>7, <2>3
    <3>2. f(i) = f(j)
      BY <3>1 DEF QueueShape
    <3> QED BY <3>2, <2>1, <2>2
  <2>8. Without(k) = rest
    BY <1>2 DEF Without
  <2> HIDE DEF rest
  <2> QED BY <2>5, <2>6, <2>7, <2>8
<1> QED BY <1>1, <1>2

(* What a write's mark does to the queue.                                  *)
LEMMA Marked ==
    ASSUME QueueShape, NEW k \in Key, MarkDirty(k)
    PROVE  /\ QueueShape'
           /\ Dirty(k)' /\ marks'[k].epoch = marks[k].epoch + 1
           /\ \A j \in Key : j # k => marks'[j] = marks[j]
<1> DEFINE w == Without(k)
<1>1. /\ w \in Seq(Key)
      /\ \A i \in 1..Len(w) : w[i] # k
      /\ \A i, j \in 1..Len(w) : w[i] = w[j] => i = j
  BY Removal
<1>2. marks' \in [Key -> Mark] /\ marks'[k].epoch = marks[k].epoch + 1 /\ Dirty(k)'
  BY DEF MarkDirty, QueueShape, Mark, Dirty
<1>3. order' = Append(w, k)
  BY DEF MarkDirty
<1> HIDE DEF w
<1>4. order' \in Seq(Key) /\ \A i, j \in 1..Len(order') : order'[i] = order'[j] => i = j
  BY <1>1, <1>3
<1>5. \A j \in Key : j # k => marks'[j] = marks[j]
  BY DEF MarkDirty, QueueShape
<1> QED BY <1>2, <1>4, <1>5 DEF QueueShape

(* What the removal of a mark does.                                        *)
LEMMA Cleared ==
    ASSUME QueueShape, NEW k \in Key, NEW e, ClearDirty(k, e)
    PROVE  /\ QueueShape'
           /\ \A j \in Key : j # k => marks'[j] = marks[j]
           /\ marks[k].epoch # e => marks'[k] = marks[k]
           /\ marks[k].epoch = e => ~Dirty(k)'
<1>1. CASE marks[k].epoch = e
  <2>1. marks' = [marks EXCEPT ![k] = Unmarked] /\ order' = Without(k)
    BY <1>1 DEF ClearDirty
  <2>2. marks' \in [Key -> Mark] /\ ~Dirty(k)'
    BY <2>1 DEF QueueShape, Mark, Unmarked, Dirty
  <2>3. \A j \in Key : j # k => marks'[j] = marks[j]
    BY <2>1 DEF QueueShape
  <2>4. QueueShape'
    BY <2>1, <2>2, Removal DEF QueueShape
  <2> QED BY <1>1, <2>2, <2>3, <2>4
<1>2. CASE marks[k].epoch # e
  BY <1>2 DEF ClearDirty, queue, QueueShape
<1> QED BY <1>1, <1>2

-----------------------------------------------------------------------------
(* What is settled stays settled.                                          *)

(* The subject being processed is the first of the batch.                  *)
LEMMA FirstPlace ==
    ASSUME TickShape, tick.pc # "idle"
    PROVE  /\ Len(tick.batch) \in Nat \ {0} /\ 1 \in Places
           /\ Subject = tick.batch[1] /\ K = tick.batch[1].key
           /\ K \in Key /\ Subject.mark \in Mark
           /\ Subject.mark.epoch <= marks[K].epoch
<1>1. tick.batch \in Seq(Entry) /\ tick.batch # <<>>
  BY DEF TickShape
<1>2. /\ Len(tick.batch) \in Nat \ {0} /\ Head(tick.batch) = tick.batch[1]
      /\ tick.batch[1] \in Entry
  BY <1>1
<1>3. 1 \in Places /\ tick.batch[1].key \in Key /\ tick.batch[1].mark \in Mark
  BY <1>2 DEF Places, Entry
<1>4. Subject = tick.batch[1] /\ K = tick.batch[1].key
  BY <1>2 DEF Subject, K
<1> QED BY <1>2, <1>3, <1>4 DEF TickShape

LEMMA TailIs ==
    ASSUME NEW T, NEW s \in Seq(T), Len(s) > 1
    PROVE  /\ Tail(s) \in Seq(T) /\ Tail(s) # <<>> /\ Len(Tail(s)) = Len(s) - 1
           /\ \A i \in 1..Len(Tail(s)) : Tail(s)[i] = s[i + 1]
<1>1. Tail(s) \in Seq(T) /\ Len(Tail(s)) = Len(s) - 1 /\ Len(s) \in Nat
  OBVIOUS
<1>2. Tail(s) # <<>>
  <2>1. Len(Tail(s)) # 0 /\ Len(<<>>) = 0
    BY <1>1
  <2> QED BY <2>1, Zenon
<1>3. \A i \in 1..Len(Tail(s)) : Tail(s)[i] = s[i + 1]
  BY <1>1
<1> QED BY <1>1, <1>2, <1>3

LEMMA EveryPlace ==
    ASSUME TickShape
    PROVE  /\ Len(tick.batch) \in Nat
           /\ \A i \in Places : tick.batch[i].key \in Key /\ tick.batch[i].mark.epoch \in Nat
<1>1. Len(tick.batch) \in Nat /\ \A i \in Places : tick.batch[i] \in Entry
  BY DEF TickShape, Places
<1>2. \A e \in Entry : e.key \in Key /\ e.mark.epoch \in Nat
  BY DEF Entry, Mark
<1> QED BY <1>1, <1>2

LEMMA SettledStays ==
    ASSUME Inv, UNCHANGED <<claims, seen, fate, last>>,
           \A k \in Key : marks'[k].epoch = marks[k].epoch
    PROVE  GraphShape' /\ Behind' /\ Settled' /\ PromotedInFull'
<1>1. \A c \in Claim : c.key \in Key /\ (Examined(c.key)' <=> Examined(c.key))
  BY DEF Claim, Examined, Dirty
<1>2. GraphShape' /\ Behind'
  BY DEF Inv, Shape, GraphShape, Behind
<1>3. Settled'
  BY <1>1 DEF Inv, Settled
<1>4. PromotedInFull'
  BY <1>1 DEF Inv, PromotedInFull, Active, Written, Qualifies
<1> QED BY <1>2, <1>3, <1>4

(* The next subject, or none: the epochs of the others have not moved.     *)
LEMMA Onward ==
    ASSUME TickShape, tick.pc # "idle", NextSubject \/ tick' = Idle,
           \A k \in Key \ {K} : marks'[k].epoch = marks[k].epoch
    PROVE  TickShape' /\ PassRead' /\ Moving'
<1>1. CASE tick' = Idle
  BY <1>1 DEF Idle, TickShape, TickFields, Places, PassRead, Moving, Examining
<1>2. CASE tick' # Idle
  <2>1. tick' = [Idle EXCEPT !.pc = "next", !.batch = Tail(tick.batch)] /\ Len(tick.batch) # 1
    BY <1>2 DEF NextSubject
  <2>2. tick'.batch = Tail(tick.batch) /\ tick'.pc = "next" /\ DOMAIN tick' = TickFields
    BY <2>1 DEF Idle, TickFields
  <2>3. /\ tick.batch \in Seq(Entry) /\ Len(tick.batch) \in Nat
        /\ Len(tick.batch) > 1
    <3>1. tick.batch \in Seq(Entry)
      BY DEF TickShape
    <3>2. Len(tick.batch) \in Nat \ {0}
      BY FirstPlace
    <3>3. Len(tick.batch) # 1
      BY <2>1
    <3>4. \A n \in Nat \ {0} : n # 1 => n > 1
      OBVIOUS
    <3>5. Len(tick.batch) > 1
      BY <3>2, <3>3, <3>4, Zenon
    <3> QED BY <3>1, <3>2, <3>5
  <2>4. /\ tick'.batch \in Seq(Entry) /\ tick'.batch # <<>>
        /\ Len(tick'.batch) = Len(tick.batch) - 1
        /\ \A i \in 1..Len(tick'.batch) : tick'.batch[i] = tick.batch[i + 1]
    <3>1. tick'.batch = Tail(tick.batch)
      BY <2>2
    <3> QED BY <3>1, <2>3, TailIs
  <2>5. \A i \in 1..Len(tick'.batch) : i + 1 \in Places /\ i + 1 # 1 /\ i \in Nat
    BY <2>3, <2>4 DEF Places
  <2>6. \A i, j \in 1..Len(tick'.batch) : tick'.batch[i].key = tick'.batch[j].key => i = j
    <3> SUFFICES ASSUME NEW i \in 1..Len(tick'.batch), NEW j \in 1..Len(tick'.batch),
                        tick'.batch[i].key = tick'.batch[j].key
                 PROVE  i = j
      OBVIOUS
    <3>1. /\ i + 1 \in Places /\ j + 1 \in Places
          /\ tick.batch[i + 1].key = tick.batch[j + 1].key
      BY <2>4, <2>5
    <3>2. \A m, n \in Places : tick.batch[m].key = tick.batch[n].key => m = n
      BY DEF TickShape
    <3>3. i + 1 = j + 1
      BY <3>1, <3>2, Zenon
    <3> QED BY <3>3, <2>5
  <2>7. \A i \in 1..Len(tick'.batch) : tick'.batch[i].mark.epoch <= marks'[tick'.batch[i].key].epoch
    <3> SUFFICES ASSUME NEW i \in 1..Len(tick'.batch)
                 PROVE  tick'.batch[i].mark.epoch <= marks'[tick'.batch[i].key].epoch
      OBVIOUS
    <3>1. tick'.batch[i] = tick.batch[i + 1] /\ i + 1 \in Places /\ i + 1 # 1
      BY <2>4, <2>5
    <3>2. tick.batch[i + 1].key \in Key /\ tick.batch[i + 1].key # K
      BY <3>1, FirstPlace, EveryPlace DEF TickShape
    <3> QED BY <3>1, <3>2 DEF TickShape
  <2>8. TickShape'
    BY <2>2, <2>4, <2>6, <2>7 DEF TickShape, Places
  <2> QED BY <2>2, <2>8 DEF PassRead, Moving, Examining
<1> QED BY <1>1, <1>2

-----------------------------------------------------------------------------
(* Writes. *)

(* A write to c: it may gain evidence, and every other claim is as it was. *)
GrowsAt(c) ==
    /\ DOMAIN claims' = Claim /\ \A d \in Claim : DOMAIN claims'[d] = ClaimFields
    /\ \A d \in Claim \ {c} : claims'[d] = claims[d]
    /\ claims[c].evidence \subseteq claims'[c].evidence
    /\ claims'[c].defeated_by = claims[c].defeated_by

(* A client's, or the first of a promotion.                                *)
Keeps == tick'.pc = tick.pc
Mints(c) == /\ tick.pc = "assert" /\ tick'.pc = "copy"
            /\ c = InWorld(tick.moving) /\ Promoter \in claims'[c].evidence

LEMMA WriteInv ==
    ASSUME Inv, NEW c \in Claim, GrowsAt(c), MarkDirty(c.key), UNCHANGED <<history, config>>,
           DOMAIN tick' = TickFields, tick'.batch = tick.batch, tick'.read = tick.read,
           tick'.todo = tick.todo, tick'.moving = tick.moving, Keeps \/ Mints(c)
    PROVE  Inv'
<1>0. c.key \in Key /\ K' = K /\ Subject' = Subject /\ Places' = Places
  BY DEF Claim, K, Subject, Places
<1>1. /\ QueueShape' /\ Dirty(c.key)' /\ marks'[c.key].epoch = marks[c.key].epoch + 1
      /\ \A k \in Key : k # c.key => marks'[k] = marks[k]
  BY <1>0, Marked DEF Inv, Shape
<1>2. \A k \in Key : marks[k].epoch \in Nat /\ marks[k].epoch <= marks'[k].epoch
  <2>1. \A k \in Key : marks[k].epoch \in Nat
    BY DEF Inv, Shape, QueueShape, Mark
  <2> QED BY <2>1, <1>1, <1>0
<1>3a. \A k \in Key : marks'[k].epoch \in Nat
  BY <1>1 DEF QueueShape, Mark
<1>3. GraphShape'
  BY DEF GrowsAt, GraphShape, Inv, Shape, history
<1>4. \A d \in Claim : claims[d].evidence \subseteq claims'[d].evidence
  BY DEF GrowsAt
<1>5. ASSUME NEW d \in Claim, d.key # c.key
      PROVE  /\ claims'[d] = claims[d]
             /\ Active(d)' => Active(d)
             /\ Qualifies(d)' => Qualifies(d)
             /\ Full(d) => Full(d)'
  <2>1. claims'[d] = claims[d]
    BY <1>5 DEF GrowsAt
  <2>2. claims[InWorld(d)].evidence \subseteq claims'[InWorld(d)].evidence
    BY <1>4, InWorldIs
  <2> QED BY <2>1, <2>2 DEF Active, Written, Qualifies, Full
<1>6. \A d \in Claim : Examined(d.key)' => d.key # c.key /\ Examined(d.key)
  BY <1>0, <1>1 DEF Examined, Dirty, Claim, history
<1>7. Behind'
  BY <1>4 DEF Inv, Behind, history
<1>8. Settled'
  BY <1>5, <1>6 DEF Inv, Settled, history
<1>9. PromotedInFull'
  <2> SUFFICES ASSUME NEW d \in Claim, d.key.scope = "agent", Examined(d.key)', Active(d)', Qualifies(d)'
               PROVE  Full(d)'
    BY DEF PromotedInFull, Full
  <2>1. Full(d)
    BY <1>5, <1>6 DEF Inv, PromotedInFull, Full
  <2> QED BY <2>1, <1>5, <1>6
<1>10. TickShape'
  <2>1. tick'.pc # "idle" => tick.pc # "idle"
    BY DEF Keeps, Mints
  <2>2. \A i \in Places : tick.batch[i].mark.epoch \in Nat /\ tick.batch[i].key \in Key
    BY EveryPlace DEF Inv, Shape
  <2>3. \A i \in Places : tick.batch[i].mark.epoch <= marks'[tick.batch[i].key].epoch
    <3> SUFFICES ASSUME NEW i \in Places
                 PROVE  tick.batch[i].mark.epoch <= marks'[tick.batch[i].key].epoch
      OBVIOUS
    <3>1. tick.batch[i].key \in Key /\ tick.batch[i].mark.epoch \in Nat
      BY <2>2
    <3>2. /\ marks[tick.batch[i].key].epoch \in Nat
          /\ marks[tick.batch[i].key].epoch <= marks'[tick.batch[i].key].epoch
      BY <3>1, <1>2
    <3>3. tick.batch[i].mark.epoch <= marks[tick.batch[i].key].epoch
      BY DEF Inv, Shape, TickShape
    <3>4. marks'[tick.batch[i].key].epoch \in Nat
      BY <3>1, <1>3a
    <3> QED BY <3>1, <3>2, <3>3, <3>4
  <2> QED BY <1>0, <2>1, <2>3 DEF Inv, Shape, TickShape
<1>11. PassRead'
  <2> SUFFICES ASSUME tick'.pc \in Examining PROVE PassRead'
    BY DEF PassRead
  <2>1. tick.pc \in Examining /\ tick.pc # "idle" /\ (tick'.pc = "commit" => tick.pc = "commit")
    BY DEF Keeps, Mints, Examining
  <2>2. K \in Key /\ Subject.mark.epoch \in Nat /\ Subject.mark.epoch <= marks[K].epoch
    BY <2>1, FirstPlace DEF Inv, Shape, Mark
  <2>3. DOMAIN tick.read \subseteq ClaimsOf(K) /\ tick.todo \subseteq ClaimsOf(K)
    BY <2>1 DEF Inv, PassRead
  <2>4. \A d \in DOMAIN tick.read : tick.read[d].evidence \subseteq claims'[d].evidence
    BY <2>1, <2>3, <1>4 DEF Inv, PassRead, ClaimsOf
  <2>5. ASSUME marks'[K].epoch = Subject.mark.epoch, NEW d \in ClaimsOf(K)
        PROVE  /\ claims'[d].evidence = IF d \in DOMAIN tick.read THEN tick.read[d].evidence ELSE {}
               /\ K.scope = "agent" /\ Active(d)' /\ Qualifies(d)' => d \in tick.todo \/ Full(d)'
    <3>1. K # c.key /\ d \in Claim /\ d.key # c.key
      BY <2>5, <2>2, <1>1, <1>2 DEF ClaimsOf
    <3>2. marks[K].epoch = Subject.mark.epoch
      BY <3>1, <2>2, <2>5, <1>1
    <3> QED BY <3>1, <3>2, <2>1, <1>5 DEF Inv, PassRead
  <2> QED BY <1>0, <2>1, <2>3, <2>4, <2>5 DEF Inv, PassRead
<1>12. Moving'
  <2>1. tick'.pc \in {"assert", "copy"} => tick.pc \in {"assert", "copy"} /\ tick.moving \in ClaimsOf(K)
    BY DEF Keeps, Mints, Inv, Moving
  <2>2. ASSUME tick'.pc = "copy", NEW w, w = InWorld(tick.moving)
        PROVE  /\ Promoter \in claims'[w].evidence /\ Dirty(w.key)'
               /\ \A i \in Places :
                     tick.batch[i].key = w.key => tick.batch[i].mark.epoch < marks'[w.key].epoch
    <3>1. w \in Claim /\ w.key \in Key
      BY <2>1, <2>2, InWorldIs DEF ClaimsOf, Claim
    <3>2. \A i \in Places : tick.batch[i].mark.epoch \in Nat
      BY EveryPlace DEF Inv, Shape
    <3>3. CASE Keeps
      <4>1. /\ Promoter \in claims[w].evidence /\ Dirty(w.key)
            /\ \A i \in Places :
                  tick.batch[i].key = w.key => tick.batch[i].mark.epoch < marks[w.key].epoch
        BY <2>2, <3>3 DEF Keeps, Inv, Moving
      <4>2. /\ marks[w.key].epoch \in Nat /\ marks'[w.key].epoch \in Nat
            /\ marks[w.key].epoch <= marks'[w.key].epoch
            /\ Dirty(w.key)'
        BY <4>1, <3>1, <1>2, <1>3a DEF Dirty
      <4>3. \A i \in Places :
               tick.batch[i].key = w.key => tick.batch[i].mark.epoch < marks'[w.key].epoch
        BY <4>1, <4>2, <3>2
      <4> QED BY <4>1, <4>2, <4>3, <3>1, <1>4
    <3>4. CASE Mints(c)
      <4>1. w = c
        BY <2>2, <3>4 DEF Mints
      <4>2. \A i \in Places : tick.batch[i].mark.epoch <= marks[tick.batch[i].key].epoch
        BY DEF Inv, Shape, TickShape
      <4> QED BY <4>1, <4>2, <3>1, <3>2, <3>4, <1>1, <1>2 DEF Mints
    <3> QED BY <3>3, <3>4
  <2> QED BY <1>0, <2>1, <2>2 DEF Moving
<1> QED BY <1>1, <1>3, <1>7, <1>8, <1>9, <1>10, <1>11, <1>12 DEF Inv, Shape


(* What clients write.                                                     *)
LEMMA ClientWrites ==
    ASSUME Inv, Client
    PROVE  \E c \in Claim : /\ GrowsAt(c) /\ MarkDirty(c.key)
                            /\ UNCHANGED <<verdicts, tick, history, config>>
<1>1. PICK st \in Statements :
        \/ WriteClaim(st.claim, st.source)
        \/ \E level \in 1..2 : Upgrade(st.claim, level, st.source)
        \/ \E x \in ClaimsOf(st.claim.key) :
              Written(x) /\ Invalidate(st.claim, claims[x].since)
  BY DEF Client
<1> DEFINE c == st.claim
<1>2. c \in Claim
  BY CoherenceAssumption DEF CoherenceAssumption
<1>3. DOMAIN claims = Claim /\ \A d \in Claim : DOMAIN claims[d] = ClaimFields
  BY DEF Inv, Shape, GraphShape
<1>4. Touch(c)
  BY <1>1 DEF WriteClaim, Upgrade, Invalidate
<1>5. MarkDirty(c.key) /\ UNCHANGED <<verdicts, tick, history, config>>
  BY <1>4 DEF Touch
<1> HIDE DEF c
<1>6. ASSUME NEW s, WriteClaim(c, s) PROVE GrowsAt(c)
  BY <1>2, <1>3, <1>6 DEF WriteClaim, GrowsAt, ClaimFields
<1>7. ASSUME NEW s, NEW level, Upgrade(c, level, s) PROVE GrowsAt(c)
  BY <1>2, <1>3, <1>7 DEF Upgrade, GrowsAt, ClaimFields
<1>8. ASSUME NEW until, Invalidate(c, until) PROVE GrowsAt(c)
  BY <1>2, <1>3, <1>8 DEF Invalidate, GrowsAt, ClaimFields
<1>9. GrowsAt(c)
  BY <1>1, <1>6, <1>7, <1>8 DEF c
<1> QED BY <1>2, <1>5, <1>9

LEMMA ClientInv == ASSUME Inv, Client PROVE Inv'
<1>1. PICK c \in Claim : GrowsAt(c) /\ MarkDirty(c.key) /\ UNCHANGED <<tick, history, config>>
  BY ClientWrites
<1>2. DOMAIN tick' = TickFields /\ Keeps
  BY <1>1 DEF Inv, Shape, TickShape, Keeps
<1> QED BY <1>1, <1>2, WriteInv

(* The first write of a promotion.                                         *)
LEMMA AssertWrites ==
    ASSUME Inv, AssertFact, NEW w, w = InWorld(tick.moving)
    PROVE  /\ w \in Claim /\ GrowsAt(w) /\ MarkDirty(w.key) /\ Promoter \in claims'[w].evidence
           /\ tick.pc = "assert" /\ tick' = [tick EXCEPT !.pc = "copy"]
           /\ UNCHANGED <<verdicts, history, config>>
<1>1. tick.pc = "assert" /\ tick.moving \in Claim /\ w \in Claim
  BY InWorldIs DEF AssertFact, Inv, Moving, ClaimsOf
<1>2. DOMAIN claims = Claim /\ \A d \in Claim : DOMAIN claims[d] = ClaimFields
  BY DEF Inv, Shape, GraphShape
<1>3. /\ MarkDirty(w.key) /\ UNCHANGED <<verdicts, history, config>>
      /\ tick' = [tick EXCEPT !.pc = "copy"]
  BY DEF AssertFact, Goto, bounds
<1>4. claims' = [claims EXCEPT ![w].evidence = @ \cup {Promoter},
                          ![w].since = IF Written(w) THEN @ ELSE Now,
                          ![w].level = IF Written(w) THEN @ ELSE Level(tick.moving)]
  BY DEF AssertFact
<1>5. GrowsAt(w) /\ Promoter \in claims'[w].evidence
  BY <1>1, <1>2, <1>4 DEF GrowsAt, ClaimFields
<1> QED BY <1>1, <1>3, <1>5

LEMMA AssertInv == ASSUME Inv, AssertFact PROVE Inv'
<1> DEFINE w == InWorld(tick.moving)
<1> HIDE DEF w
<1>1. /\ w \in Claim /\ GrowsAt(w) /\ MarkDirty(w.key) /\ Promoter \in claims'[w].evidence
      /\ tick.pc = "assert" /\ tick' = [tick EXCEPT !.pc = "copy"]
      /\ UNCHANGED <<history, config>>
  BY AssertWrites DEF w
<1>2. /\ DOMAIN tick' = TickFields /\ tick'.pc = "copy"
      /\ tick'.batch = tick.batch /\ tick'.read = tick.read
      /\ tick'.todo = tick.todo /\ tick'.moving = tick.moving
  BY <1>1 DEF Inv, Shape, TickShape, TickFields
<1>3. Mints(w)
  BY <1>1, <1>2 DEF Mints, w
<1> QED BY <1>1, <1>2, <1>3, WriteInv

-----------------------------------------------------------------------------
(* Steps of the reconciler that write no claim. *)

(* Subjects are claimed with the epochs of the moment, each once.          *)
LEMMA ClaimInv == ASSUME Inv, ClaimDirty PROVE Inv'
<1> DEFINE n == IF Len(order) < config.batch_limit THEN Len(order) ELSE config.batch_limit
           taken == [i \in 1..n |-> [key |-> order[i], mark |-> marks[order[i]]]]
<1>1. order \in Seq(Key) /\ marks \in [Key -> Mark] /\ order # <<>>
  BY DEF Inv, Shape, QueueShape, ClaimDirty
<1>2. config.batch_limit \in Nat \ {0}
  BY CoherenceAssumption DEF Inv, Shape, CoherenceAssumption
<1>3. Len(order) \in Nat \ {0}
  BY <1>1
<1>4. n \in Nat \ {0} /\ n <= Len(order)
  BY <1>2, <1>3
<1>5. tick' = [Idle EXCEPT !.pc = "next", !.batch = taken]
  BY DEF ClaimDirty
<1>6. UNCHANGED <<claims, seen, fate, last, marks, order, config>>
  BY DEF ClaimDirty, graph, history, queue, bounds
<1> HIDE DEF n
<1>7. \A i \in 1..n : order[i] \in Key /\ i \in 1..Len(order)
  BY <1>1, <1>3, <1>4
<1>8. taken \in [1..n -> Entry]
  BY <1>1, <1>7 DEF Entry
<1>9. taken \in Seq(Entry) /\ Len(taken) = n /\ taken # <<>>
  <2>1. taken \in Seq(Entry) /\ Len(taken) = n
    BY <1>4, <1>8
  <2>2. Len(taken) # 0 /\ Len(<<>>) = 0
    BY <2>1, <1>4
  <2> QED BY <2>1, <2>2, Zenon
<1>10. \A i \in 1..n : taken[i].key = order[i] /\ taken[i].mark.epoch = marks[order[i]].epoch
  BY <1>7
<1> HIDE DEF taken
<1>11. DOMAIN tick' = TickFields /\ tick'.pc = "next" /\ tick'.batch = taken
  BY <1>5 DEF Idle, TickFields
<1>12. \A i \in 1..n : taken[i].mark.epoch <= marks[taken[i].key].epoch
  BY <1>1, <1>7, <1>10 DEF Mark
<1>13. \A i, j \in 1..n : taken[i].key = taken[j].key => i = j
  BY <1>7, <1>10 DEF Inv, Shape, QueueShape
<1>14. TickShape'
  BY <1>6, <1>9, <1>11, <1>12, <1>13 DEF TickShape, Places
<1>15. PassRead' /\ Moving'
  BY <1>11 DEF PassRead, Moving, Examining
<1>16. GraphShape' /\ Behind' /\ Settled' /\ PromotedInFull'
  BY <1>6, SettledStays
<1> QED BY <1>6, <1>14, <1>15, <1>16 DEF Inv, Shape, QueueShape

(* A step of the frame within one subject.                                 *)
Stays ==
    /\ UNCHANGED <<claims, seen, fate, last, config, order>>
    /\ marks' \in [Key -> Mark] /\ \A k \in Key : marks'[k].epoch = marks[k].epoch
    /\ DOMAIN tick' = TickFields /\ tick'.batch = tick.batch
    /\ tick.pc # "idle" /\ tick'.pc # "idle"

LEMMA StaysInv == ASSUME Inv, Stays, PassRead', Moving' PROVE Inv'
<1>1. GraphShape' /\ Behind' /\ Settled' /\ PromotedInFull'
  BY SettledStays DEF Stays
<1>2. QueueShape'
  BY DEF Inv, Shape, QueueShape, Stays
<1>3. \A i \in Places : tick.batch[i].mark.epoch <= marks'[tick.batch[i].key].epoch
  BY EveryPlace DEF Inv, Shape, TickShape, Stays
<1>4. TickShape'
  BY <1>3 DEF Inv, Shape, TickShape, Stays, Places
<1> QED BY <1>1, <1>2, <1>4 DEF Inv, Shape, Stays

LEMMA BumpInv == ASSUME Inv, BumpAttempts PROVE Inv'
<1>1. tick.pc = "next" /\ K \in Key
  BY FirstPlace DEF BumpAttempts, Inv, Shape
<1>2. DOMAIN tick' = TickFields /\ tick'.batch = tick.batch /\ tick'.pc = "fetch"
  BY DEF BumpAttempts, Goto, Inv, Shape, TickShape, TickFields
<1>3. marks' \in [Key -> Mark] /\ \A k \in Key : marks'[k].epoch = marks[k].epoch
  <2>1. marks \in [Key -> Mark]
    BY DEF Inv, Shape, QueueShape
  <2>2. marks' = [marks EXCEPT ![K].attempts = IF Dirty(K) THEN @ + 1 ELSE @]
    BY DEF BumpAttempts
  <2> QED BY <2>1, <2>2, <1>1 DEF Mark
<1>4. Stays
  BY <1>1, <1>2, <1>3 DEF BumpAttempts, Stays, graph, history, bounds
<1>5. PassRead' /\ Moving'
  BY <1>2 DEF PassRead, Moving, Examining
<1> QED BY <1>4, <1>5, StaysInv

(* What is read is what there is.                                          *)
LEMMA FetchInv == ASSUME Inv, Fetch PROVE Inv'
<1> DEFINE read == ReadClaims(K)
           ruled == {c \in ActiveIn(read) : c.content \in Ruled}
<1>1. tick.pc = "fetch" /\ K \in Key
  BY FirstPlace DEF Fetch, Inv, Shape
<1>2. UNCHANGED <<claims, seen, fate, last, marks, order, config>>
  BY DEF Fetch, graph, history, queue, bounds
<1>3. DOMAIN tick = TickFields /\ marks \in [Key -> Mark]
  BY DEF Inv, Shape, TickShape, QueueShape
<1>4. DOMAIN claims = Claim /\ \A d \in Claim : DOMAIN claims[d] = ClaimFields
  BY DEF Inv, Shape, GraphShape
<1>5. /\ DOMAIN read = {c \in ClaimsOf(K) : Written(c)}
      /\ \A c \in DOMAIN read : /\ read[c].evidence = claims[c].evidence
                                /\ Active(c) => c \in ActiveIn(read)
  <2>1. DOMAIN read = {c \in ClaimsOf(K) : Written(c)}
    BY DEF ReadClaims
  <2>2. ASSUME NEW c \in DOMAIN read
        PROVE  read[c].evidence = claims[c].evidence /\ (Active(c) => read[c].defeated_by = Nobody)
    <3>1. c \in Claim
      BY <2>1, <2>2 DEF ClaimsOf
    <3>2. read[c] = IF config.store = "memory" THEN claims[c]
                    ELSE [claims[c] EXCEPT !.defeated_by = Nobody]
      BY <2>1, <2>2 DEF ReadClaims
    <3> QED BY <3>1, <3>2, <1>4 DEF ClaimFields, Active
  <2> QED BY <2>1, <2>2 DEF ActiveIn
<1>6. CASE tick'.pc = "too-large"
  <2>1. \/ tick' = [tick EXCEPT !.pc = "too-large"]
        \/ DOMAIN tick' = TickFields /\ tick'.batch = tick.batch
    BY <1>3 DEF Fetch, TickFields
  <2>2. DOMAIN tick' = TickFields /\ tick'.batch = tick.batch
    BY <2>1, <1>3 DEF TickFields
  <2>3. PassRead' /\ Moving'
    BY <1>6 DEF PassRead, Moving, Examining
  <2> QED BY <1>1, <1>2, <1>3, <1>6, <2>2, <2>3, StaysInv DEF Stays
<1>7. CASE tick'.pc # "too-large"
  <2>1. /\ DOMAIN tick' = TickFields /\ tick'.batch = tick.batch
        /\ tick'.pc \in {"search", "promote"} /\ tick'.read = read /\ tick'.todo = ruled
    BY <1>3, <1>7 DEF Fetch, TickFields
  <2> HIDE DEF read
  <2>2. ruled \subseteq DOMAIN read /\ DOMAIN read \subseteq ClaimsOf(K)
    BY <1>5 DEF ActiveIn
  <2>3. K' = K /\ Subject' = Subject
    BY <2>1 DEF K, Subject
  <2>4. ASSUME NEW c \in ClaimsOf(K)
        PROVE  /\ claims[c].evidence = IF c \in DOMAIN read THEN read[c].evidence ELSE {}
               /\ Active(c) /\ Qualifies(c) => c \in ruled
    BY <1>5, <2>4 DEF Active, Qualifies, Written
  <2>5. \A c : (Active(c)' <=> Active(c)) /\ (Qualifies(c)' <=> Qualifies(c))
    BY <1>2 DEF Active, Written, Qualifies
  <2> HIDE DEF ruled
  <2>6. PassRead'
    BY <1>2, <1>5, <2>1, <2>2, <2>3, <2>4, <2>5 DEF PassRead
  <2>7. Moving'
    BY <2>1 DEF Moving
  <2> QED BY <1>1, <1>2, <1>3, <2>1, <2>6, <2>7, StaysInv DEF Stays
<1> QED BY <1>6, <1>7

(* The search touches nothing but what it found.                           *)
Goes == /\ DOMAIN tick' = TickFields /\ tick'.batch = tick.batch
        /\ tick'.pc \in {"search", "promote"}
        /\ tick'.read = tick.read /\ tick'.todo = tick.todo

LEMMA SearchGoes == ASSUME DOMAIN tick = TickFields, Search PROVE Goes
<1>1. ASSUME Decide PROVE Goes
  BY <1>1 DEF Decide, Searching, Goes, TickFields
<1>2. ASSUME DecideNothing PROVE Goes
  <2>1. PICK u, x : tick' = [tick EXCEPT !.rounds = u, !.found = x]
    BY <1>2 DEF DecideNothing
  <2>2. tick.pc = "search"
    BY <1>2 DEF DecideNothing, Searching
  <2> QED BY <2>1, <2>2 DEF Goes, TickFields
<1>3. ASSUME NEW m, StopWith(m) PROVE Goes
  BY <1>3 DEF StopWith, Goes, TickFields
<1>4. ASSUME EndSearch PROVE Goes
  BY <1>4 DEF EndSearch, Goto, Goes, TickFields
<1> QED BY <1>1, <1>2, <1>3, <1>4 DEF Search, Escalate, Unverified, OutOfCalls

LEMMA SearchInv == ASSUME Inv, Search PROVE Inv'
<1>1. UNCHANGED <<claims, seen, fate, last, marks, order, config>> /\ tick.pc = "search"
  BY DEF Search, Decide, DecideNothing, Escalate, Unverified, OutOfCalls, EndSearch,
         Searching, graph, history, queue, bounds
<1>2. DOMAIN tick = TickFields /\ marks \in [Key -> Mark]
  BY DEF Inv, Shape, TickShape, QueueShape
<1>3. Goes
  BY <1>2, SearchGoes
<1>4. K' = K /\ Subject' = Subject
  BY <1>3 DEF K, Subject, Goes
<1>5. \A c : /\ Active(c)' <=> Active(c)
             /\ Qualifies(c)' <=> Qualifies(c)
             /\ Full(c)' <=> Full(c)
  BY <1>1 DEF Active, Written, Qualifies, Full
<1>6. PassRead'
  BY <1>1, <1>3, <1>4, <1>5 DEF Inv, PassRead, Examining, Goes
<1>7. Moving'
  BY <1>3 DEF Moving, Goes
<1> QED BY <1>1, <1>2, <1>3, <1>6, <1>7, StaysInv DEF Stays, Goes

(* Nothing is taken off the list but what does not qualify.                *)
LEMMA PromoteInv == ASSUME Inv, Promote PROVE Inv'
<1>1. UNCHANGED <<claims, seen, fate, last, marks, order, config>> /\ tick.pc = "promote"
  BY DEF Promote, graph, history, queue, bounds
<1>2. DOMAIN tick = TickFields /\ marks \in [Key -> Mark]
  BY DEF Inv, Shape, TickShape, QueueShape
<1>3. /\ DOMAIN tick' = TickFields /\ tick'.batch = tick.batch /\ tick'.read = tick.read
      /\ tick'.todo \subseteq tick.todo
      /\ \A c \in tick.todo \ tick'.todo : ~Qualifies(c)
      /\ \/ tick'.pc = "promote"
         \/ tick'.pc = "commit" /\ tick'.todo = {}
         \/ tick'.pc = "assert" /\ tick'.moving \in tick.todo
  <2>1. CASE tick.todo = {} /\ Goto("commit")
    BY <1>2, <2>1 DEF Goto, TickFields
  <2>2. CASE \E c \in tick.todo : ~Qualifies(c) /\ tick' = [tick EXCEPT !.todo = @ \ {c}]
    BY <1>1, <1>2, <2>2 DEF TickFields
  <2>3. CASE \E c \in tick.todo : tick' = [tick EXCEPT !.pc = "assert", !.moving = c]
    BY <1>2, <2>3 DEF TickFields
  <2> QED BY <2>1, <2>2, <2>3 DEF Promote
<1>4. K' = K /\ Subject' = Subject
  BY <1>3 DEF K, Subject
<1>5. \A c : /\ Active(c)' <=> Active(c)
             /\ Qualifies(c)' <=> Qualifies(c)
             /\ Full(c)' <=> Full(c)
  BY <1>1 DEF Active, Written, Qualifies, Full
<1>6. tick.todo \subseteq ClaimsOf(K)
  BY <1>1 DEF Inv, PassRead, Examining
<1>7. PassRead'
  BY <1>1, <1>3, <1>4, <1>5, <1>6 DEF Inv, PassRead, Examining
<1>8. Moving'
  BY <1>3, <1>4, <1>6 DEF Moving
<1> QED BY <1>1, <1>2, <1>3, <1>7, <1>8, StaysInv DEF Stays

(* The second write of a promotion: what it adds to is marked already.     *)
LEMMA CopyInv == ASSUME Inv, CopyEvidence PROVE Inv'
<1>0. PICK m, w : m = tick.moving /\ w = InWorld(m)
  OBVIOUS
<1>1. tick.pc = "copy" /\ UNCHANGED <<seen, fate, last, marks, order, config>>
  BY DEF CopyEvidence, history, queue, bounds
<1>2. /\ m \in ClaimsOf(K) /\ m \in Claim /\ m.key = K /\ w \in Claim
      /\ Promoter \in claims[w].evidence /\ Dirty(w.key)
      /\ \A i \in Places : tick.batch[i].key = w.key => tick.batch[i].mark.epoch < marks[w.key].epoch
  BY <1>0, <1>1, InWorldIs DEF Inv, Moving, ClaimsOf
<1>3. DOMAIN claims = Claim /\ \A d \in Claim : DOMAIN claims[d] = ClaimFields
  BY DEF Inv, Shape, GraphShape
<1>4. /\ DOMAIN claims' = Claim /\ \A d \in Claim : DOMAIN claims'[d] = ClaimFields
      /\ \A d \in Claim \ {w} : claims'[d] = claims[d]
      /\ claims'[w].evidence = claims[w].evidence \cup claims[m].evidence
  <2>1. claims' = [claims EXCEPT ![w].evidence = @ \cup claims[m].evidence]
    BY <1>0 DEF CopyEvidence
  <2> QED BY <1>2, <1>3, <2>1 DEF ClaimFields
<1>5. \A d \in Claim : claims[d].evidence \subseteq claims'[d].evidence
  BY <1>4
<1>6. /\ DOMAIN tick' = TickFields /\ tick'.pc = "promote" /\ tick'.batch = tick.batch
      /\ tick'.read = tick.read /\ tick'.todo = tick.todo \ {m}
  <2>1. DOMAIN tick = TickFields
    BY DEF Inv, Shape, TickShape
  <2>2. tick' = [tick EXCEPT !.pc = "promote", !.todo = @ \ {m}, !.moving = Nobody]
    BY <1>0 DEF CopyEvidence
  <2> QED BY <2>1, <2>2 DEF TickFields
<1>7. ASSUME NEW d \in Claim, d.key # w.key
      PROVE  /\ claims'[d] = claims[d]
             /\ Active(d)' => Active(d)
             /\ Qualifies(d)' => Qualifies(d)
             /\ Full(d) => Full(d)'
  <2>1. claims'[d] = claims[d]
    BY <1>4, <1>7
  <2>2. claims[InWorld(d)].evidence \subseteq claims'[InWorld(d)].evidence
    BY <1>5, InWorldIs
  <2> QED BY <2>1, <2>2 DEF Active, Written, Qualifies, Full
<1>8. \A k : Examined(k)' => Examined(k) /\ k # w.key
  BY <1>1, <1>2 DEF Examined, Dirty
<1>9. GraphShape' /\ Behind'
  BY <1>1, <1>4, <1>5 DEF Inv, Shape, GraphShape, Behind
<1>10. Settled'
  BY <1>1, <1>7, <1>8 DEF Inv, Settled
<1>11. PromotedInFull'
  <2> SUFFICES ASSUME NEW d \in Claim, d.key.scope = "agent", Examined(d.key)', Active(d)', Qualifies(d)'
               PROVE  Full(d)'
    BY DEF PromotedInFull, Full
  <2> QED BY <1>7, <1>8 DEF Inv, PromotedInFull, Full
<1>12. QueueShape' /\ TickShape'
  BY <1>1, <1>6 DEF Inv, Shape, QueueShape, TickShape, Places
<1>13. K' = K /\ Subject' = Subject
  BY <1>6 DEF K, Subject
<1>14. PassRead'
  <2>1. DOMAIN tick.read \subseteq ClaimsOf(K) /\ tick.todo \subseteq ClaimsOf(K)
    BY <1>1 DEF Inv, PassRead, Examining
  <2>2. \A d \in DOMAIN tick.read : tick.read[d].evidence \subseteq claims'[d].evidence
    BY <1>1, <1>5, <2>1 DEF Inv, PassRead, Examining, ClaimsOf
  <2>3. ASSUME marks[K].epoch = Subject.mark.epoch, NEW d \in ClaimsOf(K)
        PROVE  /\ claims'[d].evidence = IF d \in DOMAIN tick.read THEN tick.read[d].evidence ELSE {}
               /\ K.scope = "agent" /\ Active(d)' /\ Qualifies(d)' => d \in tick'.todo \/ Full(d)'
    <3>1. K # w.key
      <4>1. K \in Key /\ 1 \in Places /\ K = tick.batch[1].key /\ Subject = tick.batch[1]
        BY <1>1, FirstPlace DEF Inv, Shape
      <4>2. marks[K].epoch \in Nat
        BY <4>1 DEF Inv, Shape, QueueShape, Mark
      <4> QED BY <1>2, <2>3, <4>1, <4>2
    <3>2. d \in Claim /\ d.key # w.key
      BY <3>1 DEF ClaimsOf
    <3>3. Full(m)'
      <4>1. claims'[m] = claims[m]
        BY <1>2, <1>7, <3>1
      <4> QED BY <1>0, <1>2, <1>4, <4>1 DEF Full
    <3>4. /\ claims[d].evidence = IF d \in DOMAIN tick.read THEN tick.read[d].evidence ELSE {}
          /\ K.scope = "agent" /\ Active(d) /\ Qualifies(d) => d \in tick.todo \/ Full(d)
      BY <1>1, <2>3 DEF Inv, PassRead, Examining
    <3> QED BY <3>2, <3>3, <3>4, <1>6, <1>7
  <2> QED BY <1>1, <1>6, <1>13, <2>1, <2>2, <2>3 DEF PassRead
<1>15. Moving'
  BY <1>6 DEF Moving
<1> QED BY <1>1, <1>9, <1>10, <1>11, <1>12, <1>14, <1>15 DEF Inv, Shape

-----------------------------------------------------------------------------
(* Commits. *)

(* Giving up on a subject.                                                 *)
LEMMA SetAsideInv ==
    ASSUME Inv, NEW reason, reason # "settled",
           tick.pc # "idle", SetAside(reason)
    PROVE  Inv'
<1>1. /\ UNCHANGED <<claims, seen, last, config>> /\ ClearDirty(K, Subject.mark.epoch)
      /\ fate' = [fate EXCEPT ![K] = reason] /\ NextSubject
  BY DEF SetAside, bounds
<1>2. K \in Key /\ DOMAIN fate = Key
  BY FirstPlace DEF Inv, Shape, GraphShape
<1>3. QueueShape' /\ \A k \in Key : k # K => marks'[k] = marks[k]
  BY <1>1, <1>2, Cleared DEF Inv, Shape
<1>4. TickShape' /\ PassRead' /\ Moving'
  BY <1>1, <1>3, Onward DEF Inv, Shape
<1>5. \A k \in Key : Examined(k)' => Examined(k)
  BY <1>1, <1>2, <1>3 DEF Examined, Dirty
<1>6. \A c \in Claim : c.key \in Key
  BY DEF Claim
<1>7. GraphShape' /\ Behind'
  BY <1>1, <1>2 DEF Inv, Shape, GraphShape, Behind
<1>8. Settled'
  BY <1>1, <1>5, <1>6 DEF Inv, Settled
<1>9. PromotedInFull'
  BY <1>1, <1>5, <1>6 DEF Inv, PromotedInFull, Active, Written, Qualifies
<1> QED BY <1>1, <1>3, <1>4, <1>7, <1>8, <1>9 DEF Inv, Shape

(* A defeat changes no evidence, and revives nothing.                      *)
LEMMA DefeatedIs ==
    ASSUME GraphShape, NEW c \in Claim
    PROVE  /\ DOMAIN Defeated(c) = ClaimFields
           /\ Defeated(c).evidence = claims[c].evidence
           /\ Defeated(c).defeated_by = Nobody => claims[c].defeated_by = Nobody
<1> DEFINE ds == {d \in tick.defeats : d.loser = c}
           d == CHOOSE x \in ds : TRUE
           node == claims[c]
<1>1. DOMAIN node = ClaimFields
  BY DEF GraphShape
<1>2. CASE ds = {}
  <2>1. Defeated(c) = node
    BY <1>2 DEF Defeated
  <2> QED BY <1>1, <2>1
<1>3. CASE ds # {}
  <2>1. Defeated(c) = [node EXCEPT !.defeated_by = IF @ = Nobody THEN d.winner ELSE @,
                                   !.until = IF @ = Forever THEN d.until ELSE @]
    BY <1>3 DEF Defeated
  <2> HIDE DEF node, d, ds
  <2>2. /\ DOMAIN Defeated(c) = ClaimFields /\ Defeated(c).evidence = node.evidence
        /\ Defeated(c).defeated_by = IF node.defeated_by = Nobody THEN d.winner ELSE node.defeated_by
    BY <1>1, <2>1 DEF ClaimFields
  <2> QED BY <2>2 DEF node
<1> QED BY <1>2, <1>3

(* If the mark goes, the pass has read all the evidence of its subject,    *)
(* and left nothing to promote.                                            *)
LEMMA CommitReads ==
    ASSUME Inv, CommitReconciliation
    PROVE  /\ K \in Key /\ QueueShape' /\ GraphShape' /\ Behind'
           /\ \A c \in Claim : claims'[c].evidence = claims[c].evidence /\ (Active(c)' => Active(c))
           /\ \A c \in Claim : c.key # K => seen'[c] = seen[c]
           /\ \A k \in Key : k # K => marks'[k] = marks[k] /\ fate'[k] = fate[k]
           /\ marks'[K].epoch > 0 \/ \A c \in ClaimsOf(K) :
                 /\ seen'[c] = claims[c].evidence
                 /\ K.scope = "agent" /\ Active(c) /\ Qualifies(c) => Full(c)
<1>1. /\ tick.pc = "commit" /\ claims' = [c \in Claim |-> Defeated(c)]
      /\ ClearDirty(K, Subject.mark.epoch)
      /\ seen' = [c \in Claim |-> IF c \in DOMAIN tick.read THEN tick.read[c].evidence ELSE seen[c]]
      /\ \E f, g : fate' = [fate EXCEPT ![K] = f] /\ last' = [last EXCEPT ![K] = g]
  BY DEF CommitReconciliation
<1>2. /\ K \in Key /\ Subject.mark.epoch \in Nat /\ Subject.mark.epoch <= marks[K].epoch
      /\ DOMAIN fate = Key /\ marks[K].epoch \in Nat
  BY <1>1, FirstPlace DEF Inv, Shape, GraphShape, QueueShape, Mark
<1>3. /\ QueueShape' /\ \A k \in Key : k # K => marks'[k] = marks[k]
      /\ marks[K].epoch # Subject.mark.epoch => marks'[K] = marks[K]
  BY <1>1, <1>2, Cleared DEF Inv, Shape
<1>4. \A c \in Claim : /\ DOMAIN claims'[c] = ClaimFields
                       /\ claims'[c].evidence = claims[c].evidence
                       /\ Active(c)' => Active(c)
  <2> SUFFICES ASSUME NEW c \in Claim
               PROVE  /\ DOMAIN claims'[c] = ClaimFields
                      /\ claims'[c].evidence = claims[c].evidence
                      /\ Active(c)' => Active(c)
    OBVIOUS
  <2>1. claims'[c] = Defeated(c)
    BY <1>1
  <2>2. GraphShape
    BY DEF Inv, Shape
  <2> QED BY <2>1, <2>2, DefeatedIs DEF Active, Written
<1>5. GraphShape'
  <2>1. DOMAIN seen' = Claim /\ DOMAIN claims' = Claim
    BY <1>1
  <2>2. PICK f, g : fate' = [fate EXCEPT ![K] = f] /\ last' = [last EXCEPT ![K] = g]
    BY <1>1
  <2>3. DOMAIN fate' = Key /\ DOMAIN last' = Key
    BY <2>2 DEF Inv, Shape, GraphShape
  <2> QED BY <1>4, <2>1, <2>3 DEF GraphShape
<1>6. /\ DOMAIN tick.read \subseteq ClaimsOf(K) /\ tick.todo = {}
      /\ \A c \in DOMAIN tick.read : tick.read[c].evidence \subseteq claims[c].evidence
      /\ marks[K].epoch = Subject.mark.epoch =>
           \A c \in ClaimsOf(K) :
              /\ claims[c].evidence = IF c \in DOMAIN tick.read THEN tick.read[c].evidence ELSE {}
              /\ K.scope = "agent" /\ Active(c) /\ Qualifies(c) => Full(c)
  BY <1>1 DEF Inv, PassRead, Examining
<1>7. Behind'
  BY <1>1, <1>4, <1>6 DEF Inv, Behind
<1>8. \A c \in Claim : c.key # K => seen'[c] = seen[c]
  BY <1>1, <1>6 DEF ClaimsOf
<1>9. CASE marks[K].epoch # Subject.mark.epoch
  <2>1. marks'[K].epoch > 0
    BY <1>2, <1>3, <1>9
  <2> QED BY <2>1, <1>1, <1>2, <1>3, <1>4, <1>5, <1>7, <1>8
<1>10. CASE marks[K].epoch = Subject.mark.epoch
  <2>1. \A c \in ClaimsOf(K) : seen'[c] = claims[c].evidence
    <3> SUFFICES ASSUME NEW c \in ClaimsOf(K) PROVE seen'[c] = claims[c].evidence
      OBVIOUS
    <3>1. c \in Claim /\ seen[c] \subseteq claims[c].evidence
      BY DEF ClaimsOf, Inv, Behind
    <3>2. claims[c].evidence = IF c \in DOMAIN tick.read THEN tick.read[c].evidence ELSE {}
      BY <1>6, <1>10
    <3>3. seen'[c] = IF c \in DOMAIN tick.read THEN tick.read[c].evidence ELSE seen[c]
      BY <1>1, <3>1
    <3> QED BY <3>1, <3>2, <3>3
  <2> QED BY <2>1, <1>1, <1>2, <1>3, <1>4, <1>5, <1>6, <1>7, <1>8, <1>10
<1> QED BY <1>9, <1>10

LEMMA CommitInv == ASSUME Inv, CommitReconciliation PROVE Inv'
<1>1. tick.pc = "commit" /\ NextSubject /\ config' = config
  BY DEF CommitReconciliation, bounds
<1>2. TickShape' /\ PassRead' /\ Moving'
  BY <1>1, CommitReads, Onward DEF Inv, Shape
<1>3. \A c \in Claim : c.key # K => c.key \in Key /\ (Examined(c.key)' <=> Examined(c.key))
  BY CommitReads DEF Examined, Dirty, Claim
<1>4. Settled'
  <2> SUFFICES ASSUME NEW c \in Claim, Examined(c.key)' PROVE seen'[c] = claims'[c].evidence
    BY DEF Settled
  <2>1. CASE c.key = K
    BY <2>1, CommitReads DEF Examined, Dirty, ClaimsOf
  <2>2. CASE c.key # K
    BY <2>2, <1>3, CommitReads DEF Inv, Settled
  <2> QED BY <2>1, <2>2
<1>5. PromotedInFull'
  <2> SUFFICES ASSUME NEW c \in Claim, c.key.scope = "agent", Examined(c.key)', Active(c)', Qualifies(c)'
               PROVE  Full(c)'
    BY DEF PromotedInFull, Full
  <2>1. Active(c) /\ Qualifies(c)
    BY CommitReads DEF Qualifies
  <2>2. Full(c)
    <3>1. CASE c.key = K
      BY <2>1, <3>1, CommitReads DEF Examined, Dirty, ClaimsOf
    <3>2. CASE c.key # K
      BY <2>1, <3>2, <1>3 DEF Inv, PromotedInFull, Full
    <3> QED BY <3>1, <3>2
  <2>3. /\ claims'[c].evidence = claims[c].evidence
        /\ claims'[InWorld(c)].evidence = claims[InWorld(c)].evidence
    BY CommitReads, InWorldIs
  <2> QED BY <2>2, <2>3 DEF Full
<1> QED BY <1>1, <1>2, <1>4, <1>5, CommitReads DEF Inv, Shape

(* A failure leaves every mark where it was.                               *)
LEMMA RaiseInv == ASSUME Inv, Raise PROVE Inv'
<1>1. /\ UNCHANGED <<claims, seen, fate, last, marks, order, config>>
      /\ tick.pc # "idle" /\ (NextSubject \/ tick' = Idle)
  BY DEF Raise, graph, queue, history
<1>2. TickShape' /\ PassRead' /\ Moving'
  BY <1>1, Onward DEF Inv, Shape
<1>3. GraphShape' /\ Behind' /\ Settled' /\ PromotedInFull'
  BY <1>1, SettledStays
<1> QED BY <1>1, <1>2, <1>3 DEF Inv, Shape, QueueShape

-----------------------------------------------------------------------------
(* Every step. *)

LEMMA InitInv == ASSUME Init PROVE Inv
<1>1. /\ config \in Configs /\ marks = [k \in Key |-> Unmarked] /\ order = <<>> /\ tick = Idle
      /\ claims = [c \in Claim |-> [evidence |-> {}, level |-> Level0[c.content], since |-> 0,
                                    until |-> Forever, defeated_by |-> Nobody]]
      /\ seen = [c \in Claim |-> {}] /\ fate = [k \in Key |-> "settled"] /\ last = [k \in Key |-> {}]
  BY DEF Init
<1>2. GraphShape
  BY <1>1 DEF GraphShape, ClaimFields
<1>3. QueueShape
  BY <1>1 DEF QueueShape, Mark, Unmarked
<1>4. TickShape /\ PassRead /\ Moving
  BY <1>1 DEF TickShape, Idle, TickFields, Places, PassRead, Moving, Examining
<1>5. \A c \in Claim : seen[c] = {} /\ claims[c].evidence = {} /\ ~Active(c)
  BY <1>1 DEF Active, Written
<1>6. Behind /\ Settled /\ PromotedInFull
  BY <1>5 DEF Behind, Settled, PromotedInFull
<1> QED BY <1>1, <1>2, <1>3, <1>4, <1>6 DEF Inv, Shape

LEMMA StutterInv == ASSUME Inv, UNCHANGED vars PROVE Inv'
<1>1. UNCHANGED <<claims, marks, order, tick, seen, fate, last, config>>
  BY DEF vars, graph, queue, history, bounds
<1>2. GraphShape' /\ Behind' /\ Settled' /\ PromotedInFull'
  BY <1>1, SettledStays
<1>3. QueueShape' /\ TickShape'
  BY <1>1 DEF Inv, Shape, QueueShape, TickShape, Places
<1>4. K' = K /\ Subject' = Subject
  BY <1>1 DEF K, Subject
<1>5. \A c : /\ Active(c)' <=> Active(c)
             /\ Qualifies(c)' <=> Qualifies(c)
             /\ Full(c)' <=> Full(c)
  BY <1>1 DEF Active, Written, Qualifies, Full
<1>6. PassRead'
  BY <1>1, <1>4, <1>5 DEF Inv, PassRead
<1>7. Moving'
  BY <1>1, <1>4 DEF Inv, Moving, Dirty, Places
<1> QED BY <1>1, <1>2, <1>3, <1>6, <1>7 DEF Inv, Shape

LEMMA StepInv == ASSUME Inv, [Next]_vars PROVE Inv'
<1>1. ASSUME Poison PROVE Inv'
  BY <1>1, SetAsideInv DEF Poison
<1>2. ASSUME TooLarge PROVE Inv'
  BY <1>2, SetAsideInv DEF TooLarge
<1> QED BY <1>1, <1>2, ClientInv, ClaimInv, BumpInv, FetchInv, SearchInv, PromoteInv,
           AssertInv, CopyInv, CommitInv, RaiseInv, StutterInv DEF Next, Reconcile

LEMMA Invariance == Spec => []Inv
<1> QED BY InitInv, StepInv, PTL DEF Spec

(* When a subject is clean and was not given up on, the last pass over it  *)
(* read all the evidence there is: of any number of writers, none is lost  *)
(* to the pass it overlaps, whichever way the passes end.                  *)
THEOREM SettledHolds == Spec => []Settled
<1>1. Inv => Settled
  BY DEF Inv
<1> QED BY <1>1, Invariance, PTL

(* Once an agent's subject is clean, each active claim that a rule selects *)
(* is in the world scope with all of its evidence, whatever crashed or was *)
(* written between the two writes of its promotion.                        *)
THEOREM PromotedInFullHolds == Spec => []PromotedInFull
<1>1. Inv => PromotedInFull
  BY DEF Inv
<1> QED BY <1>1, Invariance, PTL

(* The mark of a subject that is set aside goes with a verdict on record.  *)
LEMMA SetAsideSays ==
    ASSUME NEW reason, SetAside(reason)
    PROVE  \E v \in verdicts' : v.key = K /\ v.claims = {}
<1> DEFINE new == [key |-> K, claims |-> {}, resolution |-> reason]
<1>1. verdicts' = Merge(verdicts, {new})
  BY DEF SetAside
<1>2. CASE new \in verdicts'
  BY <1>2
<1>3. CASE new \notin verdicts'
  <2>1. PICK w \in verdicts : SameId(new, w)
    BY <1>1, <1>3 DEF Merge
  <2>2. w \in verdicts' /\ w.key = K /\ w.claims = {}
    BY <1>1, <2>1 DEF Merge, SameId
  <2> QED BY <2>2
<1> QED BY <1>2, <1>3

(* How a subject may become clean.                                         *)
Accounted(k) ==
    \/ \A c \in ClaimsOf(k) : seen'[c] = claims'[c].evidence
    \/ \E v \in verdicts' : v.key = k /\ v.claims = {}

LEMMA CleanAccounted ==
    ASSUME Inv, [Next]_vars, NEW k \in Key, Dirty(k), ~Dirty(k)'
    PROVE  Accounted(k)
<1>1. QueueShape /\ TickShape /\ marks[k].epoch \in Nat
  BY DEF Inv, Shape, QueueShape, Mark
<1>2. marks'[k].epoch # marks[k].epoch
  BY DEF Dirty
<1>3. ASSUME NEW c \in Claim, MarkDirty(c.key) PROVE FALSE
  <2>1. c.key \in Key
    BY DEF Claim
  <2>2. Dirty(c.key)' /\ \A j \in Key : j # c.key => marks'[j] = marks[j]
    BY <1>1, <1>3, <2>1, Marked
  <2> QED BY <1>2, <2>2 DEF Dirty
<1>4. ~Client
  <2>1. \A st \in Statements : st.claim \in Claim
    BY CoherenceAssumption DEF CoherenceAssumption
  <2> QED BY <1>3, <2>1 DEF Client, WriteClaim, Upgrade, Invalidate, Touch
<1>5. ~AssertFact
  BY <1>3, InWorldIs DEF AssertFact, Inv, Moving, ClaimsOf
<1>6. ASSUME NEW reason, tick.pc # "idle", SetAside(reason) PROVE Accounted(k)
  <2>1. K \in Key /\ ClearDirty(K, Subject.mark.epoch)
    BY <1>1, <1>6, FirstPlace DEF SetAside
  <2>2. k = K
    BY <1>1, <1>2, <2>1, Cleared
  <2> QED BY <1>6, <2>2, SetAsideSays DEF Accounted
<1>7. ASSUME CommitReconciliation PROVE Accounted(k)
  <2>1. k = K /\ ~(marks'[K].epoch > 0)
    BY <1>2, <1>7, CommitReads DEF Dirty
  <2> QED BY <1>7, <2>1, CommitReads DEF Accounted, ClaimsOf
<1>8. ~BumpAttempts
  <2>1. ASSUME BumpAttempts PROVE FALSE
    <3>1. marks \in [Key -> Mark] /\ K \in Key
      BY <1>1, <2>1, FirstPlace DEF BumpAttempts, QueueShape
    <3>2. marks' = [marks EXCEPT ![K].attempts = IF Dirty(K) THEN @ + 1 ELSE @]
      BY <2>1 DEF BumpAttempts
    <3> QED BY <1>2, <3>1, <3>2 DEF Mark
  <2> QED BY <2>1
<1>9. marks' # marks
  BY <1>2
<1>10. /\ ~ClaimDirty /\ ~Fetch /\ ~Search /\ ~Promote /\ ~CopyEvidence /\ ~Raise
       /\ ~UNCHANGED vars
  BY <1>9 DEF ClaimDirty, Fetch, Search, Decide, DecideNothing, Escalate, Unverified,
              OutOfCalls, EndSearch, Promote, CopyEvidence, Raise, queue, vars
<1>11. ASSUME Poison \/ TooLarge PROVE Accounted(k)
  BY <1>6, <1>11 DEF Poison, TooLarge
<1> QED BY <1>4, <1>5, <1>7, <1>8, <1>10, <1>11 DEF Next, Reconcile

(* A mark goes only if all of its subject's evidence was read, or with a   *)
(* verdict that says it was given up on: whatever the reconciler fails to  *)
(* settle is still marked.                                                 *)
THEOREM NeverSwallowedHolds == Spec => NeverSwallowed
<1>1. Inv /\ [Next]_vars =>
         [\A k \in Key : Dirty(k) /\ ~Dirty(k)' =>
             \/ \A c \in ClaimsOf(k) : seen'[c] = claims'[c].evidence
             \/ \E v \in verdicts' : v.key = k /\ v.claims = {}]_vars
  BY CleanAccounted DEF Accounted
<1> QED BY <1>1, Invariance, PTL DEF Spec, NeverSwallowed


-----------------------------------------------------------------------------
(* What becomes of a contradiction.  What a pass must face are the opposed *)
(* pairs among the claims it read: each is still to be searched, or has    *)
(* lost a member, or has a verdict, or the pass found claims it could not  *)
(* settle, or its rounds ran out.  And what it read is still what there is *)
(* when its commit finds the epoch unmoved.                                *)

(* In memory, what was read as active is; and while the epoch is the one   *)
(* claimed, all that is active was read so, as it is.                      *)
Knows ==
    tick.pc \in Examining =>
        /\ config.store = "memory" =>
             \A a \in ActiveIn(tick.read) : claims[a].defeated_by = Nobody
        /\ marks[K].epoch = Subject.mark.epoch =>
             \A a \in ClaimsOf(K) : Active(a) =>
                /\ a \in ActiveIn(tick.read)
                /\ tick.read[a].since = claims[a].since /\ tick.read[a].until = claims[a].until

(* The losers left the working set; a defeat on the list has its loser.    *)
Yields ==
    tick.pc \in Examining =>
        /\ tick.working \subseteq ActiveIn(tick.read)
        /\ \A d \in tick.defeats : d.winner \in Claim /\ d.loser \in ClaimsOf(K) \ tick.working
        /\ \A v \in tick.found :
              /\ v.key = K /\ v.claims \subseteq ActiveIn(tick.read)
              /\ v.resolution \in Open \cup {"defeat"}
              /\ v.resolution = "defeat" => \E d \in tick.defeats : d.loser \in v.claims

Covered(a, b) ==
    \/ tick.pc = "search" /\ {a, b} \subseteq tick.working
    \/ \E d \in tick.defeats : d.loser \in {a, b}
    \/ \E v \in verdicts \cup tick.found : v.claims = {a, b}
    \/ \E v \in tick.found : v.resolution \in Open

(* Unless the rounds ran out.                                              *)
Tracked ==
    tick.pc \in Examining /\ (tick.pc = "search" \/ tick.rounds # config.max_mus) =>
        \A a, b \in ActiveIn(tick.read) :
            Opposed(a, b) /\ Overlap(tick.read, a, b) => Covered(a, b)

(* Unless something was left open, each round defeated one claim.          *)
Counted ==
    tick.pc \in Examining =>
        /\ IsFiniteSet(tick.found) /\ tick.rounds \in Nat
        /\ (\A v \in tick.found : v.resolution \notin Open) => Cardinality(tick.found) = tick.rounds

(* A defeat on record has its loser in the graph.                          *)
OnRecord ==
    \A v \in verdicts :
        /\ v.resolution \in Open \cup {"defeat"} \/ v.claims = {}
        /\ v.resolution = "defeat" =>
              \E a \in v.claims : a \in Claim /\ claims[a].defeated_by # Nobody

(* A pass begins with nothing found.                                       *)
Fresh == tick.pc \in {"next", "fetch"} => tick.found = {} /\ tick.defeats = {} /\ tick.rounds = 0

Facing == Knows /\ Yields /\ Tracked /\ Counted /\ Fresh /\ OnRecord /\ ConflictsFaced

(* Verdicts are merged by their ids.                                       *)
LEMMA Merged ==
    ASSUME NEW old, NEW new, NEW v \in new
    PROVE  /\ old \subseteq Merge(old, new) /\ Merge(old, new) \subseteq old \cup new
           /\ \E w \in Merge(old, new) :
                 /\ w = v \/ w \in old
                 /\ w.key = v.key /\ w.claims = v.claims
                 /\ v.claims = {} => w.resolution = v.resolution
<1>1. old \subseteq Merge(old, new) /\ Merge(old, new) \subseteq old \cup new
  BY DEF Merge
<1>2. CASE v \in Merge(old, new)
  BY <1>1, <1>2
<1>3. CASE v \notin Merge(old, new)
  <2>1. PICK w \in old : SameId(v, w)
    BY <1>3 DEF Merge
  <2> QED BY <1>1, <2>1 DEF SameId
<1> QED BY <1>1, <1>2, <1>3

(* What no step of the queue or of a frame disturbs: the verdicts stay,    *)
(* and a claim of a subject that is clean afterwards is what it was.       *)
LEMMA FacedStays ==
    ASSUME Inv, ConflictsFaced, UNCHANGED <<config, last>>, verdicts \subseteq verdicts',
           \A k \in Key : ~Dirty(k)' /\ fate'[k] = "settled" =>
               /\ ~Dirty(k) /\ fate[k] = "settled"
               /\ \A c \in ClaimsOf(k) : claims'[c] = claims[c]
    PROVE  ConflictsFaced'
<1> SUFFICES ASSUME NEW a \in Claim, NEW b \in Claim,
                    a.key = b.key, Active(a)', Active(b)', Opposed(a, b)',
                    Overlap(claims', a, b), ~Dirty(a.key)', fate'[a.key] = "settled"
             PROVE  (\E v \in verdicts' : v.claims = {a, b}) \/ Halted(a.key)' \/ SpentOnDefeats(a.key)'
  BY DEF ConflictsFaced, Overlap, Examined
<1>1. a.key \in Key /\ a \in ClaimsOf(a.key) /\ b \in ClaimsOf(a.key)
  BY DEF Claim, ClaimsOf
<1>2. ~Dirty(a.key) /\ fate[a.key] = "settled" /\ claims'[a] = claims[a] /\ claims'[b] = claims[b]
  BY <1>1
<1>3. Active(a) /\ Active(b) /\ Opposed(a, b) /\ Overlap(claims, a, b)
  BY <1>2 DEF Active, Written, Opposed, Overlap
<1>4. (\E v \in verdicts : v.claims = {a, b}) \/ Halted(a.key) \/ SpentOnDefeats(a.key)
  BY <1>2, <1>3 DEF ConflictsFaced, Examined
<1>5. (Halted(a.key) => Halted(a.key)') /\ (SpentOnDefeats(a.key) => SpentOnDefeats(a.key)')
  BY DEF Halted, SpentOnDefeats
<1> QED BY <1>4, <1>5

(* A step that leaves the frame's findings alone.                          *)
Remains ==
    tick'.pc \in Examining =>
        /\ tick.pc \in Examining /\ (tick'.pc = "search" <=> tick.pc = "search")
        /\ tick'.batch = tick.batch /\ tick'.read = tick.read /\ tick'.working = tick.working
        /\ tick'.found = tick.found /\ tick'.defeats = tick.defeats /\ tick'.rounds = tick.rounds
RemainsFresh ==
    tick'.pc \in {"next", "fetch"} =>
        /\ tick.pc \in {"next", "fetch"}
        /\ tick'.found = tick.found /\ tick'.defeats = tick.defeats /\ tick'.rounds = tick.rounds

LEMMA RemainsFacing ==
    ASSUME Facing, Remains, RemainsFresh, UNCHANGED <<verdicts, config>>
    PROVE  Yields' /\ Tracked' /\ Counted' /\ Fresh'
<1>0. Fresh'
  BY DEF Facing, Fresh, RemainsFresh
<1> SUFFICES ASSUME tick'.pc \in Examining PROVE Yields' /\ Tracked' /\ Counted'
  BY <1>0 DEF Yields, Tracked, Counted
<1>1. /\ tick.pc \in Examining /\ (tick'.pc = "search" <=> tick.pc = "search")
      /\ tick'.batch = tick.batch /\ tick'.read = tick.read /\ tick'.working = tick.working
      /\ tick'.found = tick.found /\ tick'.defeats = tick.defeats /\ tick'.rounds = tick.rounds
  BY DEF Remains
<1>2. K' = K
  BY <1>1 DEF K, Subject
<1>3. Yields'
  BY <1>1, <1>2 DEF Facing, Yields
<1>4. \A a, b : (Covered(a, b)' <=> Covered(a, b)) /\ (Opposed(a, b)' <=> Opposed(a, b))
  BY <1>1, <1>2 DEF Covered, Opposed
<1>5. Tracked'
  BY <1>1, <1>4 DEF Facing, Tracked
<1>6. Counted'
  BY <1>1 DEF Facing, Counted
<1> QED BY <1>3, <1>5, <1>6

(* A write of any kind: its subject's epoch is past the one claimed.       *)
LEMMA WriteFacing ==
    ASSUME Inv, Facing, NEW c \in Claim, GrowsAt(c), UNCHANGED <<verdicts, history, config>>,
           \A k \in Key \ {c.key} : marks'[k].epoch = marks[k].epoch, Dirty(c.key)',
           Remains, RemainsFresh,
           tick'.pc \in Examining /\ c.key = K => marks'[K].epoch # Subject.mark.epoch
    PROVE  Facing'
<1>1. Yields' /\ Tracked' /\ Counted' /\ Fresh'
  BY RemainsFacing
<1>2. \A a \in Claim : claims'[a].defeated_by = claims[a].defeated_by
  BY DEF GrowsAt
<1>3. \A a \in Claim : a.key # c.key => claims'[a] = claims[a]
  BY DEF GrowsAt
<1>4. OnRecord'
  BY <1>2 DEF Facing, OnRecord
<1>5. ConflictsFaced'
  <2>1. \A k \in Key : ~Dirty(k)' /\ fate'[k] = "settled" =>
               /\ ~Dirty(k) /\ fate[k] = "settled"
               /\ \A d \in ClaimsOf(k) : claims'[d] = claims[d]
    BY <1>3 DEF history, Dirty, ClaimsOf
  <2> QED BY <2>1, FacedStays DEF Facing, history
<1>6. Knows'
  <2> SUFFICES ASSUME tick'.pc \in Examining PROVE Knows'
    BY DEF Knows
  <2>1. tick.pc \in Examining /\ tick'.read = tick.read /\ tick'.batch = tick.batch
    BY DEF Remains
  <2>2. K' = K /\ Subject' = Subject /\ K \in Key
    BY <2>1, FirstPlace DEF K, Subject, Examining, Inv, Shape
  <2>3. ActiveIn(tick.read) \subseteq Claim
    BY <2>1 DEF ActiveIn, Inv, PassRead, ClaimsOf
  <2>4. config.store = "memory" => \A a \in ActiveIn(tick.read) : claims'[a].defeated_by = Nobody
    BY <1>2, <2>1, <2>3 DEF Facing, Knows
  <2>5. ASSUME marks'[K].epoch = Subject.mark.epoch, NEW a \in ClaimsOf(K), Active(a)'
        PROVE  /\ a \in ActiveIn(tick.read)
               /\ tick.read[a].since = claims'[a].since /\ tick.read[a].until = claims'[a].until
    <3>1. K # c.key
      BY <2>5
    <3>2. marks[K].epoch = Subject.mark.epoch
      BY <3>1, <2>2, <2>5
    <3>3. claims'[a] = claims[a]
      BY <3>1, <1>3 DEF ClaimsOf
    <3>4. Active(a)
      BY <2>5, <3>3 DEF Active, Written
    <3> QED BY <2>1, <3>2, <3>3, <3>4 DEF Facing, Knows
  <2> QED BY <2>1, <2>2, <2>4, <2>5 DEF Knows
<1> QED BY <1>1, <1>4, <1>5, <1>6 DEF Facing

(* Past it, for what marks its subject.                                    *)
LEMMA MarkFacing ==
    ASSUME Inv, Facing, NEW c \in Claim, GrowsAt(c), MarkDirty(c.key),
           UNCHANGED <<verdicts, history, config>>, Remains, RemainsFresh
    PROVE  Facing'
<1>1. c.key \in Key
  BY DEF Claim
<1>2. /\ Dirty(c.key)' /\ marks'[c.key].epoch = marks[c.key].epoch + 1
      /\ \A k \in Key : k # c.key => marks'[k] = marks[k]
  BY <1>1, Marked DEF Inv, Shape
<1>3. tick'.pc \in Examining /\ c.key = K => marks'[K].epoch # Subject.mark.epoch
  <2> SUFFICES ASSUME tick.pc \in Examining, c.key = K PROVE marks'[K].epoch # Subject.mark.epoch
    BY DEF Remains
  <2>1. Subject.mark \in Mark /\ Subject.mark.epoch <= marks[K].epoch /\ K \in Key
    BY FirstPlace DEF Examining, Inv, Shape
  <2>2. Subject.mark.epoch \in Nat /\ marks[K].epoch \in Nat
    BY <2>1 DEF Mark, Inv, Shape, QueueShape
  <2> QED BY <1>2, <2>1, <2>2
<1> QED BY <1>2, <1>3, WriteFacing

LEMMA ClientFacing == ASSUME Inv, Facing, Client PROVE Facing'
<1>1. PICK c \in Claim : /\ GrowsAt(c) /\ MarkDirty(c.key)
                         /\ UNCHANGED <<verdicts, tick, history, config>>
  BY ClientWrites
<1>2. Remains /\ RemainsFresh
  BY <1>1 DEF Remains, RemainsFresh
<1> QED BY <1>1, <1>2, MarkFacing

LEMMA AssertFacing == ASSUME Inv, Facing, AssertFact PROVE Facing'
<1> DEFINE w == InWorld(tick.moving)
<1> HIDE DEF w
<1>1. /\ w \in Claim /\ GrowsAt(w) /\ MarkDirty(w.key)
      /\ tick.pc = "assert" /\ tick' = [tick EXCEPT !.pc = "copy"]
      /\ UNCHANGED <<verdicts, history, config>>
  BY AssertWrites DEF w
<1>2. Remains /\ RemainsFresh
  BY <1>1 DEF Remains, RemainsFresh, Examining, Inv, Shape, TickShape, TickFields
<1> QED BY <1>1, <1>2, MarkFacing

(* What is copied changes evidence alone, of a subject marked before.      *)
LEMMA CopyFacing == ASSUME Inv, Facing, CopyEvidence PROVE Facing'
<1>0. PICK m, w : m = tick.moving /\ w = InWorld(m)
  OBVIOUS
<1>1. tick.pc = "copy" /\ UNCHANGED <<verdicts, history, config, marks>>
  BY DEF CopyEvidence, history, queue, bounds
<1>2. /\ m \in Claim /\ w \in Claim /\ Dirty(w.key)
      /\ \A i \in Places : tick.batch[i].key = w.key => tick.batch[i].mark.epoch < marks[w.key].epoch
  BY <1>0, <1>1, InWorldIs DEF Inv, Moving, ClaimsOf
<1>3. GrowsAt(w)
  <2>1. claims' = [claims EXCEPT ![w].evidence = @ \cup claims[m].evidence]
    BY <1>0 DEF CopyEvidence
  <2>2. DOMAIN claims = Claim /\ \A d \in Claim : DOMAIN claims[d] = ClaimFields
    BY DEF Inv, Shape, GraphShape
  <2> QED BY <1>2, <2>1, <2>2 DEF GrowsAt, ClaimFields
<1>4. Remains /\ RemainsFresh
  BY <1>1 DEF CopyEvidence, Remains, RemainsFresh, Examining, Inv, Shape, TickShape, TickFields
<1>5. w.key = K => marks[K].epoch # Subject.mark.epoch
  <2>1. 1 \in Places /\ K = tick.batch[1].key /\ Subject = tick.batch[1] /\ K \in Key
    BY <1>1, FirstPlace DEF Inv, Shape
  <2>2. marks[K].epoch \in Nat
    BY <2>1 DEF Inv, Shape, QueueShape, Mark
  <2> QED BY <1>2, <2>1, <2>2
<1>6. Dirty(w.key)'
  BY <1>1, <1>2 DEF Dirty
<1> QED BY <1>1, <1>2, <1>3, <1>4, <1>5, <1>6, WriteFacing

(* A step that writes neither claims, nor verdicts, nor an epoch.          *)
Apart ==
    /\ UNCHANGED <<claims, verdicts, fate, last, config>>
    /\ \A k \in Key : marks'[k].epoch = marks[k].epoch

LEMMA ApartFaced == ASSUME Inv, Facing, Apart PROVE OnRecord' /\ ConflictsFaced'
<1>1. OnRecord'
  BY DEF Facing, OnRecord, Apart
<1>2. \A k \in Key : ~Dirty(k)' /\ fate'[k] = "settled" =>
         /\ ~Dirty(k) /\ fate[k] = "settled"
         /\ \A d \in ClaimsOf(k) : claims'[d] = claims[d]
  BY DEF Apart, Dirty
<1> QED BY <1>1, <1>2, FacedStays DEF Facing, Apart

(* Within a subject whose claims were read.                                *)
LEMMA ApartKnows ==
    ASSUME Inv, Facing, Apart, tick.pc \in Examining,
           tick'.batch = tick.batch, tick'.read = tick.read
    PROVE  K' = K /\ Knows'
<1>1. K' = K /\ Subject' = Subject /\ K \in Key
  BY FirstPlace DEF K, Subject, Examining, Inv, Shape
<1>2. \A a : Active(a)' <=> Active(a)
  BY DEF Apart, Active, Written
<1> QED BY <1>1, <1>2 DEF Apart, Knows, Facing

(* Outside of one.                                                         *)
LEMMA AwayFacing ==
    ASSUME Inv, Facing, Apart, tick'.pc \notin Examining, Fresh'
    PROVE  Facing'
<1>1. Knows' /\ Yields' /\ Tracked' /\ Counted'
  BY DEF Knows, Yields, Tracked, Counted
<1> QED BY <1>1, ApartFaced DEF Facing

LEMMA NextAway ==
    ASSUME NextSubject \/ tick' = Idle
    PROVE  tick'.pc \notin Examining /\ Fresh'
<1>1. /\ Idle.pc = "idle" /\ DOMAIN Idle = TickFields
      /\ Idle.found = {} /\ Idle.defeats = {} /\ Idle.rounds = 0
  BY DEF Idle, TickFields
<1>2. CASE tick' = Idle
  BY <1>1, <1>2 DEF Examining, Fresh
<1>3. CASE tick' = [Idle EXCEPT !.pc = "next", !.batch = Tail(tick.batch)]
  <2>1. tick'.pc = "next" /\ tick'.found = {} /\ tick'.defeats = {} /\ tick'.rounds = 0
    BY <1>3 DEF Idle
  <2> QED BY <2>1 DEF Examining, Fresh
<1> QED BY <1>2, <1>3 DEF NextSubject

LEMMA ClaimFacing == ASSUME Inv, Facing, ClaimDirty PROVE Facing'
<1>1. Apart
  BY DEF ClaimDirty, Apart, graph, queue, history, bounds
<1>2. tick'.pc = "next" /\ tick'.found = {} /\ tick'.defeats = {} /\ tick'.rounds = 0
  BY DEF ClaimDirty, Idle
<1> QED BY <1>1, <1>2, AwayFacing DEF Examining, Fresh

LEMMA BumpFacing == ASSUME Inv, Facing, BumpAttempts PROVE Facing'
<1>1. K \in Key /\ marks \in [Key -> Mark]
  BY FirstPlace DEF BumpAttempts, Inv, Shape, QueueShape
<1>2. marks' = [marks EXCEPT ![K].attempts = IF Dirty(K) THEN @ + 1 ELSE @]
  BY DEF BumpAttempts
<1>3. \A k \in Key : marks'[k].epoch = marks[k].epoch
  BY <1>1, <1>2 DEF Mark
<1>4. Apart
  BY <1>3 DEF BumpAttempts, Apart, graph, history, bounds
<1>5. /\ tick.pc = "next" /\ tick'.pc = "fetch"
      /\ tick'.found = tick.found /\ tick'.defeats = tick.defeats /\ tick'.rounds = tick.rounds
  BY DEF BumpAttempts, Goto, Inv, Shape, TickShape, TickFields
<1> QED BY <1>4, <1>5, AwayFacing DEF Examining, Fresh, Facing

LEMMA RaiseFacing == ASSUME Inv, Facing, Raise PROVE Facing'
<1>1. Apart
  BY DEF Raise, Apart, graph, queue, history
<1> QED BY <1>1, NextAway, AwayFacing DEF Raise

LEMMA StutterFacing == ASSUME Inv, Facing, UNCHANGED vars PROVE Facing'
<1>1. UNCHANGED <<claims, verdicts, marks, order, tick, seen, fate, last, config>>
  BY DEF vars, graph, queue, history, bounds
<1>2. Apart /\ Remains /\ RemainsFresh
  BY <1>1 DEF Apart, Remains, RemainsFresh
<1>3. CASE tick.pc \in Examining
  BY <1>1, <1>2, <1>3, ApartKnows, ApartFaced, RemainsFacing DEF Facing
<1>4. CASE tick.pc \notin Examining
  BY <1>1, <1>2, <1>4, AwayFacing DEF Facing, Fresh
<1> QED BY <1>3, <1>4

LEMMA PromoteFacing == ASSUME Inv, Facing, Promote PROVE Facing'
<1>1. Apart /\ tick.pc = "promote"
  BY DEF Promote, Apart, graph, queue, history, bounds
<1>2. DOMAIN tick = TickFields
  BY DEF Inv, Shape, TickShape
<1>3. /\ tick'.pc \in {"promote", "assert", "commit"}
      /\ tick'.batch = tick.batch /\ tick'.read = tick.read /\ tick'.working = tick.working
      /\ tick'.found = tick.found /\ tick'.defeats = tick.defeats /\ tick'.rounds = tick.rounds
  <2>1. CASE tick.todo = {} /\ Goto("commit")
    BY <1>2, <2>1 DEF Goto, TickFields
  <2>2. CASE \E c \in tick.todo : tick' = [tick EXCEPT !.todo = @ \ {c}]
    BY <1>1, <1>2, <2>2 DEF TickFields
  <2>3. CASE \E c \in tick.todo : tick' = [tick EXCEPT !.pc = "assert", !.moving = c]
    BY <1>2, <2>3 DEF TickFields
  <2> QED BY <2>1, <2>2, <2>3 DEF Promote
<1>4. Remains /\ RemainsFresh
  BY <1>1, <1>3 DEF Remains, RemainsFresh, Examining
<1>5. Knows'
  BY <1>1, <1>3, ApartKnows DEF Examining
<1> QED BY <1>1, <1>4, <1>5, ApartFaced, RemainsFacing DEF Facing, Apart

(* A pair with no verdict is a candidate, and is searched.                 *)
LEMMA FetchFacing == ASSUME Inv, Facing, Fetch PROVE Facing'
<1> DEFINE read == ReadClaims(K)
           pairs == CandidatePairs(read)
<1>1. tick.pc = "fetch" /\ K \in Key /\ Apart
  BY FirstPlace DEF Fetch, Inv, Shape, Apart, graph, queue, history, bounds
<1>2. DOMAIN tick = TickFields
  BY DEF Inv, Shape, TickShape
<1>3. DOMAIN claims = Claim /\ \A d \in Claim : DOMAIN claims[d] = ClaimFields
  BY DEF Inv, Shape, GraphShape
<1>4. CASE tick'.pc = "too-large"
  BY <1>1, <1>4, AwayFacing DEF Examining, Fresh
<1>5. CASE tick'.pc # "too-large"
  <2>1. tick' = [tick EXCEPT !.pc = IF pairs = {} THEN "promote" ELSE "search",
                    !.read = read, !.working = UNION pairs,
                    !.todo = {c \in ActiveIn(read) : c.content \in Ruled}]
    BY <1>2, <1>5 DEF Fetch, TickFields
  <2>2. /\ tick'.pc = (IF pairs = {} THEN "promote" ELSE "search") /\ tick'.batch = tick.batch
        /\ tick'.read = read /\ tick'.working = UNION pairs
        /\ tick'.found = tick.found /\ tick'.defeats = tick.defeats /\ tick'.rounds = tick.rounds
    BY <1>2, <2>1 DEF TickFields
  <2>3. K' = K /\ Subject' = Subject
    BY <2>2 DEF K, Subject
  <2>4. DOMAIN read = {c \in ClaimsOf(K) : Written(c)}
    BY DEF ReadClaims
  <2>5. ASSUME NEW c \in DOMAIN read
        PROVE  /\ config.store = "memory" => read[c] = claims[c]
               /\ claims[c].defeated_by = Nobody => read[c].defeated_by = Nobody
               /\ read[c].since = claims[c].since /\ read[c].until = claims[c].until
    <3>1. CASE config.store = "memory"
      BY <2>4, <2>5, <3>1 DEF ReadClaims
    <3>2. CASE config.store # "memory"
      <4>1. c \in Claim
        BY <2>4, <2>5 DEF ClaimsOf
      <4>2. read[c] = [claims[c] EXCEPT !.defeated_by = Nobody]
        BY <2>4, <2>5, <3>2 DEF ReadClaims
      <4> HIDE DEF read
      <4> QED BY <1>3, <3>2, <4>1, <4>2 DEF ClaimFields
    <3> QED BY <3>1, <3>2
  <2>6. \A a \in ActiveIn(read) : a \in DOMAIN read /\ read[a].defeated_by = Nobody
    BY DEF ActiveIn
  <2>7. UNION pairs \subseteq ActiveIn(read)
    BY DEF CandidatePairs
  <2>8. ASSUME NEW a \in ActiveIn(read), NEW b \in ActiveIn(read),
               Opposed(a, b), Overlap(read, a, b)
        PROVE  \/ {a, b} \subseteq UNION pairs
               \/ \E v \in verdicts : v.claims = {a, b}
    <3>1. Says({a, b}) \in Comparable
      BY <2>8 DEF Opposed
    <3>2. \A x \in {a, b} : \A y \in {a, b} \ {x} : Overlap(read, x, y)
      BY <2>8 DEF Overlap
    <3>3. {a, b} \in {{x, y} : x, y \in ActiveIn(read)}
      OBVIOUS
    <3>4. CASE \A v \in verdicts : v.claims # {a, b}
      <4>1. {a, b} \in pairs
        BY <3>1, <3>2, <3>3, <3>4 DEF CandidatePairs
      <4> QED BY <4>1
    <3> QED BY <3>4
  <2>9. tick.found = {} /\ tick.defeats = {} /\ tick.rounds = 0
    BY <1>1 DEF Facing, Fresh
  <2> HIDE DEF read
  <2>10. Knows'
    <3>1. \A a \in ActiveIn(read) : config.store = "memory" => claims[a].defeated_by = Nobody
      BY <2>5, <2>6
    <3>2. ASSUME NEW a \in ClaimsOf(K), Active(a)
          PROVE  /\ a \in ActiveIn(read)
                 /\ read[a].since = claims[a].since /\ read[a].until = claims[a].until
      <4>1. a \in DOMAIN read /\ claims[a].defeated_by = Nobody
        BY <2>4, <3>2 DEF Active
      <4> QED BY <2>5, <4>1 DEF ActiveIn
    <3>3. \A a : Active(a)' <=> Active(a)
      BY <1>1 DEF Apart, Active, Written
    <3> QED BY <1>1, <2>2, <2>3, <3>1, <3>2, <3>3 DEF Knows, Apart
  <2>11. Yields'
    BY <2>2, <2>7, <2>9 DEF Yields
  <2>12. Tracked'
    <3> SUFFICES ASSUME NEW a \in ActiveIn(read), NEW b \in ActiveIn(read),
                        Opposed(a, b)', Overlap(read, a, b)
                 PROVE  Covered(a, b)'
      BY <2>2 DEF Tracked
    <3>1. Opposed(a, b) /\ verdicts' = verdicts
      BY <1>1 DEF Opposed, Apart
    <3>2. CASE \E v \in verdicts : v.claims = {a, b}
      BY <3>1, <3>2 DEF Covered
    <3>3. CASE {a, b} \subseteq UNION pairs
      <4>1. pairs # {}
        BY <3>3
      <4> QED BY <2>2, <3>3, <4>1 DEF Covered
    <3> QED BY <2>8, <3>1, <3>2, <3>3
  <2>13. Fresh'
    BY <2>2 DEF Fresh
  <2>14. Counted'
    BY <2>2, <2>9, FS_EmptySet DEF Counted
  <2> QED BY <1>1, <2>10, <2>11, <2>12, <2>13, <2>14, ApartFaced DEF Facing
<1> QED BY <1>4, <1>5

LEMMA FoundIs ==
    ASSUME NEW cs, NEW resolution
    PROVE  /\ tick.found \subseteq Found(cs, resolution)
           /\ \A v \in Found(cs, resolution) :
                 \/ v \in tick.found
                 \/ v.key = K /\ v.claims = cs /\ v.resolution = resolution
           /\ \E w \in Found(cs, resolution) :
                 /\ w.key = K /\ w.claims = cs
                 /\ w.resolution = resolution \/ w \in tick.found
<1> DEFINE new == [key |-> K, claims |-> cs, resolution |-> resolution]
<1>1. new.key = K /\ new.claims = cs /\ new.resolution = resolution
  OBVIOUS
<1> HIDE DEF new
<1>2. Found(cs, resolution) = Merge(tick.found, {new})
  BY DEF Found, new
<1>3. /\ tick.found \subseteq Merge(tick.found, {new})
      /\ Merge(tick.found, {new}) \subseteq tick.found \cup {new}
      /\ \E w \in Merge(tick.found, {new}) :
            (w = new \/ w \in tick.found) /\ w.key = K /\ w.claims = cs
  BY <1>1, Merged
<1> QED BY <1>1, <1>2, <1>3

(* What the search works on was read as active, and is of its subject.     *)
LEMMA Working ==
    ASSUME Inv, Facing, tick.pc = "search"
    PROVE  /\ tick.working \subseteq ActiveIn(tick.read) /\ ActiveIn(tick.read) \subseteq ClaimsOf(K)
           /\ ClaimsOf(K) \subseteq Claim
BY DEF Examining, Facing, Yields, ActiveIn, Inv, PassRead, ClaimsOf

LEMMA DecideFinds == ASSUME Inv, Facing, K' = K, Apart, Decide PROVE Yields' /\ Tracked'
<1>1. PICK a \in tick.working, b \in tick.working : \E until :
        tick' = [tick EXCEPT !.rounds = @ + 1, !.working = @ \ {b},
                        !.found = Found({a, b}, "defeat"),
                        !.defeats = @ \cup {[winner |-> a, loser |-> b, until |-> until]}]
  BY DEF Decide
<1>2. tick.pc = "search" /\ DOMAIN tick = TickFields
  BY DEF Decide, Searching, Inv, Shape, TickShape
<1>3. PICK new :
        /\ tick'.pc = "search" /\ tick'.read = tick.read /\ tick'.working = tick.working \ {b}
        /\ tick'.found = Found({a, b}, "defeat")
        /\ tick'.defeats = tick.defeats \cup {new} /\ new.winner = a /\ new.loser = b
  <2>1. PICK until :
          tick' = [tick EXCEPT !.rounds = @ + 1, !.working = @ \ {b},
                        !.found = Found({a, b}, "defeat"),
                        !.defeats = @ \cup {[winner |-> a, loser |-> b, until |-> until]}]
    BY <1>1
  <2> DEFINE d == [winner |-> a, loser |-> b, until |-> until]
  <2>2. d.winner = a /\ d.loser = b
    OBVIOUS
  <2> HIDE DEF d
  <2>3. tick' = [tick EXCEPT !.rounds = @ + 1, !.working = @ \ {b},
                        !.found = Found({a, b}, "defeat"), !.defeats = @ \cup {d}]
    BY <2>1 DEF d
  <2> QED BY <1>2, <2>2, <2>3 DEF TickFields
<1>4. /\ tick.working \subseteq ActiveIn(tick.read)
      /\ \A d \in tick.defeats : d.winner \in Claim /\ d.loser \in ClaimsOf(K) \ tick.working
      /\ \A v \in tick.found :
            /\ v.key = K /\ v.claims \subseteq ActiveIn(tick.read)
            /\ v.resolution \in Open \cup {"defeat"}
            /\ v.resolution = "defeat" => \E d \in tick.defeats : d.loser \in v.claims
  BY <1>2 DEF Facing, Yields, Examining
<1>5. a \in Claim /\ b \in ClaimsOf(K) /\ {a, b} \subseteq ActiveIn(tick.read)
  BY <1>2, Working
<1>6. \E d \in tick'.defeats : d.loser = b
  BY <1>3
<1>7. \A d \in tick'.defeats : d.winner \in Claim /\ d.loser \in ClaimsOf(K) \ tick'.working
  BY <1>3, <1>4, <1>5
<1>8. \A v \in tick'.found :
            /\ v.key = K /\ v.claims \subseteq ActiveIn(tick.read)
            /\ v.resolution \in Open \cup {"defeat"}
            /\ v.resolution = "defeat" => \E d \in tick'.defeats : d.loser \in v.claims
  <2> SUFFICES ASSUME NEW v \in tick'.found
               PROVE  /\ v.key = K /\ v.claims \subseteq ActiveIn(tick.read)
                      /\ v.resolution \in Open \cup {"defeat"}
                      /\ v.resolution = "defeat" => \E d \in tick'.defeats : d.loser \in v.claims
    OBVIOUS
  <2>1. CASE v \in tick.found
    BY <2>1, <1>3, <1>4
  <2>2. CASE v.key = K /\ v.claims = {a, b} /\ v.resolution = "defeat"
    BY <2>2, <1>5, <1>6
  <2> QED BY <2>1, <2>2, <1>3, FoundIs
<1>9. Yields'
  BY <1>3, <1>4, <1>7, <1>8 DEF Yields
<1>10. Tracked'
  <2> SUFFICES ASSUME NEW x \in ActiveIn(tick.read), NEW y \in ActiveIn(tick.read),
                      Opposed(x, y)', Overlap(tick.read, x, y)
               PROVE  Covered(x, y)'
    BY <1>3 DEF Tracked
  <2>1. Covered(x, y)
    BY <1>2 DEF Facing, Tracked, Examining, Apart, Opposed
  <2>2. CASE {x, y} \subseteq tick.working
    BY <2>2, <1>3, <1>6 DEF Covered
  <2>3. CASE \E d \in tick.defeats : d.loser \in {x, y}
    BY <2>3, <1>3 DEF Covered
  <2>4. CASE \/ \E v \in verdicts \cup tick.found : v.claims = {x, y}
             \/ \E v \in tick.found : v.resolution \in Open
    BY <2>4, <1>3, FoundIs DEF Covered, Apart
  <2> QED BY <2>1, <2>2, <2>3, <2>4 DEF Covered
<1> QED BY <1>9, <1>10

LEMMA NothingFinds == ASSUME Inv, Facing, K' = K, Apart, DecideNothing PROVE Yields' /\ Tracked'
<1>1. PICK c \in tick.working :
        tick' = [tick EXCEPT !.rounds = @ + 1, !.found = Found({c}, "none")]
  BY DEF DecideNothing
<1>2. tick.pc = "search" /\ DOMAIN tick = TickFields
  BY DEF DecideNothing, Searching, Inv, Shape, TickShape
<1>3. /\ tick'.pc = "search" /\ tick'.read = tick.read /\ tick'.working = tick.working
      /\ tick'.found = Found({c}, "none") /\ tick'.defeats = tick.defeats
  BY <1>1, <1>2 DEF TickFields
<1>4. c \in ActiveIn(tick.read)
  BY <1>2, Working
<1>5. Yields'
  <2>1. \A v \in tick'.found : v \in tick.found \/ (v.key = K /\ v.claims = {c} /\ v.resolution = "none")
    BY <1>3, FoundIs
  <2> QED BY <1>2, <1>3, <1>4, <2>1 DEF Facing, Yields, Examining, Open
<1>6. Tracked'
  <2> SUFFICES ASSUME NEW x \in ActiveIn(tick.read), NEW y \in ActiveIn(tick.read),
                      Opposed(x, y)', Overlap(tick.read, x, y)
               PROVE  Covered(x, y)'
    BY <1>3 DEF Tracked
  <2>1. Covered(x, y)
    BY <1>2 DEF Facing, Tracked, Examining, Apart, Opposed
  <2>2. tick.found \subseteq tick'.found
    BY <1>3, FoundIs
  <2> QED BY <2>1, <2>2, <1>2, <1>3 DEF Covered, Apart
<1> QED BY <1>5, <1>6

(* An open verdict is on the list unless a verdict about those claims is,  *)
(* which cannot be a defeat: its loser would not be working any more.      *)
LEMMA OpenFound ==
    ASSUME Inv, Facing, tick.pc = "search", NEW m, m \subseteq tick.working, NEW resolution \in Open
    PROVE  \E w \in Found(m, resolution) : w.resolution \in Open
<1>1. PICK w \in Found(m, resolution) :
         w.claims = m /\ (w.resolution = resolution \/ w \in tick.found)
  BY FoundIs
<1>2. w \in tick.found => /\ w.resolution \in Open \cup {"defeat"}
                          /\ w.resolution = "defeat" => \E d \in tick.defeats : d.loser \in m
  <2> SUFFICES ASSUME w \in tick.found
               PROVE  /\ w.resolution \in Open \cup {"defeat"}
                      /\ w.resolution = "defeat" => \E d \in tick.defeats : d.loser \in m
    OBVIOUS
  <2>1. /\ w.resolution \in Open \cup {"defeat"}
        /\ w.resolution = "defeat" => \E d \in tick.defeats : d.loser \in w.claims
    BY DEF Facing, Yields, Examining
  <2> QED BY <1>1, <2>1
<1>3. \A d \in tick.defeats : d.loser \notin m
  BY DEF Facing, Yields, Examining
<1>4. CASE w \in tick.found
  <2>1. w.resolution # "defeat"
    BY <1>2, <1>3, <1>4
  <2> QED BY <1>2, <1>4, <2>1
<1>5. CASE w.resolution = resolution
  BY <1>5
<1> QED BY <1>1, <1>4, <1>5

LEMMA StopFinds ==
    ASSUME Inv, Facing, K' = K, Apart, tick.pc = "search", NEW m, m \subseteq tick.working, StopWith(m)
    PROVE  Yields' /\ Tracked'
<1>1. DOMAIN tick = TickFields
  BY DEF Inv, Shape, TickShape
<1>2. /\ tick'.pc = "promote" /\ tick'.read = tick.read /\ tick'.working = tick.working
      /\ tick'.found = Found(m, "escalated") /\ tick'.defeats = tick.defeats
  BY <1>1 DEF TickFields, StopWith
<1>3. m \subseteq ActiveIn(tick.read)
  BY Working
<1>4. \A v \in tick'.found :
         v \in tick.found \/ (v.key = K /\ v.claims = m /\ v.resolution = "escalated")
  BY <1>2, FoundIs
<1>5. Yields'
  BY <1>2, <1>3, <1>4 DEF Facing, Yields, Examining, Open
<1>6. \E w \in tick'.found : w.resolution \in Open
  BY <1>2, OpenFound DEF Open
<1>7. Tracked'
  BY <1>6 DEF Tracked, Covered
<1> QED BY <1>5, <1>7

(* Nothing opposed is left in a consistent working set.                    *)
LEMMA EndFinds == ASSUME Inv, Facing, K' = K, Apart, EndSearch PROVE Yields' /\ Tracked'
<1>1. tick.pc = "search" /\ DOMAIN tick = TickFields
  BY DEF EndSearch, Inv, Shape, TickShape
<1>2. /\ tick'.pc = "promote" /\ tick'.read = tick.read /\ tick'.working = tick.working
      /\ tick'.found = tick.found /\ tick'.defeats = tick.defeats /\ tick'.rounds = tick.rounds
  BY <1>1 DEF EndSearch, Goto, TickFields
<1>3. Yields'
  BY <1>1, <1>2 DEF Facing, Yields, Examining
<1>4. Tracked'
  <2> SUFFICES ASSUME tick.rounds # config.max_mus,
                      NEW x \in ActiveIn(tick.read), NEW y \in ActiveIn(tick.read),
                      Opposed(x, y), Overlap(tick.read, x, y)
               PROVE  Covered(x, y)'
    BY <1>2 DEF Tracked, Apart, Opposed
  <2>1. Covered(x, y)
    BY <1>1 DEF Facing, Tracked, Examining
  <2>2. ~({x, y} \subseteq tick.working)
    BY DEF EndSearch, MUSes, Opposed
  <2> QED BY <2>1, <2>2, <1>2 DEF Covered, Apart
<1> QED BY <1>3, <1>4

(* A defeat adds one verdict: no earlier one is about the same claims,     *)
(* since its own loser is not among them.                                  *)
LEMMA SearchCounts == ASSUME Inv, Facing, Search PROVE Counted'
<1>0. DOMAIN tick = TickFields
  BY DEF Inv, Shape, TickShape
<1>1. /\ tick.pc = "search" /\ IsFiniteSet(tick.found) /\ tick.rounds \in Nat
      /\ (\A v \in tick.found : v.resolution \notin Open) => Cardinality(tick.found) = tick.rounds
  BY DEF Search, Decide, DecideNothing, Escalate, Unverified, OutOfCalls, EndSearch, Searching,
         Facing, Counted, Examining
<1>2. ASSUME NEW cs, NEW resolution PROVE IsFiniteSet(Found(cs, resolution))
  <2> DEFINE new == [key |-> K, claims |-> cs, resolution |-> resolution]
  <2>1. Found(cs, resolution) \subseteq tick.found \cup {new}
    BY DEF Found, Merge
  <2>2. IsFiniteSet(tick.found \cup {new})
    BY <1>1, FS_AddElement
  <2> QED BY <2>1, <2>2, FS_Subset
<1>3. CASE Escalate \/ Unverified \/ OutOfCalls
  <2>1. PICK m : m \subseteq tick.working /\ StopWith(m)
    BY <1>3 DEF Escalate, Unverified, OutOfCalls, MUSes
  <2>2. tick'.found = Found(m, "escalated") /\ tick'.rounds = tick.rounds
    BY <1>0, <2>1 DEF StopWith, TickFields
  <2>3. \E w \in tick'.found : w.resolution \in Open
    BY <1>1, <2>1, <2>2, OpenFound DEF Open
  <2> QED BY <1>1, <1>2, <2>2, <2>3 DEF Counted
<1>4. CASE DecideNothing
  <2>1. PICK c \in tick.working : /\ tick'.found = Found({c}, "none")
                                 /\ tick'.rounds = tick.rounds + 1
    BY <1>0, <1>4 DEF DecideNothing, TickFields
  <2>2. \E w \in tick'.found : w.resolution \in Open
    <3>1. {c} \subseteq tick.working /\ "none" \in Open
      BY DEF Open
    <3>2. \E w \in Found({c}, "none") : w.resolution \in Open
      BY <1>1, <3>1, OpenFound
    <3> QED BY <2>1, <3>2
  <2>3. IsFiniteSet(tick'.found) /\ tick'.rounds \in Nat
    BY <1>1, <1>2, <2>1
  <2> QED BY <2>2, <2>3 DEF Counted
<1>5. CASE EndSearch
  <2>1. tick'.found = tick.found /\ tick'.rounds = tick.rounds
    BY <1>0, <1>5 DEF EndSearch, Goto, TickFields
  <2> QED BY <1>1, <2>1 DEF Counted
<1>6. CASE Decide
  <2>1. PICK a \in tick.working, b \in tick.working :
          /\ tick'.found = Found({a, b}, "defeat") /\ tick'.rounds = tick.rounds + 1
    BY <1>0, <1>6 DEF Decide, TickFields
  <2>0. IsFiniteSet(tick'.found) /\ tick'.rounds \in Nat
    BY <1>1, <1>2, <2>1
  <2>2. SUFFICES ASSUME \A v \in tick'.found : v.resolution \notin Open
                 PROVE  Cardinality(tick'.found) = tick.rounds + 1
    BY <2>0, <2>1 DEF Counted
  <2>3. tick.found \subseteq tick'.found
    BY <2>1, FoundIs
  <2>4. Cardinality(tick.found) = tick.rounds
    BY <1>1, <2>2, <2>3
  <2> DEFINE new == [key |-> K, claims |-> {a, b}, resolution |-> "defeat"]
  <2>5. new.claims = {a, b}
    OBVIOUS
  <2>6. ASSUME NEW v \in tick.found PROVE v.claims # {a, b}
    <3>1. v.resolution = "defeat"
      BY <1>1, <2>2, <2>3 DEF Facing, Yields, Examining
    <3>2. PICK d \in tick.defeats : d.loser \in v.claims /\ d.loser \notin tick.working
      BY <1>1, <3>1 DEF Facing, Yields, Examining
    <3> QED BY <3>2
  <2>7. Found({a, b}, "defeat") = Merge(tick.found, {new})
    BY DEF Found
  <2> HIDE DEF new
  <2>8. new \notin tick.found /\ Merge(tick.found, {new}) = tick.found \cup {new}
    BY <2>5, <2>6 DEF Merge, SameId
  <2>9. Cardinality(tick.found \cup {new}) = Cardinality(tick.found) + 1
    BY <1>1, <2>8, FS_AddElement
  <2> QED BY <2>1, <2>4, <2>7, <2>8, <2>9
<1> QED BY <1>3, <1>4, <1>5, <1>6 DEF Search

LEMMA SearchFacing == ASSUME Inv, Facing, Search PROVE Facing'
<1>1. Apart /\ tick.pc = "search"
  BY DEF Search, Decide, DecideNothing, Escalate, Unverified, OutOfCalls, EndSearch,
         Searching, Apart, graph, history, queue, bounds
<1>2. Goes
  BY SearchGoes DEF Inv, Shape, TickShape
<1>3. K' = K /\ Knows'
  BY <1>1, <1>2, ApartKnows DEF Examining, Goes
<1>4. Fresh'
  BY <1>2 DEF Fresh, Goes
<1>5. ASSUME Escalate \/ Unverified \/ OutOfCalls PROVE Yields' /\ Tracked'
  <2>1. PICK m : m \subseteq tick.working /\ StopWith(m)
    BY <1>5 DEF Escalate, Unverified, OutOfCalls, MUSes
  <2> QED BY <1>1, <1>3, <2>1, StopFinds
<1>6. Yields' /\ Tracked'
  BY <1>1, <1>3, <1>5, DecideFinds, NothingFinds, EndFinds DEF Search
<1> QED BY <1>1, <1>3, <1>4, <1>6, ApartFaced, SearchCounts DEF Facing

(* Giving up on a subject says so, and claims to have faced nothing.       *)
LEMMA SetAsideFacing ==
    ASSUME Inv, Facing, NEW reason, reason \in {"poison", "too-large"},
           tick.pc # "idle", SetAside(reason)
    PROVE  Facing'
<1> DEFINE new == [key |-> K, claims |-> {}, resolution |-> reason]
<1>1. /\ UNCHANGED <<claims, seen, last, config>> /\ ClearDirty(K, Subject.mark.epoch)
      /\ fate' = [fate EXCEPT ![K] = reason] /\ NextSubject
      /\ verdicts' = Merge(verdicts, {new})
  BY DEF SetAside, bounds
<1>2. K \in Key /\ DOMAIN fate = Key
  BY FirstPlace DEF Inv, Shape, GraphShape
<1>3. \A k \in Key : k # K => marks'[k] = marks[k]
  BY <1>1, <1>2, Cleared DEF Inv, Shape
<1>4. new.claims = {} /\ new.resolution = reason
  OBVIOUS
<1> HIDE DEF new
<1>5. verdicts \subseteq verdicts' /\ verdicts' \subseteq verdicts \cup {new}
  BY <1>1, Merged
<1>6. OnRecord'
  <2>1. reason # "defeat"
    OBVIOUS
  <2> QED BY <1>1, <1>4, <1>5, <2>1 DEF Facing, OnRecord
<1>7. ConflictsFaced'
  <2>1. reason # "settled"
    OBVIOUS
  <2>2. \A k \in Key : ~Dirty(k)' /\ fate'[k] = "settled" =>
               /\ ~Dirty(k) /\ fate[k] = "settled"
               /\ \A c \in ClaimsOf(k) : claims'[c] = claims[c]
    BY <1>1, <1>2, <1>3, <2>1 DEF Dirty
  <2> QED BY <1>1, <1>5, <2>2, FacedStays DEF Facing
<1>8. tick'.pc \notin Examining /\ Fresh'
  BY <1>1, NextAway
<1>9. Knows' /\ Yields' /\ Tracked' /\ Counted'
  BY <1>8 DEF Knows, Yields, Tracked, Counted
<1> QED BY <1>6, <1>7, <1>8, <1>9 DEF Facing

(* Who is on the list of losers loses, and nobody else changes.            *)
LEMMA LoserIs ==
    ASSUME Inv, Facing, tick.pc = "commit", NEW c \in Claim
    PROVE  /\ (\A d \in tick.defeats : d.loser # c) => Defeated(c) = claims[c]
           /\ (\E d \in tick.defeats : d.loser = c) => Defeated(c).defeated_by # Nobody
           /\ claims[c].defeated_by # Nobody => Defeated(c).defeated_by # Nobody
<1> DEFINE ds == {d \in tick.defeats : d.loser = c}
           d0 == CHOOSE x \in ds : TRUE
           node == claims[c]
<1>1. DOMAIN node = ClaimFields
  BY DEF Inv, Shape, GraphShape
<1>2. CASE ds = {}
  <2>1. Defeated(c) = node
    BY <1>2 DEF Defeated
  <2> QED BY <1>2, <2>1
<1>3. CASE ds # {}
  <2>1. Defeated(c) = [node EXCEPT !.defeated_by = IF @ = Nobody THEN d0.winner ELSE @,
                                   !.until = IF @ = Forever THEN d0.until ELSE @]
    BY <1>3 DEF Defeated
  <2>2. d0 \in tick.defeats
    BY <1>3
  <2>3. d0.winner # Nobody
    BY <2>2, CoherenceAssumption DEF Facing, Yields, Examining, CoherenceAssumption
  <2> HIDE DEF node, d0
  <2>4. Defeated(c).defeated_by = IF node.defeated_by = Nobody THEN d0.winner ELSE node.defeated_by
    BY <1>1, <2>1 DEF ClaimFields
  <2> QED BY <1>3, <2>3, <2>4 DEF node
<1> QED BY <1>2, <1>3

(* In memory, an escalation reaches the record: a verdict there about the  *)
(* same claims is not a defeat, since none of them had lost when read.     *)
LEMMA FoundOnRecord ==
    ASSUME Inv, Facing, config.store = "memory", tick.pc = "commit",
           NEW v \in tick.found, v.resolution \in Open
    PROVE  \E w \in Merge(verdicts, tick.found) : w.claims = v.claims /\ w.resolution \in Open
<1>1. v.key = K /\ v.claims \subseteq ActiveIn(tick.read)
  BY DEF Facing, Yields, Examining
<1>2. PICK w \in Merge(verdicts, tick.found) :
         /\ w = v \/ w \in verdicts
         /\ w.key = v.key /\ w.claims = v.claims
         /\ v.claims = {} => w.resolution = v.resolution
  BY Merged
<1>3. ASSUME w \in verdicts, v.claims # {} PROVE w.resolution \in Open
  <2>1. w.resolution \in Open \cup {"defeat"}
    BY <1>2, <1>3 DEF Facing, OnRecord
  <2>2. w.resolution # "defeat"
    <3>1. \A a \in w.claims : claims[a].defeated_by = Nobody
      BY <1>1, <1>2 DEF Facing, Knows, Examining
    <3> QED BY <1>3, <3>1 DEF Facing, OnRecord
  <2> QED BY <2>1, <2>2
<1> QED BY <1>1, <1>2, <1>3

LEMMA CommitFacing == ASSUME Inv, Facing, CommitReconciliation PROVE Facing'
<1>1. /\ tick.pc = "commit" /\ claims' = [c \in Claim |-> Defeated(c)] /\ NextSubject
      /\ ClearDirty(K, Subject.mark.epoch) /\ verdicts' = Merge(verdicts, tick.found)
      /\ fate' = [fate EXCEPT ![K] = "settled"] /\ last' = [last EXCEPT ![K] = tick.found]
      /\ config' = config
  BY DEF CommitReconciliation, bounds
<1>2. /\ K \in Key /\ Subject.mark.epoch \in Nat /\ Subject.mark.epoch <= marks[K].epoch
      /\ DOMAIN fate = Key /\ DOMAIN last = Key /\ marks[K].epoch \in Nat
  BY <1>1, FirstPlace DEF Inv, Shape, GraphShape, QueueShape, Mark
<1>3. /\ \A k \in Key : k # K => marks'[k] = marks[k]
      /\ marks[K].epoch # Subject.mark.epoch => marks'[K] = marks[K]
  BY <1>1, <1>2, Cleared DEF Inv, Shape
<1>4. /\ \A d \in tick.defeats : d.loser \in ClaimsOf(K)
      /\ \A v \in tick.found :
            /\ v.key = K /\ v.resolution \in Open \cup {"defeat"}
            /\ v.resolution = "defeat" => \E d \in tick.defeats : d.loser \in v.claims
  BY <1>1 DEF Facing, Yields, Examining
<1>5. verdicts \subseteq verdicts' /\ verdicts' \subseteq verdicts \cup tick.found
  BY <1>1 DEF Merge
<1>6. OnRecord'
  <2> SUFFICES ASSUME NEW v \in verdicts'
               PROVE  /\ v.resolution \in Open \cup {"defeat"} \/ v.claims = {}
                      /\ v.resolution = "defeat" =>
                            \E a \in v.claims : a \in Claim /\ claims'[a].defeated_by # Nobody
    BY DEF OnRecord
  <2>1. CASE v \in verdicts
    <3>1. /\ v.resolution \in Open \cup {"defeat"} \/ v.claims = {}
          /\ v.resolution = "defeat" =>
                \E a \in v.claims : a \in Claim /\ claims[a].defeated_by # Nobody
      BY <2>1 DEF Facing, OnRecord
    <3> QED BY <1>1, <3>1, LoserIs
  <2>2. CASE v \in tick.found
    <3>1. \A d \in tick.defeats : d.loser \in Claim /\ claims'[d.loser].defeated_by # Nobody
      BY <1>1, <1>4, LoserIs DEF ClaimsOf
    <3> QED BY <1>4, <2>2, <3>1
  <2> QED BY <1>5, <2>1, <2>2
<1>7. ConflictsFaced'
  <2> SUFFICES ASSUME NEW a \in Claim, NEW b \in Claim,
                      a.key = b.key, Active(a)', Active(b)', Opposed(a, b)',
                      Overlap(claims', a, b), ~Dirty(a.key)', fate'[a.key] = "settled"
               PROVE  (\E v \in verdicts' : v.claims = {a, b}) \/ Halted(a.key)' \/ SpentOnDefeats(a.key)'
    BY DEF ConflictsFaced, Overlap, Examined
  <2>0. a.key \in Key /\ Opposed(a, b)
    BY <1>1 DEF Claim, Opposed
  <2>1. \A d \in tick.defeats : d.loser # a /\ d.loser # b
    BY <1>1, LoserIs DEF Active
  <2>2. claims'[a] = claims[a] /\ claims'[b] = claims[b]
    BY <1>1, <2>1, LoserIs
  <2>3. Active(a) /\ Active(b) /\ Overlap(claims, a, b)
    BY <2>2 DEF Active, Written, Overlap
  <2>4. CASE a.key # K
    <3>1. ~Dirty(a.key) /\ fate[a.key] = "settled" /\ last'[a.key] = last[a.key]
      BY <1>1, <1>2, <1>3, <2>0, <2>4 DEF Dirty
    <3>2. (\E v \in verdicts : v.claims = {a, b}) \/ Halted(a.key) \/ SpentOnDefeats(a.key)
      BY <2>0, <2>3, <3>1 DEF Facing, ConflictsFaced, Examined
    <3>3. Halted(a.key) => Halted(a.key)'
      BY <1>1, <1>5, <3>1 DEF Halted
    <3>4. SpentOnDefeats(a.key) => SpentOnDefeats(a.key)'
      BY <1>1, <3>1 DEF SpentOnDefeats
    <3> QED BY <1>5, <3>2, <3>3, <3>4
  <2>5. CASE a.key = K
    <3>1. marks[K].epoch = Subject.mark.epoch
      BY <1>2, <1>3, <2>5 DEF Dirty
    <3>2. last'[a.key] = tick.found
      BY <1>1, <1>2, <2>5
    <3>3. /\ a \in ActiveIn(tick.read) /\ b \in ActiveIn(tick.read)
          /\ Overlap(tick.read, a, b)
      BY <1>1, <2>3, <2>5, <3>1 DEF Facing, Knows, Examining, ClaimsOf, Overlap
    <3>4. ASSUME NEW v \in tick.found, v.resolution \in Open PROVE Halted(a.key)'
      <4>1. config.store = "memory" =>
               \E w \in verdicts' : w.claims = v.claims /\ w.resolution \in Open
        BY <1>1, <3>4, FoundOnRecord
      <4> QED BY <1>1, <3>2, <3>4, <4>1 DEF Halted
    <3>5. CASE \A v \in tick.found : v.resolution \notin Open
      <4>1. CASE tick.rounds = config.max_mus
        <5>1. Cardinality(tick.found) = config.max_mus
          BY <1>1, <3>5, <4>1 DEF Facing, Counted, Examining
        <5>2. {v \in tick.found : v.resolution = "defeat"} = tick.found
          BY <1>4, <3>5
        <5> QED BY <1>1, <3>2, <5>1, <5>2 DEF SpentOnDefeats
      <4>2. CASE tick.rounds # config.max_mus
        <5>1. Covered(a, b)
          BY <1>1, <2>0, <3>3, <4>2 DEF Facing, Tracked, Examining
        <5>2. PICK v \in verdicts \cup tick.found : v.claims = {a, b}
          BY <1>1, <2>1, <3>5, <5>1 DEF Covered
        <5>3. CASE v \in verdicts
          BY <1>5, <5>2, <5>3
        <5>4. CASE v \in tick.found
          <6>1. \E w \in Merge(verdicts, tick.found) : w.claims = v.claims
            BY <5>4, Merged
          <6> QED BY <1>1, <5>2, <6>1
        <5> QED BY <5>3, <5>4
      <4> QED BY <4>1, <4>2
    <3> QED BY <3>4, <3>5
  <2> QED BY <2>4, <2>5
<1>8. tick'.pc \notin Examining /\ Fresh'
  BY <1>1, NextAway
<1>9. Knows' /\ Yields' /\ Tracked' /\ Counted'
  BY <1>8 DEF Knows, Yields, Tracked, Counted
<1> QED BY <1>6, <1>7, <1>8, <1>9 DEF Facing

LEMMA InitFacing == ASSUME Init PROVE Facing
<1>1. tick.pc = "idle"
  BY DEF Init, Idle
<1>2. Knows /\ Yields /\ Tracked /\ Counted /\ Fresh
  BY <1>1 DEF Knows, Yields, Tracked, Counted, Fresh, Examining
<1>3. OnRecord
  BY DEF Init, OnRecord
<1>4. \A c \in Claim : ~Active(c)
  BY DEF Init, Active, Written
<1>5. ConflictsFaced
  BY <1>4 DEF ConflictsFaced
<1> QED BY <1>2, <1>3, <1>5 DEF Facing

LEMMA StepFacing == ASSUME Inv, Facing, [Next]_vars PROVE Facing'
<1>1. ASSUME Poison PROVE Facing'
  BY <1>1, SetAsideFacing DEF Poison
<1>2. ASSUME TooLarge PROVE Facing'
  BY <1>2, SetAsideFacing DEF TooLarge
<1> QED BY <1>1, <1>2, ClientFacing, ClaimFacing, BumpFacing, FetchFacing, SearchFacing,
           PromoteFacing, AssertFacing, CopyFacing, CommitFacing, RaiseFacing, StutterFacing
        DEF Next, Reconcile

LEMMA FacingInvariance == Spec => []Facing
<1> QED BY InitFacing, StepFacing, Invariance, PTL DEF Spec

(* For any oracle, either store and any interleaving of writers, crashes   *)
(* and passes: no two active claims that contradict each other and may be  *)
(* compared are passed over.  A clean, examined subject has a verdict      *)
(* about the two, or the very pass that examined it last halted at an open *)
(* verdict, or used up its rounds and defeated a claim in each.  The last  *)
(* is a mark cleared over a contradiction nobody was told of: the theorem  *)
(* says when that may happen, not that it does not.                        *)
THEOREM ConflictsAreFaced == Spec => []ConflictsFaced
<1>1. Facing => ConflictsFaced
  BY DEF Facing
<1> QED BY <1>1, FacingInvariance, PTL

=============================================================================
