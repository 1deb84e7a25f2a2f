---------------------------- MODULE ContextProofs ----------------------------
(***************************************************************************)
(* Proofs about Context: a prompt is within its budget, a claim that was   *)
(* defeated when a recall began is not in it, and the use counts of the    *)
(* latent rows are the injections that recorded them; for every ranking,   *)
(* similarity, number of calls, and every token counter.                   *)
(*                                                                         *)
(* The argument.  The loops of recall only move results about: whatever a  *)
(* set holds of the results that went in it holds of those that come out,  *)
(* so a defeated claim keeps its mark and a latent row is one that is in   *)
(* the store.  The budget is an account: what the head, the task and the   *)
(* tools cost and what remains add up to it, and the memory is trimmed to  *)
(* a part of what remains.                                                 *)
(***************************************************************************)
EXTENDS Context, FiniteSetTheorems, SequenceTheorems, TLAPS

-----------------------------------------------------------------------------
(* Loops.  What a loop keeps to after every step it ends in.  Each lemma     *)
(* about a loop names its body B and what its accumulators are, V, and shows *)
(* that B keeps to V; <1>a to <1>g then carry that over every step, by a     *)
(* function f that computes what the loop does and is known to exist.        *)

LEMMA Least ==
    ASSUME NEW S \in SUBSET Nat, S # {}
    PROVE  \E m \in S : \A n \in S : m <= n
<1> DEFINE Below == {r \in Nat \X Nat : r[1] < r[2]}
<1>1. IsWellFoundedOn(Below, Nat)
  <2>1. OpToRel(<, Nat) = Below
    BY DEF OpToRel
  <2> QED BY <2>1, NatLessThanWellFounded
<1>2. PICK m \in S : \A n \in S : ~(<<n, m>> \in Below)
  <2> HIDE DEF Below
  <2> QED BY <1>1, WFMin
<1>3. ASSUME NEW n \in S PROVE m <= n
  <2>1. n \in Nat /\ m \in Nat /\ ~(<<n, m>> \in Below)
    BY <1>2
  <2>2. ~(n < m)
    BY <2>1
  <2> QED BY <2>1, <2>2
<1> QED BY <1>3

LEMMA Induct ==
    ASSUME NEW N \in Nat, NEW S, 0 \in S, \A n \in 1..N : n - 1 \in S => n \in S
    PROVE  \A n \in 0..N : n \in S
<1> SUFFICES ASSUME NEW b \in 0..N, b \notin S PROVE FALSE
  OBVIOUS
<1> DEFINE Bad == {n \in 0..N : n \notin S}
<1>1. PICK m \in Bad : \A n \in Bad : m <= n
  <2>1. Bad \in SUBSET Nat /\ Bad # {}
    OBVIOUS
  <2> HIDE DEF Bad
  <2> QED BY <2>1, Least
<1>2. m \in 1..N /\ m - 1 \notin Bad
  BY <1>1
<1>3. m - 1 \in S
  BY <1>2
<1> QED BY <1>1, <1>2, <1>3

(* f is what a loop has computed after every step up to m.                 *)
Up(f, m, base, step) == f[0] = base /\ \A n \in 1..m : f[n] = step[<<f[n - 1], n>>]

LEMMA StepsExist ==
    ASSUME NEW N \in Nat, NEW V, NEW base \in V, NEW step \in [V \X (1..N) -> V]
    PROVE  \E f \in [0..N -> V] : Up(f, N, base, step)
<1> DEFINE S == {m \in 0..N : \E f \in [0..m -> V] : Up(f, m, base, step)}
<1>1. 0 \in S
  <2>1. [n \in 0..0 |-> base] \in [0..0 -> V] /\ Up([n \in 0..0 |-> base], 0, base, step)
    BY DEF Up
  <2> QED BY <2>1
<1>2. ASSUME NEW m \in 1..N, m - 1 \in S PROVE m \in S
  <2>1. PICK f \in [0..m - 1 -> V] : Up(f, m - 1, base, step)
    BY <1>2
  <2> DEFINE g == [n \in 0..m |-> IF n = m THEN step[<<f[m - 1], m>>] ELSE f[n]]
  <2>2. f[m - 1] \in V /\ step[<<f[m - 1], m>>] \in V
    OBVIOUS
  <2>3. g \in [0..m -> V]
    BY <2>2
  <2>4. g[0] = base
    BY <2>1 DEF Up
  <2>5. ASSUME NEW n \in 1..m PROVE g[n] = step[<<g[n - 1], n>>]
    <3>1. CASE n = m
      BY <3>1
    <3>2. CASE n # m
      <4>1. n \in 1..m - 1 /\ g[n] = f[n] /\ g[n - 1] = f[n - 1]
        BY <3>2
      <4> QED BY <2>1, <4>1 DEF Up
    <3> QED BY <3>1, <3>2
  <2>6. Up(g, m, base, step)
    BY <2>4, <2>5 DEF Up
  <2> HIDE DEF g
  <2> QED BY <2>3, <2>6
<1>3. N \in S
  <2> HIDE DEF S
  <2> QED BY <1>1, <1>2, Induct
<1> QED BY <1>3

LEMMA PickType ==
    ASSUME NEW U, NEW s, NEW places, Len(s) \in Nat,
           \A i \in 1..Len(s) : i \in places => s[i] \in U
    PROVE  Pick(s, places) \in Seq(U)
<1> DEFINE N == Len(s)
           V == Seq(U)
           base == <<>>
           B(v, n) == IF n \in places THEN Append(v, s[n]) ELSE v
<1>1. N \in Nat /\ base \in V
  OBVIOUS
<1>2. ASSUME NEW v \in V, NEW n \in 1..N PROVE B(v, n) \in V
  <2>1. CASE n \in places
    BY <2>1, AppendProperties
  <2>2. CASE n \notin places
    BY <2>2
  <2> QED BY <2>1, <2>2
<1> DEFINE step == [x \in V \X (1..N) |-> B(x[1], x[2])]
           Is(g) == g = [n \in 0..N |-> IF n = 0 THEN base ELSE B(g[n - 1], n)]
           after == CHOOSE g : Is(g)
<1>a. Pick(s, places) = after[N]
  BY DEF Pick, Iterate
<1> HIDE DEF N, V, base, B
<1>b. step \in [V \X (1..N) -> V]
  BY <1>2
<1>c. PICK f \in [0..N -> V] : Up(f, N, base, step)
  <2> HIDE DEF step
  <2>1. N \in Nat /\ base \in V
    BY <1>1
  <2> QED BY <1>b, <2>1, StepsExist
<1>d. Is(f)
  <2> HIDE DEF step
  <2>1. f[0] = base /\ \A n \in 1..N : f[n] = step[<<f[n - 1], n>>]
    BY <1>c DEF Up
  <2>2. ASSUME NEW n \in 1..N PROVE f[n] = B(f[n - 1], n)
    <3>1. f[n - 1] \in V
      BY <1>1
    <3>2. step[<<f[n - 1], n>>] = B(f[n - 1], n)
      BY <3>1 DEF step
    <3> QED BY <2>1, <3>2
  <2> QED BY <1>1, <2>1, <2>2
<1>e. Is(after)
  <2> HIDE DEF Is
  <2> QED BY <1>d
<1>f. \A n \in 0..N : after[n] \in V
  <2> DEFINE S == {n \in 0..N : after[n] \in V}
  <2> HIDE DEF after
  <2>1. 0 \in S
    BY <1>1, <1>e
  <2>2. ASSUME NEW n \in 1..N, n - 1 \in S PROVE n \in S
    <3>1. after[n] = B(after[n - 1], n) /\ after[n - 1] \in V
      BY <1>1, <1>e, <2>2
    <3> QED BY <1>2, <3>1
  <2> HIDE DEF S
  <2>3. \A n \in 0..N : n \in S
    BY <1>1, <2>1, <2>2, Induct
  <2> QED BY <2>3 DEF S
<1>g. after[N] \in V
  BY <1>1, <1>f
<1> QED BY <1>a, <1>g DEF V

LEMMA FirstOfType ==
    ASSUME NEW U, NEW s \in Seq(U), NEW n \in Nat
    PROVE  FirstOf(n, s) \in Seq(U)
<1> DEFINE m == IF Len(s) < n THEN Len(s) ELSE n
<1>1. Len(s) \in Nat /\ m \in Nat /\ m <= Len(s)
  OBVIOUS
<1>2. \A i \in 1..m : s[i] \in U
  BY <1>1
<1>3. FirstOf(n, s) = SubSeq(s, 1, m)
  BY DEF FirstOf
<1> HIDE DEF m
<1> QED BY <1>1, <1>2, <1>3, SubSeqProperties

-----------------------------------------------------------------------------
(* What recall hands on is what it was handed.                             *)

LEMMA TopOfType ==
    ASSUME NEW channel \in Channels, NEW S
    PROVE  TopOf(channel, S) \in Seq(S \cap Nat)
<1> DEFINE ids == Ranking[channel]
           places == {i \in 1..Len(ids) : ids[i] \in S}
<1>1. ids \in Seq(Nat) /\ k \in Nat
  BY RecallAssumption
<1>2. TopOf(channel, S) = FirstOf(k, Pick(ids, places))
  BY DEF TopOf
<1>3. Pick(ids, places) \in Seq(S \cap Nat)
  <2>1. Len(ids) \in Nat /\ \A i \in 1..Len(ids) : i \in places => ids[i] \in S \cap Nat
    BY <1>1
  <2> HIDE DEF ids, places
  <2> QED BY <2>1, PickType
<1> HIDE DEF ids, places
<1> QED BY <1>1, <1>2, <1>3, FirstOfType

LEMMA ByScoreType ==
    ASSUME NEW U, NEW channel \in Channels, NEW s \in Seq(U)
    PROVE  ByScore(channel, s) \in Seq(U)
<1> DEFINE ids == Ranking[channel]
           N == Len(ids)
           V == Seq(U)
           base == <<>>
           B(v, n) == v \o Pick(s, {i \in 1..Len(s) : s[i].key[2] = ids[n]})
<1>1. N \in Nat /\ base \in V
  BY RecallAssumption
<1>2. ASSUME NEW v \in V, NEW n \in 1..N PROVE B(v, n) \in V
  <2> DEFINE places == {i \in 1..Len(s) : s[i].key[2] = ids[n]}
  <2>1. Pick(s, places) \in V
    <3>1. Len(s) \in Nat /\ \A i \in 1..Len(s) : i \in places => s[i] \in U
      OBVIOUS
    <3> HIDE DEF places
    <3> QED BY <3>1, PickType
  <2> HIDE DEF places
  <2>2. v \o Pick(s, places) \in V
    BY <2>1, ConcatProperties
  <2> QED BY <2>2 DEF places
<1> DEFINE step == [x \in V \X (1..N) |-> B(x[1], x[2])]
           Is(g) == g = [n \in 0..N |-> IF n = 0 THEN base ELSE B(g[n - 1], n)]
           after == CHOOSE g : Is(g)
<1>a. ByScore(channel, s) = after[N]
  BY DEF ByScore, Iterate
<1> HIDE DEF N, V, base, B
<1>b. step \in [V \X (1..N) -> V]
  BY <1>2
<1>c. PICK f \in [0..N -> V] : Up(f, N, base, step)
  <2> HIDE DEF step
  <2>1. N \in Nat /\ base \in V
    BY <1>1
  <2> QED BY <1>b, <2>1, StepsExist
<1>d. Is(f)
  <2> HIDE DEF step
  <2>1. f[0] = base /\ \A n \in 1..N : f[n] = step[<<f[n - 1], n>>]
    BY <1>c DEF Up
  <2>2. ASSUME NEW n \in 1..N PROVE f[n] = B(f[n - 1], n)
    <3>1. f[n - 1] \in V
      BY <1>1
    <3>2. step[<<f[n - 1], n>>] = B(f[n - 1], n)
      BY <3>1 DEF step
    <3> QED BY <2>1, <3>2
  <2> QED BY <1>1, <2>1, <2>2
<1>e. Is(after)
  <2> HIDE DEF Is
  <2> QED BY <1>d
<1>f. \A n \in 0..N : after[n] \in V
  <2> DEFINE S == {n \in 0..N : after[n] \in V}
  <2> HIDE DEF after
  <2>1. 0 \in S
    BY <1>1, <1>e
  <2>2. ASSUME NEW n \in 1..N, n - 1 \in S PROVE n \in S
    <3>1. after[n] = B(after[n - 1], n) /\ after[n - 1] \in V
      BY <1>1, <1>e, <2>2
    <3> QED BY <1>2, <3>1
  <2> HIDE DEF S
  <2>3. \A n \in 0..N : n \in S
    BY <1>1, <2>1, <2>2, Induct
  <2> QED BY <2>3 DEF S
<1>g. after[N] \in V
  BY <1>1, <1>f
<1> QED BY <1>a, <1>g DEF V

LEMMA HotFirstType ==
    ASSUME NEW U, NEW channel \in Channels, NEW hot \in Seq(U), NEW cold \in Seq(U)
    PROVE  Accepted(hot) \in Seq(U) /\ HotFirst(channel, hot, cold) \in Seq(U)
<1>1. Len(hot) \in Nat /\ \A i \in 1..Len(hot) : hot[i] \in U
  OBVIOUS
<1>2. Accepted(hot) \in Seq(U)
  <2> DEFINE places == {i \in 1..Len(hot) : hot[i].key[2] \in Similar}
  <2>1. Accepted(hot) = Pick(hot, places)
    BY DEF Accepted
  <2> HIDE DEF places
  <2> QED BY <1>1, <2>1, PickType
<1>3. Rejected(hot) \in Seq(U)
  <2> DEFINE places == {i \in 1..Len(hot) : hot[i].key[2] \notin Similar}
  <2>1. Rejected(hot) = Pick(hot, places)
    BY DEF Rejected
  <2> HIDE DEF places
  <2> QED BY <1>1, <2>1, PickType
<1>4. ByScore(channel, Rejected(hot) \o cold) \in Seq(U)
  BY <1>3, ByScoreType, ConcatProperties
<1>5. Accepted(hot) \o ByScore(channel, Rejected(hot) \o cold) \in Seq(U)
  BY <1>2, <1>4, ConcatProperties
<1>6. HotFirst(channel, hot, cold) \in Seq(U)
  BY <1>5, FirstOfType, RecallAssumption DEF HotFirst
<1> QED BY <1>2, <1>6

Places == Nat \ {0}

LEMMA AllHitsType ==
    ASSUME NEW U, NEW results \in [Channels -> Seq(U)]
    PROVE  AllHits(results) \in Seq([rank : Places, result : U])
<1> DEFINE N == Len(ChannelOrder)
           Hit == [rank : Places, result : U]
           V == Seq(Hit)
           base == <<>>
           Found(c) == results[ChannelOrder[c]]
           B(v, n) == v \o [rank \in 1..Len(Found(n)) |-> [rank |-> rank, result |-> Found(n)[rank]]]
<1>1. N \in Nat /\ base \in V
  BY RecallAssumption
<1>2. ASSUME NEW v \in V, NEW n \in 1..N PROVE B(v, n) \in V
  <2>1. ChannelOrder[n] \in Channels
    BY <1>1, RecallAssumption DEF Channels, ToSet
  <2>2. PICK found \in Seq(U) : found = Found(n)
    BY <2>1
  <2> DEFINE hits == [rank \in 1..Len(found) |-> [rank |-> rank, result |-> found[rank]]]
  <2>3. Len(found) \in Nat /\ \A rank \in 1..Len(found) : found[rank] \in U
    OBVIOUS
  <2>4. hits \in Seq(Hit)
    <3>1. \A rank \in 1..Len(found) : [rank |-> rank, result |-> found[rank]] \in Hit
      BY <2>3 DEF Places
    <3> HIDE DEF Hit
    <3> QED BY <2>3, <3>1
  <2>5. B(v, n) = v \o hits
    BY <2>2
  <2> HIDE DEF hits, Hit, B, Found
  <2> QED BY <2>4, <2>5, ConcatProperties
<1> DEFINE step == [x \in V \X (1..N) |-> B(x[1], x[2])]
           Is(g) == g = [n \in 0..N |-> IF n = 0 THEN base ELSE B(g[n - 1], n)]
           after == CHOOSE g : Is(g)
<1>a. AllHits(results) = after[N]
  BY DEF AllHits, Iterate
<1> HIDE DEF N, V, base, B
<1>b. step \in [V \X (1..N) -> V]
  BY <1>2
<1>c. PICK f \in [0..N -> V] : Up(f, N, base, step)
  <2> HIDE DEF step
  <2>1. N \in Nat /\ base \in V
    BY <1>1
  <2> QED BY <1>b, <2>1, StepsExist
<1>d. Is(f)
  <2> HIDE DEF step
  <2>1. f[0] = base /\ \A n \in 1..N : f[n] = step[<<f[n - 1], n>>]
    BY <1>c DEF Up
  <2>2. ASSUME NEW n \in 1..N PROVE f[n] = B(f[n - 1], n)
    <3>1. f[n - 1] \in V
      BY <1>1
    <3>2. step[<<f[n - 1], n>>] = B(f[n - 1], n)
      BY <3>1 DEF step
    <3> QED BY <2>1, <3>2
  <2> QED BY <1>1, <2>1, <2>2
<1>e. Is(after)
  <2> HIDE DEF Is
  <2> QED BY <1>d
<1>f. \A n \in 0..N : after[n] \in V
  <2> DEFINE S == {n \in 0..N : after[n] \in V}
  <2> HIDE DEF after
  <2>1. 0 \in S
    BY <1>1, <1>e
  <2>2. ASSUME NEW n \in 1..N, n - 1 \in S PROVE n \in S
    <3>1. after[n] = B(after[n - 1], n) /\ after[n - 1] \in V
      BY <1>1, <1>e, <2>2
    <3> QED BY <1>2, <3>1
  <2> HIDE DEF S
  <2>3. \A n \in 0..N : n \in S
    BY <1>1, <2>1, <2>2, Induct
  <2> QED BY <2>3 DEF S
<1>g. after[N] \in V
  BY <1>1, <1>f
<1> QED BY <1>a, <1>g DEF V

LEMMA ScaleType == Scale \in Nat
<1> DEFINE N == k
           V == Nat
           base == 1
           B(v, n) == (k_rrf + n) * v
<1>1. N \in Nat /\ base \in V
  BY RecallAssumption
<1>2. ASSUME NEW v \in V, NEW n \in 1..N PROVE B(v, n) \in V
  BY RecallAssumption
<1> DEFINE step == [x \in V \X (1..N) |-> B(x[1], x[2])]
           Is(g) == g = [n \in 0..N |-> IF n = 0 THEN base ELSE B(g[n - 1], n)]
           after == CHOOSE g : Is(g)
<1>a. Scale = after[N]
  BY DEF Scale, Iterate
<1> HIDE DEF N, V, base, B
<1>b. step \in [V \X (1..N) -> V]
  BY <1>2
<1>c. PICK f \in [0..N -> V] : Up(f, N, base, step)
  <2> HIDE DEF step
  <2>1. N \in Nat /\ base \in V
    BY <1>1
  <2> QED BY <1>b, <2>1, StepsExist
<1>d. Is(f)
  <2> HIDE DEF step
  <2>1. f[0] = base /\ \A n \in 1..N : f[n] = step[<<f[n - 1], n>>]
    BY <1>c DEF Up
  <2>2. ASSUME NEW n \in 1..N PROVE f[n] = B(f[n - 1], n)
    <3>1. f[n - 1] \in V
      BY <1>1
    <3>2. step[<<f[n - 1], n>>] = B(f[n - 1], n)
      BY <3>1 DEF step
    <3> QED BY <2>1, <3>2
  <2> QED BY <1>1, <2>1, <2>2
<1>e. Is(after)
  <2> HIDE DEF Is
  <2> QED BY <1>d
<1>f. \A n \in 0..N : after[n] \in V
  <2> DEFINE S == {n \in 0..N : after[n] \in V}
  <2> HIDE DEF after
  <2>1. 0 \in S
    BY <1>1, <1>e
  <2>2. ASSUME NEW n \in 1..N, n - 1 \in S PROVE n \in S
    <3>1. after[n] = B(after[n - 1], n) /\ after[n - 1] \in V
      BY <1>1, <1>e, <2>2
    <3> QED BY <1>2, <3>1
  <2> HIDE DEF S
  <2>3. \A n \in 0..N : n \in S
    BY <1>1, <2>1, <2>2, Induct
  <2> QED BY <2>3 DEF S
<1>g. after[N] \in V
  BY <1>1, <1>f
<1> QED BY <1>a, <1>g DEF V

LEMMA ScoreType ==
    ASSUME NEW U, NEW hits \in Seq([rank : Places, result : U]), NEW key
    PROVE  Score(hits, key) \in Nat
<1> DEFINE N == Len(hits)
           V == Nat
           base == 0
           B(v, n) == IF hits[n].result.key = key THEN v + Scale \div (k_rrf + hits[n].rank) ELSE v
<1>1. N \in Nat /\ base \in V
  OBVIOUS
<1>2. ASSUME NEW v \in V, NEW n \in 1..N PROVE B(v, n) \in V
  <2>1. hits[n] \in [rank : Places, result : U] /\ hits[n].rank \in Places
    <3> DEFINE Hit == [rank : Places, result : U]
    <3>1. hits[n] \in Hit
      <4>1. hits \in Seq(Hit)
        OBVIOUS
      <4> HIDE DEF Hit
      <4> QED BY <4>1
    <3> QED BY <3>1
  <2>2. PICK rank \in Places : rank = hits[n].rank
    BY <2>1
  <2>3. k_rrf + rank \in Nat \ {0}
    BY RecallAssumption DEF Places
  <2>4. Scale \div (k_rrf + rank) \in Nat
    BY <2>3, ScaleType
  <2> QED BY <2>2, <2>4
<1> DEFINE step == [x \in V \X (1..N) |-> B(x[1], x[2])]
           Is(g) == g = [n \in 0..N |-> IF n = 0 THEN base ELSE B(g[n - 1], n)]
           after == CHOOSE g : Is(g)
<1>a. Score(hits, key) = after[N]
  BY DEF Score, Iterate
<1> HIDE DEF N, V, base, B
<1>b. step \in [V \X (1..N) -> V]
  BY <1>2
<1>c. PICK f \in [0..N -> V] : Up(f, N, base, step)
  <2> HIDE DEF step
  <2>1. N \in Nat /\ base \in V
    BY <1>1
  <2> QED BY <1>b, <2>1, StepsExist
<1>d. Is(f)
  <2> HIDE DEF step
  <2>1. f[0] = base /\ \A n \in 1..N : f[n] = step[<<f[n - 1], n>>]
    BY <1>c DEF Up
  <2>2. ASSUME NEW n \in 1..N PROVE f[n] = B(f[n - 1], n)
    <3>1. f[n - 1] \in V
      BY <1>1
    <3>2. step[<<f[n - 1], n>>] = B(f[n - 1], n)
      BY <3>1 DEF step
    <3> QED BY <2>1, <3>2
  <2> QED BY <1>1, <2>1, <2>2
<1>e. Is(after)
  <2> HIDE DEF Is
  <2> QED BY <1>d
<1>f. \A n \in 0..N : after[n] \in V
  <2> DEFINE S == {n \in 0..N : after[n] \in V}
  <2> HIDE DEF after
  <2>1. 0 \in S
    BY <1>1, <1>e
  <2>2. ASSUME NEW n \in 1..N, n - 1 \in S PROVE n \in S
    <3>1. after[n] = B(after[n - 1], n) /\ after[n - 1] \in V
      BY <1>1, <1>e, <2>2
    <3> QED BY <1>2, <3>1
  <2> HIDE DEF S
  <2>3. \A n \in 0..N : n \in S
    BY <1>1, <2>1, <2>2, Induct
  <2> QED BY <2>3 DEF S
<1>g. after[N] \in V
  BY <1>1, <1>f
<1> QED BY <1>a, <1>g DEF V

-----------------------------------------------------------------------------
(* The ranking.  Better is a strict order, so a finite set has a best.     *)

Comparable(x) == x.score \in Nat /\ x.result.key[1] \in Nat /\ x.result.key[2] \in Nat

LEMMA BestExists ==
    ASSUME NEW S, IsFiniteSet(S), S # {}, \A x \in S : Comparable(x)
    PROVE  \E x \in S : \A y \in S : ~Better(y, x)
<1> DEFINE Above(x) == {y \in S : Better(y, x)}
           sizes == {Cardinality(Above(x)) : x \in S}
<1>1. \A x \in S : IsFiniteSet(Above(x)) /\ Cardinality(Above(x)) \in Nat
  <2> SUFFICES ASSUME NEW x \in S PROVE IsFiniteSet(Above(x)) /\ Cardinality(Above(x)) \in Nat
    OBVIOUS
  <2>1. Above(x) \in SUBSET S
    OBVIOUS
  <2> HIDE DEF Above
  <2>2. IsFiniteSet(Above(x))
    BY <2>1, FS_Subset
  <2> QED BY <2>2, FS_CardinalityType
<1>2. PICK m \in sizes : \A n \in sizes : m <= n
  <2> HIDE DEF Above
  <2>1. sizes \in SUBSET Nat /\ sizes # {}
    BY <1>1
  <2> HIDE DEF sizes
  <2> QED BY <2>1, Least
<1>3. PICK x \in S : m = Cardinality(Above(x))
  OBVIOUS
<1>4. ASSUME NEW y \in S, Better(y, x) PROVE FALSE
  <2>1. Comparable(x) /\ Comparable(y)
    OBVIOUS
  <2>2. ASSUME NEW z \in S, Better(z, y) PROVE Better(z, x)
    <3>1. Comparable(z)
      OBVIOUS
    <3> QED BY <1>4, <2>1, <2>2, <3>1 DEF Comparable, Better, KeyBefore
  <2>3. ~Better(y, y)
    BY <2>1 DEF Comparable, Better, KeyBefore
  <2>4. Above(y) \in SUBSET Above(x) /\ y \in Above(x) /\ y \notin Above(y)
    BY <1>4, <2>2, <2>3
  <2>5. Cardinality(Above(x)) <= Cardinality(Above(y))
    BY <1>2, <1>3
  <2> HIDE DEF Above
  <2>6. Cardinality(Above(y)) <= Cardinality(Above(x))
        /\ (Cardinality(Above(x)) = Cardinality(Above(y)) => Above(x) = Above(y))
    BY <1>1, <2>4, FS_Subset
  <2> QED BY <1>1, <2>4, <2>5, <2>6
<1> HIDE DEF Above
<1> QED BY <1>4

(* A sequence has no more elements than places.                            *)
LEMMA ElementsBound ==
    ASSUME NEW S, NEW v \in Seq(S)
    PROVE  ToSet(v) \in SUBSET S /\ IsFiniteSet(ToSet(v)) /\ Cardinality(ToSet(v)) <= Len(v)
<1>1. Len(v) \in Nat /\ DOMAIN v = 1..Len(v) /\ v \in [1..Len(v) -> S]
  BY LenProperties
<1>2. ToSet(v) \in SUBSET S
  BY <1>1 DEF ToSet
<1>3. v \in Surjection(1..Len(v), ToSet(v))
  BY <1>1 DEF ToSet, Surjection
<1>4. IsFiniteSet(1..Len(v)) /\ Cardinality(1..Len(v)) = Len(v)
  BY <1>1, FS_Interval
<1> QED BY <1>2, <1>3, <1>4, FS_Surjection

LEMMA RankedType ==
    ASSUME NEW S, IsFiniteSet(S), \A x \in S : Comparable(x)
    PROVE  Ranked(S) \in Seq(S)
<1> DEFINE Best(rest) == CHOOSE x \in rest : \A y \in rest : ~Better(y, x)
           N == Cardinality(S)
           V == Seq(S \cup {Best({})})
           base == <<>>
           B(v, n) == LET rest == S \ ToSet(v) IN Append(v, Best(rest))
<1>1. N \in Nat /\ base \in V
  BY FS_CardinalityType
<1>2. ASSUME NEW v \in V, NEW n \in 1..N PROVE B(v, n) \in V
  <2> DEFINE rest == S \ ToSet(v)
             U == S \cup {Best({})}
  <2>1. Best(rest) \in U
    <3>1. CASE rest = {}
      BY <3>1
    <3>2. CASE rest # {}
      <4>1. \E x \in rest : \A y \in rest : ~Better(y, x)
        <5>1. IsFiniteSet(rest) /\ \A x \in rest : Comparable(x)
          BY FS_Difference
        <5> HIDE DEF rest
        <5> QED BY <3>2, <5>1, BestExists
      <4>2. Best(rest) \in rest
        <5> HIDE DEF rest
        <5> QED BY <4>1
      <4> QED BY <4>2
    <3> QED BY <3>1, <3>2
  <2> HIDE DEF rest, U, Best
  <2>2. Append(v, Best(rest)) \in Seq(U)
    <3>1. v \in Seq(U)
      BY DEF U
    <3> QED BY <2>1, <3>1, AppendProperties
  <2> QED BY <2>2 DEF U, rest
<1> DEFINE step == [x \in V \X (1..N) |-> B(x[1], x[2])]
           Is(g) == g = [n \in 0..N |-> IF n = 0 THEN base ELSE B(g[n - 1], n)]
           after == CHOOSE g : Is(g)
<1>a. Ranked(S) = after[N]
  BY DEF Ranked, Iterate
<1> HIDE DEF N, V, base, B
<1>b. step \in [V \X (1..N) -> V]
  BY <1>2
<1>c. PICK f \in [0..N -> V] : Up(f, N, base, step)
  <2> HIDE DEF step
  <2>1. N \in Nat /\ base \in V
    BY <1>1
  <2> QED BY <1>b, <2>1, StepsExist
<1>d. Is(f)
  <2> HIDE DEF step
  <2>1. f[0] = base /\ \A n \in 1..N : f[n] = step[<<f[n - 1], n>>]
    BY <1>c DEF Up
  <2>2. ASSUME NEW n \in 1..N PROVE f[n] = B(f[n - 1], n)
    <3>1. f[n - 1] \in V
      BY <1>1
    <3>2. step[<<f[n - 1], n>>] = B(f[n - 1], n)
      BY <3>1 DEF step
    <3> QED BY <2>1, <3>2
  <2> QED BY <1>1, <2>1, <2>2
<1>e. Is(after)
  <2> HIDE DEF Is
  <2> QED BY <1>d
<1> DEFINE Taken == {n \in 0..N : after[n] \in Seq(S) /\ Len(after[n]) = n}
<1>h. 0 \in Taken
  <2> HIDE DEF after
  <2> QED BY <1>1, <1>e DEF base
<1>i. ASSUME NEW n \in 1..N, n - 1 \in Taken PROVE n \in Taken
  <2>1. PICK v \in Seq(S) : v = after[n - 1] /\ Len(v) = n - 1
    BY <1>i
  <2> DEFINE rest == S \ ToSet(v)
  <2>2. rest # {}
    <3>1. Cardinality(ToSet(v)) <= n - 1 /\ ToSet(v) \in SUBSET S
      BY <2>1, ElementsBound
    <3>2. Cardinality(ToSet(v)) \in Nat /\ Cardinality(S) = N
      BY ElementsBound, FS_CardinalityType DEF N
    <3>3. ToSet(v) # S
      BY <1>1, <3>1, <3>2
    <3> QED BY <3>1, <3>3
  <2>3. Best(rest) \in S
    <3>1. IsFiniteSet(rest) /\ \A x \in rest : Comparable(x)
      BY FS_Difference
    <3>2. \E x \in rest : \A y \in rest : ~Better(y, x)
      <4> HIDE DEF rest
      <4> QED BY <2>2, <3>1, BestExists
    <3>3. Best(rest) \in rest
      <4> HIDE DEF rest
      <4> QED BY <3>2
    <3> QED BY <3>3
  <2>4. after[n] = Append(v, Best(rest))
    <3>1. after[n] = B(after[n - 1], n)
      <4> HIDE DEF after, B
      <4> QED BY <1>1, <1>e
    <3> QED BY <2>1, <3>1 DEF B
  <2> HIDE DEF rest, Best, after
  <2>5. after[n] \in Seq(S) /\ Len(after[n]) = Len(v) + 1
    BY <2>3, <2>4, AppendProperties
  <2> QED BY <1>1, <2>1, <2>5
<1>j. N \in Taken
  <2> HIDE DEF Taken
  <2>1. \A n \in 0..N : n \in Taken
    BY <1>1, <1>h, <1>i, Induct
  <2> QED BY <1>1, <2>1
<1> HIDE DEF after
<1> QED BY <1>a, <1>j

LEMMA FuseType ==
    ASSUME NEW U, NEW results \in [Channels -> Seq(U)],
           \A r \in U : r.key[1] \in Nat /\ r.key[2] \in Nat
    PROVE  fuse(results) \in Seq(U)
<1> DEFINE hits == AllHits(results)
           Hit == [rank : Places, result : U]
           key(i) == hits[i].result.key
           first == {i \in 1..Len(hits) : \A j \in 1..i - 1 : key(j) # key(i)}
           Scored(i) == [score |-> Score(hits, key(i)), result |-> hits[i].result]
           S == {Scored(i) : i \in first}
           ranked == Ranked(S)
<1>1. hits \in Seq(Hit)
  BY AllHitsType
<1>2. fuse(results) = [i \in 1..Len(ranked) |-> ranked[i].result]
  BY DEF fuse
<1>3. \A i \in first : hits[i].result \in U /\ Score(hits, key(i)) \in Nat
  <2> SUFFICES ASSUME NEW i \in first PROVE hits[i].result \in U /\ Score(hits, key(i)) \in Nat
    OBVIOUS
  <2>1. hits[i] \in Hit
    <3>1. i \in 1..Len(hits)
      OBVIOUS
    <3> HIDE DEF hits, Hit
    <3> QED BY <1>1, <3>1
  <2>2. hits[i].result \in U
    BY <2>1
  <2>3. Score(hits, key(i)) \in Nat
    <3> HIDE DEF hits, key
    <3> QED BY <1>1, ScoreType
  <2> QED BY <2>2, <2>3
<1>4. \A x \in S : Comparable(x) /\ x.result \in U
  <2> SUFFICES ASSUME NEW i \in first PROVE Comparable(Scored(i)) /\ Scored(i).result \in U
    OBVIOUS
  <2> HIDE DEF hits, first, key
  <2> QED BY <1>3 DEF Comparable
<1>5. IsFiniteSet(S)
  <2>1. IsFiniteSet(1..Len(hits)) /\ first \in SUBSET (1..Len(hits))
    <3>1. Len(hits) \in Nat
      <4> HIDE DEF hits
      <4> QED BY <1>1
    <3> QED BY <3>1, FS_Interval
  <2>2. IsFiniteSet(first)
    <3> HIDE DEF first, hits
    <3> QED BY <2>1, FS_Subset
  <2>3. [i \in first |-> Scored(i)] \in Surjection(first, S)
    <3> HIDE DEF first, Scored
    <3> QED BY DEF Surjection
  <2> HIDE DEF first, S
  <2> QED BY <2>2, <2>3, FS_Surjection
<1>6. ranked \in Seq(S)
  <2> HIDE DEF S
  <2> QED BY <1>4, <1>5, RankedType
<1>7. \A i \in 1..Len(ranked) : ranked[i].result \in U
  <2> HIDE DEF ranked, S
  <2> QED BY <1>4, <1>6
<1>8. Len(ranked) \in Nat
  <2> HIDE DEF ranked, S
  <2> QED BY <1>6
<1> HIDE DEF ranked
<1> QED BY <1>2, <1>7, <1>8

LEMMA FloorFirstType ==
    ASSUME NEW U, NEW results \in Seq(U), NEW m
    PROVE  FloorFirst(results, m) \in Seq(U)
<1> DEFINE above(i) == {j \in 1..i - 1 : results[j].key[1] = results[i].key[1]}
           floor == {i \in 1..Len(results) : Cardinality(above(i)) < m}
<1>1. FloorFirst(results, m) = Pick(results, floor) \o Pick(results, 1..Len(results) \ floor)
  BY DEF FloorFirst
<1> HIDE DEF floor
<1>2. Len(results) \in Nat /\ \A i \in 1..Len(results) : results[i] \in U
  OBVIOUS
<1>3. Pick(results, floor) \in Seq(U)
  BY <1>2, PickType
<1>4. Pick(results, 1..Len(results) \ floor) \in Seq(U)
  BY <1>2, PickType
<1> QED BY <1>1, <1>3, <1>4, ConcatProperties

LEMMA UFoldType == ASSUME NEW U, NEW s \in Seq(U) PROVE UFold(s) \in Seq(U)
<1>1. Len(s) \in Nat
  OBVIOUS
<1>2. ASSUME NEW i \in 1..Len(s)
      PROVE  (IF 2 * i - 1 <= Len(s) THEN s[2 * i - 1] ELSE s[2 * (Len(s) - i + 1)]) \in U
  <2>1. CASE 2 * i - 1 <= Len(s)
    <3>1. 2 * i - 1 \in 1..Len(s)
      BY <1>1, <2>1
    <3> QED BY <2>1, <3>1
  <2>2. CASE ~(2 * i - 1 <= Len(s))
    <3>1. 2 * (Len(s) - i + 1) \in 1..Len(s)
      BY <1>1, <2>2
    <3> QED BY <2>2, <3>1
  <2> QED BY <2>1, <2>2
<1> QED BY <1>1, <1>2 DEF UFold

-----------------------------------------------------------------------------
(* Texts are counted in naturals.                                          *)

(* What a piece may be of.  The words of the code are strings, which the    *)
(* provers do not know: they are named.                                    *)
Labels == STRING \cup {"chunk", "task", "memory:start", "memory:end"} \cup
          {"rules", "personality", "instructions"}

Pieces == [of : Labels, key : Nat \X Nat, version : Nat]

(* Any token counter there may be.                                         *)
CountsTokens == \A text \in Seq(Pieces) : Count(text) \in Nat

LEMMA AdmitType ==
    ASSUME CountsTokens, NEW U, NEW results \in Seq(U), \A r \in U : r.text \in Pieces, NEW budget
    PROVE  Admit(results, budget) \in Seq(U)
<1> DEFINE N == Len(results)
           V == [used : Nat, admitted : Seq(U)]
           base == [used |-> 0, admitted |-> <<>>]
           B(v, n) == LET used == v.used + Count(<<results[n].text>>)
                      IN  IF used <= budget
                          THEN [used |-> used, admitted |-> Append(v.admitted, results[n])]
                          ELSE v
<1>1. N \in Nat /\ base \in V
  OBVIOUS
<1>2. ASSUME NEW v \in V, NEW n \in 1..N PROVE B(v, n) \in V
  <2>1. results[n] \in U
    OBVIOUS
  <2>2. Count(<<results[n].text>>) \in Nat
    <3>1. <<results[n].text>> \in Seq(Pieces)
      BY <2>1
    <3> QED BY <3>1 DEF CountsTokens
  <2>3. PICK used \in Nat : used = v.used + Count(<<results[n].text>>)
    BY <2>2
  <2>4. Append(v.admitted, results[n]) \in Seq(U)
    BY <2>1, AppendProperties
  <2> QED BY <2>3, <2>4
<1> DEFINE step == [x \in V \X (1..N) |-> B(x[1], x[2])]
           Is(g) == g = [n \in 0..N |-> IF n = 0 THEN base ELSE B(g[n - 1], n)]
           after == CHOOSE g : Is(g)
<1>a. Admit(results, budget) = after[N].admitted
  BY DEF Admit, Iterate
<1> HIDE DEF N, V, base, B
<1>b. step \in [V \X (1..N) -> V]
  BY <1>2
<1>c. PICK f \in [0..N -> V] : Up(f, N, base, step)
  <2> HIDE DEF step
  <2>1. N \in Nat /\ base \in V
    BY <1>1
  <2> QED BY <1>b, <2>1, StepsExist
<1>d. Is(f)
  <2> HIDE DEF step
  <2>1. f[0] = base /\ \A n \in 1..N : f[n] = step[<<f[n - 1], n>>]
    BY <1>c DEF Up
  <2>2. ASSUME NEW n \in 1..N PROVE f[n] = B(f[n - 1], n)
    <3>1. f[n - 1] \in V
      BY <1>1
    <3>2. step[<<f[n - 1], n>>] = B(f[n - 1], n)
      BY <3>1 DEF step
    <3> QED BY <2>1, <3>2
  <2> QED BY <1>1, <2>1, <2>2
<1>e. Is(after)
  <2> HIDE DEF Is
  <2> QED BY <1>d
<1>f. \A n \in 0..N : after[n] \in V
  <2> DEFINE S == {n \in 0..N : after[n] \in V}
  <2> HIDE DEF after
  <2>1. 0 \in S
    BY <1>1, <1>e
  <2>2. ASSUME NEW n \in 1..N, n - 1 \in S PROVE n \in S
    <3>1. after[n] = B(after[n - 1], n) /\ after[n - 1] \in V
      BY <1>1, <1>e, <2>2
    <3> QED BY <1>2, <3>1
  <2> HIDE DEF S
  <2>3. \A n \in 0..N : n \in S
    BY <1>1, <2>1, <2>2, Induct
  <2> QED BY <2>3 DEF S
<1>g. after[N] \in V
  BY <1>1, <1>f
<1> QED BY <1>a, <1>g DEF V

LEMMA AssembleType ==
    ASSUME CountsTokens, NEW U, NEW results \in Seq(U), \A r \in U : r.text \in Pieces,
           NEW budget, NEW m
    PROVE  assemble(results, budget, m) \in Seq(U)
BY FloorFirstType, AdmitType, UFoldType DEF assemble

-----------------------------------------------------------------------------
(* The inductive invariant, in parts. *)

PCs == {"idle", "raised", "personality", "tools", "recall", "use", "render", "done"}

Results == [key : Nat \X Nat, text : Pieces, defeated : BOOLEAN]

Frame == [pc : PCs, sections : SUBSET ToSet(HeadSections), tools : Seq(STRING),
          serves : SUBSET Channels, budget : Nat, remaining : Nat, tool_tokens : Nat, alloc : Nat,
          reads : [Channels -> Seq(Results)], unread : SUBSET (Channels \cup {"cold"}),
          chunks : Seq(Results), token_count : Nat, memory : Callers \cup {"none"},
          defeated : SUBSET Claims, as_of : SUBSET Claims]

Stores ==
    /\ claims \in [Claims -> [version : Nat, defeated : BOOLEAN, valid : BOOLEAN]]
    /\ Stored \subseteq Latents
    /\ latents \in [Stored -> [version : Nat, use : Nat, last : Nat, tier : {"hot", "cold"}]]
    /\ stash \in Callers \cup {"none"}
    /\ changes \in Nat

(* The budget is spent on the head, the task and the tools, or remains.    *)
HeadCost(f) == Cost(HeadText(f.sections)) + Cost(TaskText)

Paid(f) ==
    /\ f.pc = "personality" => /\ f.tool_tokens = 0
                               /\ RequiredTokens(f.sections) + f.remaining = f.budget
    /\ f.pc \in {"tools", "recall", "use", "render"} =>
           HeadCost(f) + f.tool_tokens + f.remaining = f.budget
    /\ f.pc \in {"recall", "use", "render"} => f.alloc <= f.remaining
    /\ f.pc = "done" => f.token_count <= f.budget

(* A result that says so of a claim that was defeated when the recall      *)
(* began, where the store says so, and a latent row that is in the store.  *)
Marked(D, S) == {r \in Results : /\ returns_status /\ r.key[1] = Kind.claim /\ r.key[2] \in D => r.defeated
                                 /\ r.key[1] = Kind.latent => r.key[2] \in S}
Kept(D, S) == {r \in Marked(D, S) : ~r.defeated}

(* D is what is defeated by now, S what is stored.                         *)
Faithful(f, D, S) ==
    /\ f.defeated \subseteq D
    /\ f.reads \in [Channels -> Seq(Marked(f.defeated, S))]
    /\ f.chunks \in Seq(Kept(f.defeated, S))
    /\ f.pc \in {"idle", "raised", "personality", "tools"} => f.reads = NoReads /\ f.chunks = <<>>
    /\ f.pc = "recall" => f.chunks = <<>>
    /\ "cold" \in f.unread => "dense.latent" \in Channels

DefeatedNow == {c \in Claims : claims[c].defeated}

Frames ==
    /\ calls \in [Callers -> Frame]
    /\ \A u \in Callers : Paid(calls[u]) /\ Faithful(calls[u], DefeatedNow, Stored)

Counted ==
    /\ uses \in [Latents -> Nat]
    /\ \A l \in Latents : IF l \in Stored THEN latents[l].use = uses[l] ELSE uses[l] = 0

Inv == Stores /\ Frames /\ Counted

-----------------------------------------------------------------------------
(* What the stores answer.                                                 *)

LEMMA KindsAre == Kind.claim = 1 /\ Kind.episode = 2 /\ Kind.latent = 3
                  /\ Kind["claim"] = 1 /\ Kind["episode"] = 2 /\ Kind["latent"] = 3
BY DEF Kind

LEMMA ResultType ==
    ASSUME NEW kind \in DOMAIN Kind, NEW id \in Nat, NEW version \in Nat, NEW defeated \in BOOLEAN
    PROVE  /\ Result(kind, id, version, defeated) \in Results
           /\ Result(kind, id, version, defeated).key[1] = Kind[kind]
           /\ Result(kind, id, version, defeated).key[2] = id
           /\ Result(kind, id, version, defeated).defeated = defeated
<1>1. PICK key \in Nat \X Nat : key = <<Kind[kind], id>>
  <2>1. Kind[kind] \in Nat
    BY DEF Kind
  <2> QED BY <2>1
<1>2. key[1] = Kind[kind] /\ key[2] = id
  BY <1>1
<1>3. PICK text \in Pieces : text = [of |-> "chunk", key |-> key, version |-> version]
  <2>1. PICK of \in Labels : of = "chunk"
    BY DEF Labels
  <2>2. [of |-> of, key |-> key, version |-> version] \in Pieces
    BY DEF Pieces
  <2> QED BY <2>1, <2>2
<1>4. Result(kind, id, version, defeated) = [key |-> key, text |-> text, defeated |-> defeated]
  BY <1>1, <1>3 DEF Result, Piece
<1>5. PICK r \in Results : r = [key |-> key, text |-> text, defeated |-> defeated]
  BY DEF Results
<1>6. r.key = key /\ r.defeated = defeated
  BY <1>5
<1> QED BY <1>2, <1>4, <1>5, <1>6

LEMMA MarkedShape ==
    ASSUME NEW D, NEW S
    PROVE  /\ Marked(D, S) \subseteq Results /\ Kept(D, S) \subseteq Marked(D, S)
           /\ \A r \in Marked(D, S) : r.key[1] \in Nat /\ r.key[2] \in Nat /\ r.text \in Pieces
BY DEF Marked, Kept, Results

LEMMA MarkedGrows ==
    ASSUME NEW D, NEW S, NEW T, S \subseteq T
    PROVE  Marked(D, S) \subseteq Marked(D, T) /\ Kept(D, S) \subseteq Kept(D, T)
BY DEF Marked, Kept

LEMMA ClaimResultsType ==
    ASSUME Inv, NEW channel \in Channels, NEW D \in SUBSET DefeatedNow, NEW as_of
    PROVE  ClaimResults(channel, as_of) \in Seq(Marked(D, Stored))
<1> DEFINE top == TopOf(channel, Claims)
           places == {i \in 1..Len(top) : top[i] \in as_of}
           ids == Pick(top, places)
           At1(i) == Result("claim", ids[i], claims[ids[i]].version, returns_status /\ claims[ids[i]].defeated)
<1>1. ids \in Seq(Claims \cap Nat)
  <2>1. top \in Seq(Claims \cap Nat)
    BY TopOfType
  <2> HIDE DEF top
  <2>2. Len(top) \in Nat /\ \A i \in 1..Len(top) : i \in places => top[i] \in Claims \cap Nat
    BY <2>1
  <2> HIDE DEF places
  <2> QED BY <2>2, PickType
<1>2. ClaimResults(channel, as_of) = [i \in 1..Len(ids) |-> At1(i)]
  BY DEF ClaimResults
<1> HIDE DEF ids
<1>3. ASSUME NEW i \in 1..Len(ids) PROVE At1(i) \in Marked(D, Stored)
  <2>1. PICK c \in Claims \cap Nat : c = ids[i]
    BY <1>1
  <2>2. claims[c].version \in Nat /\ claims[c].defeated \in BOOLEAN
    BY DEF Inv, Stores
  <2>3. c \in D => claims[c].defeated
    BY DEF DefeatedNow
  <2>8. PICK mark \in BOOLEAN : mark = (returns_status /\ claims[c].defeated)
    BY <2>2, ContextAssumption DEF ContextAssumption
  <2>4. PICK r : r = Result("claim", c, claims[c].version, mark)
    OBVIOUS
  <2>5. "claim" \in DOMAIN Kind
    BY DEF Kind
  <2>6. r \in Results /\ r.key[1] = 1 /\ r.key[2] = c /\ r.defeated = mark
    <3>1. PICK version \in Nat : version = claims[c].version
      BY <2>2
    <3>2. r = Result("claim", c, version, mark)
      BY <2>4, <3>1, Zenon
    <3>3. PICK kind \in DOMAIN Kind : kind = "claim"
      BY <2>5
    <3>4. /\ Result(kind, c, version, mark) \in Results
          /\ Result(kind, c, version, mark).key[1] = Kind[kind]
          /\ Result(kind, c, version, mark).key[2] = c
          /\ Result(kind, c, version, mark).defeated = mark
      BY ResultType
    <3>5. r = Result(kind, c, version, mark)
      BY <3>2, <3>3, Zenon
    <3>6. r \in Results /\ r.key[1] = Kind[kind] /\ r.key[2] = c /\ r.defeated = mark
      BY <3>4, <3>5, Zenon
    <3> QED BY <3>3, <3>6, KindsAre
  <2>7. r \in Marked(D, Stored)
    <3>1. ASSUME returns_status, c \in D PROVE mark
      <4>1. claims[c].defeated
        BY <2>3, <3>1
      <4> QED BY <2>8, <3>1, <4>1, Zenon
    <3>2. ASSUME returns_status, r.key[2] \in D PROVE r.defeated
      <4>1. mark
        BY <2>6, <3>1, <3>2
      <4>2. r.defeated = mark
        BY <2>6
      <4> QED BY <4>1, <4>2, Zenon
    <3>3. r.key[1] # Kind.latent
      BY <2>6, KindsAre
    <3> QED BY <2>6, <3>2, <3>3 DEF Marked
  <2>9. At1(i) = r
    <3>1. At1(i) = Result("claim", c, claims[c].version, returns_status /\ claims[c].defeated)
      BY <2>1, Zenon
    <3> QED BY <2>4, <2>8, <3>1, Zenon
  <2> QED BY <2>7, <2>9
<1> HIDE DEF At1
<1>4. Len(ids) \in Nat
  BY <1>1
<1> QED BY <1>2, <1>3, <1>4

LEMMA EpisodeResultsType ==
    ASSUME NEW channel \in Channels, NEW D, NEW S
    PROVE  EpisodeResults(channel) \in Seq(Marked(D, S))
<1> DEFINE ids == TopOf(channel, Episodes)
           At1(i) == Result("episode", ids[i], 0, FALSE)
<1>1. ids \in Seq(Episodes \cap Nat)
  BY TopOfType
<1>2. EpisodeResults(channel) = [i \in 1..Len(ids) |-> At1(i)]
  BY DEF EpisodeResults
<1> HIDE DEF ids
<1>3. ASSUME NEW i \in 1..Len(ids) PROVE At1(i) \in Marked(D, S)
  <2>1. PICK c \in Nat : c = ids[i]
    BY <1>1
  <2>2. PICK r, no : r = Result("episode", c, 0, no) /\ no = FALSE
    OBVIOUS
  <2>3. "episode" \in DOMAIN Kind
    BY DEF Kind
  <2>4. r \in Results /\ r.key[1] = 2
    <3>1. no \in BOOLEAN /\ 0 \in Nat
      BY <2>2
    <3>2. r \in Results /\ r.key[1] = Kind["episode"]
      BY <2>2, <2>3, <3>1, ResultType
    <3> QED BY <3>2, KindsAre
  <2>5. r \in Marked(D, S)
    BY <2>4, KindsAre DEF Marked
  <2> QED BY <2>1, <2>2, <2>5
<1> HIDE DEF At1
<1>4. Len(ids) \in Nat
  BY <1>1
<1> QED BY <1>2, <1>3, <1>4

LEMMA LatentResultsType ==
    ASSUME Inv, NEW channel \in Channels, NEW D, NEW tiers
    PROVE  LatentResults(channel, tiers) \in Seq(Marked(D, Stored))
<1> DEFINE ids == TopOf(channel, {l \in Stored : latents[l].tier \in tiers})
           At1(i) == Result("latent", ids[i], latents[ids[i]].version, FALSE)
<1>1. ids \in Seq(Stored \cap Nat)
  <2> DEFINE T == {l \in Stored : latents[l].tier \in tiers}
  <2>1. ids \in Seq(T \cap Nat)
    <3>1. ids = TopOf(channel, T)
      OBVIOUS
    <3> HIDE DEF T, ids
    <3> QED BY <3>1, TopOfType
  <2>2. T \cap Nat \subseteq Stored \cap Nat
    OBVIOUS
  <2> HIDE DEF T, ids
  <2> QED BY <2>1, <2>2, SeqMonotonic
<1>2. LatentResults(channel, tiers) = [i \in 1..Len(ids) |-> At1(i)]
  BY DEF LatentResults
<1> HIDE DEF ids
<1>3. ASSUME NEW i \in 1..Len(ids) PROVE At1(i) \in Marked(D, Stored)
  <2>1. PICK c \in Stored \cap Nat : c = ids[i]
    BY <1>1
  <2>2. latents[c].version \in Nat
    BY DEF Inv, Stores
  <2>3. PICK r, no : r = Result("latent", c, latents[c].version, no) /\ no = FALSE
    OBVIOUS
  <2>4. "latent" \in DOMAIN Kind
    BY DEF Kind
  <2>5. r \in Results /\ r.key[1] = 3 /\ r.key[2] = c
    <3>1. no \in BOOLEAN
      BY <2>3
    <3>2. r \in Results /\ r.key[1] = Kind["latent"] /\ r.key[2] = c
      BY <2>2, <2>3, <2>4, <3>1, ResultType
    <3> QED BY <3>2, KindsAre
  <2>6. r \in Marked(D, Stored)
    BY <2>1, <2>5, KindsAre DEF Marked
  <2> QED BY <2>1, <2>3, <2>6
<1> HIDE DEF At1
<1>4. Len(ids) \in Nat
  BY <1>1
<1> QED BY <1>2, <1>3, <1>4

LEMMA SearchType ==
    ASSUME Inv, NEW channel \in Channels, NEW D \in SUBSET DefeatedNow, NEW as_of
    PROVE  Search(channel, as_of) \in Seq(Marked(D, Stored))
<1>1. CASE channel = "temporal.episodes"
  BY <1>1, EpisodeResultsType DEF Search
<1>2. CASE channel = "dense.latent"
  BY <1>2, LatentResultsType DEF Search
<1>3. CASE channel # "temporal.episodes" /\ channel # "dense.latent"
  BY <1>3, ClaimResultsType DEF Search
<1> QED BY <1>1, <1>2, <1>3

-----------------------------------------------------------------------------
(* What texts cost.                                                        *)

LEMMA CostType == ASSUME CountsTokens, NEW text \in Seq(Pieces) PROVE Cost(text) \in Nat
BY DEF Cost, CountsTokens

LEMMA SectionType == ASSUME NEW name \in Labels PROVE Section(name) \in Pieces
BY DEF Section, Piece, Pieces

LEMMA HeadTextType == ASSUME NEW sections PROVE HeadText(sections) \in Seq(Pieces)
<1> DEFINE places == {i \in 1..Len(HeadSections) : HeadSections[i] \in sections}
           names == Pick(HeadSections, places)
<1>1. names \in Seq(Labels)
  <2>1. HeadSections \in Seq(Labels)
    <3>1. \A a, b, c \in Labels : <<a, b, c>> \in Seq(Labels)
      OBVIOUS
    <3>2. "rules" \in Labels /\ "personality" \in Labels /\ "instructions" \in Labels
      BY DEF Labels
    <3> QED BY <3>1, <3>2 DEF HeadSections
  <2> HIDE DEF places
  <2>2. Len(HeadSections) \in Nat
        /\ \A i \in 1..Len(HeadSections) : i \in places => HeadSections[i] \in Labels
    BY <2>1
  <2> QED BY <2>2, PickType
<1>2. HeadText(sections) = [i \in 1..Len(names) |-> Section(names[i])]
  BY DEF HeadText
<1> HIDE DEF names
<1>3. ASSUME NEW i \in 1..Len(names) PROVE Section(names[i]) \in Pieces
  <2>1. names[i] \in Labels
    BY <1>1
  <2> QED BY <2>1, SectionType
<1>4. Len(names) \in Nat
  BY <1>1
<1> QED BY <1>2, <1>3, <1>4

LEMMA HeadCostType ==
    ASSUME CountsTokens, NEW sections
    PROVE  /\ Cost(HeadText(sections)) \in Nat /\ Cost(TaskText) \in Nat
           /\ RequiredTokens(sections) \in Nat /\ PersonalityDelta(sections) \in Int
<1>1. Cost(HeadText(sections)) \in Nat /\ Cost(HeadText(sections \ {"personality"})) \in Nat
  BY HeadTextType, CostType
<1>2. Cost(TaskText) \in Nat
  <2>1. Section("task") \in Pieces
    BY SectionType DEF Labels
  <2>2. TaskText \in Seq(Pieces)
    BY <2>1 DEF TaskText
  <2> QED BY <2>2, CostType
<1> QED BY <1>1, <1>2 DEF RequiredTokens, PersonalityDelta

LEMMA EnvelopeType ==
    ASSUME NEW texts \in Seq(Pieces) PROVE Envelope(texts) \in Seq(Pieces)
<1>1. <<Section("memory:start")>> \in Seq(Pieces) /\ <<Section("memory:end")>> \in Seq(Pieces)
  <2>1. Section("memory:start") \in Pieces
    BY SectionType DEF Labels
  <2>2. Section("memory:end") \in Pieces
    BY SectionType DEF Labels
  <2> QED BY <2>1, <2>2
<1>2. <<Section("memory:start")>> \o texts \in Seq(Pieces)
  BY <1>1, ConcatProperties
<1> QED BY <1>1, <1>2, ConcatProperties DEF Envelope

LEMMA BodyCostType ==
    ASSUME CountsTokens, NEW texts \in Seq(Pieces)
    PROVE  BodyCost(texts) \in Nat /\ Overhead \in Nat
<1>1. <<>> \in Seq(Pieces)
  OBVIOUS
<1> QED BY <1>1, EnvelopeType DEF BodyCost, Overhead, CountsTokens

LEMMA TextsType ==
    ASSUME NEW chunks \in Seq(Results) PROVE Texts(chunks) \in Seq(Pieces)
<1>1. \A i \in 1..Len(chunks) : chunks[i].text \in Pieces
  <2> SUFFICES ASSUME NEW i \in 1..Len(chunks) PROVE chunks[i].text \in Pieces
    OBVIOUS
  <2>1. chunks[i] \in Results
    OBVIOUS
  <2> QED BY <2>1 DEF Results
<1>2. Len(chunks) \in Nat
  OBVIOUS
<1> QED BY <1>1, <1>2 DEF Texts

(* What is shown fits what was allotted, and is some of what was injected. *)
LEMMA TrimFits ==
    ASSUME CountsTokens, NEW U \in SUBSET Results, NEW chunks \in Seq(U), NEW alloc \in Nat
    PROVE  Trim(chunks, alloc) \in Seq(U) /\ BodyCost(Texts(Trim(chunks, alloc))) <= alloc
<1> DEFINE fits == {n \in 1..Len(chunks) - 1 : BodyCost(Texts(SubSeq(chunks, 1, n))) <= alloc}
<1>1. CASE BodyCost(Texts(chunks)) <= alloc
  BY <1>1 DEF Trim
<1>2. CASE ~(BodyCost(Texts(chunks)) <= alloc) /\ fits = {}
  <2>1. Trim(chunks, alloc) = <<>>
    BY <1>2 DEF Trim
  <2>2. Texts(<<>>) = <<>>
    BY DEF Texts
  <2> QED BY <2>1, <2>2 DEF BodyCost
<1>3. CASE ~(BodyCost(Texts(chunks)) <= alloc) /\ fits # {}
  <2>1. Trim(chunks, alloc) = SubSeq(chunks, 1, Max(fits))
    BY <1>3 DEF Trim
  <2>2. Len(chunks) \in Nat
    OBVIOUS
  <2>3. \E m \in fits : \A n \in fits : m >= n
    <3> DEFINE short == {Len(chunks) - n : n \in fits}
    <3> HIDE DEF fits
    <3>1. fits \subseteq 1..Len(chunks) - 1
      BY DEF fits
    <3>2. short \in SUBSET Nat /\ short # {}
      <4>1. ASSUME NEW n \in fits PROVE Len(chunks) - n \in Nat
        BY <2>2, <3>1
      <4> QED BY <1>3, <4>1
    <3>3. PICK s \in short : \A t \in short : s <= t
      <4> HIDE DEF short
      <4> QED BY <3>2, Least
    <3>4. PICK m \in fits : s = Len(chunks) - m
      OBVIOUS
    <3>5. ASSUME NEW n \in fits PROVE m >= n
      <4>1. s <= Len(chunks) - n
        BY <3>3
      <4> QED BY <2>2, <3>1, <3>4, <4>1
    <3> QED BY <3>5
  <2>4. Max(fits) \in fits
    <3> HIDE DEF fits
    <3> QED BY <2>3 DEF Max
  <2>5. PICK m \in 1..Len(chunks) - 1 : m = Max(fits)
             /\ BodyCost(Texts(SubSeq(chunks, 1, m))) <= alloc
    BY <2>4
  <2>6. SubSeq(chunks, 1, m) \in Seq(U)
    BY <2>2, SubSeqProperties
  <2> HIDE DEF fits
  <2> QED BY <2>1, <2>5, <2>6
<1> QED BY <1>1, <1>2, <1>3

-----------------------------------------------------------------------------
(* A step of one call leaves the others be, and a write to the stores only *)
(* adds to what is defeated and what is stored.                            *)

LEMMA FaithfulGrows ==
    ASSUME NEW f, NEW D, NEW E, NEW S, NEW T, D \subseteq E, S \subseteq T, Faithful(f, D, S)
    PROVE  Faithful(f, E, T)
<1>1. Marked(f.defeated, S) \subseteq Marked(f.defeated, T)
      /\ Kept(f.defeated, S) \subseteq Kept(f.defeated, T)
  BY MarkedGrows
<1>2. f.chunks \in Seq(Kept(f.defeated, T))
  BY <1>1, SeqMonotonic DEF Faithful
<1>3. f.reads \in [Channels -> Seq(Marked(f.defeated, T))]
  <2>1. f.reads \in [Channels -> Seq(Marked(f.defeated, S))]
    BY DEF Faithful
  <2>2. \A c \in Channels : f.reads[c] \in Seq(Marked(f.defeated, T))
    BY <1>1, <2>1, SeqMonotonic
  <2> QED BY <2>1, <2>2
<1> QED BY <1>2, <1>3 DEF Faithful

LEMMA FramesStay ==
    ASSUME Inv, DefeatedNow \subseteq DefeatedNow', Stored \subseteq Stored', UNCHANGED calls
    PROVE  Frames'
<1>1. \A u \in Callers : Faithful(calls[u], DefeatedNow', Stored')
  BY FaithfulGrows DEF Inv, Frames
<1> QED BY <1>1 DEF Inv, Frames

LEMMA CallMoves ==
    ASSUME Inv, NEW u \in Callers, NEW g \in Frame, Goto(u, g), Paid(g),
           Faithful(g, DefeatedNow, Stored), DefeatedNow' = DefeatedNow, Stored' = Stored
    PROVE  Frames'
<1>1. calls' = [calls EXCEPT ![u] = g] /\ calls \in [Callers -> Frame]
  BY DEF Goto, Inv, Frames
<1>2. calls' \in [Callers -> Frame]
  BY <1>1
<1>3. ASSUME NEW w \in Callers
      PROVE  Paid(calls'[w]) /\ Faithful(calls'[w], DefeatedNow', Stored')
  <2>1. CASE w = u
    BY <1>1, <2>1
  <2>2. CASE w # u
    BY <1>1, <2>2 DEF Inv, Frames
  <2> QED BY <2>1, <2>2
<1> QED BY <1>2, <1>3 DEF Frames

LEMMA CallStep ==
    ASSUME Inv, NEW u \in Callers, NEW g \in Frame, Goto(u, g), Paid(g),
           Faithful(g, DefeatedNow, Stored), stash' \in Callers \cup {"none"},
           UNCHANGED <<claims, latents, uses, changes>>
    PROVE  Inv'
<1>1. DefeatedNow' = DefeatedNow /\ Stored' = Stored
  BY DEF DefeatedNow, Stored
<1>2. Frames'
  BY <1>1, CallMoves
<1>3. Stores'
  BY <1>1 DEF Inv, Stores
<1>4. Counted'
  BY <1>1 DEF Inv, Counted
<1> QED BY <1>2, <1>3, <1>4 DEF Inv

LEMMA FrameOf ==
    ASSUME Inv, NEW u \in Callers
    PROVE  calls[u] \in Frame /\ Paid(calls[u]) /\ Faithful(calls[u], DefeatedNow, Stored)
           /\ stash \in Callers \cup {"none"}
BY DEF Inv, Frames, Stores

-----------------------------------------------------------------------------
(* The steps of a call. *)

LEMMA NewFrameType ==
    ASSUME NEW S
    PROVE  /\ NewFrame \in Frame
           /\ NoReads \in [Channels -> Seq(Marked({}, S))] /\ <<>> \in Seq(Kept({}, S))
<1>1. NoReads \in [Channels -> Seq(Marked({}, S))] /\ NoReads \in [Channels -> Seq(Results)]
  BY DEF NoReads
<1>2. NewFrame \in Frame
  BY <1>1 DEF NewFrame, Frame, PCs
<1> QED BY <1>1, <1>2

LEMMA BeginKeeps ==
    ASSUME CountsTokens, Inv, NEW u \in Callers, NEW r \in Requests, Begin(u, r)
    PROVE  Inv'
<1> DEFINE required == RequiredTokens(r.sections)
           f == [NewFrame EXCEPT !.sections = r.sections, !.tools = r.tools, !.serves = r.serves,
                                 !.budget = r.total_budget]
           g == IF required > r.total_budget THEN [f EXCEPT !.pc = "raised"]
                ELSE [f EXCEPT !.pc = "personality", !.remaining = r.total_budget - required]
<1>1. r.sections \in SUBSET ToSet(HeadSections) /\ r.tools \in Seq(STRING)
      /\ r.serves \in SUBSET Channels /\ r.total_budget \in Nat
  BY ContextAssumption DEF Request
<1>2. required \in Nat
  BY HeadCostType
<1>3. f \in Frame /\ f.defeated = {} /\ f.reads = NoReads /\ f.chunks = <<>> /\ f.unread = {}
      /\ f.tool_tokens = 0 /\ f.sections = r.sections /\ f.budget = r.total_budget
  BY <1>1, NewFrameType DEF NewFrame, Frame
<1> HIDE DEF f, required
<1>4. g \in Frame /\ g.defeated = {} /\ g.reads = NoReads /\ g.chunks = <<>> /\ g.unread = {}
      /\ g.pc \in {"raised", "personality"}
  <2>1. CASE required > r.total_budget
    BY <1>3, <2>1 DEF Frame, PCs
  <2>2. CASE ~(required > r.total_budget)
    <3>1. PICK remaining \in Nat : remaining = r.total_budget - required
      BY <1>1, <1>2, <2>2
    <3>2. g = [f EXCEPT !.pc = "personality", !.remaining = remaining]
      BY <2>2, <3>1
    <3> HIDE DEF g
    <3> QED BY <1>3, <3>2 DEF Frame, PCs
  <2> QED BY <2>1, <2>2
<1>5. Paid(g)
  <2>1. CASE required > r.total_budget
    BY <1>3, <2>1 DEF Paid, Frame
  <2>2. CASE ~(required > r.total_budget)
    <3>1. g.pc = "personality" /\ g.tool_tokens = 0 /\ g.sections = r.sections
          /\ g.budget = r.total_budget /\ g.remaining = r.total_budget - required
      BY <1>3, <2>2 DEF Frame
    <3> HIDE DEF g
    <3>2. RequiredTokens(g.sections) + g.remaining = g.budget
      BY <1>1, <1>2, <3>1 DEF required
    <3> QED BY <3>1, <3>2 DEF Paid
  <2> QED BY <2>1, <2>2
<1>6. Goto(u, g) /\ UNCHANGED <<claims, latents, stash, uses, changes>>
  BY DEF Begin, f, required
<1> HIDE DEF g
<1>7. Faithful(g, DefeatedNow, Stored)
  BY <1>4, NewFrameType DEF Faithful
<1> QED BY <1>4, <1>5, <1>6, <1>7, FrameOf, CallStep

LEMMA RequiredFailsKeeps ==
    ASSUME Inv, NEW u \in Callers, RequiredFails(u)
    PROVE  Inv'
<1> DEFINE g == [NewFrame EXCEPT !.pc = "raised"]
<1>1. g \in Frame /\ g.pc = "raised" /\ g.defeated = {} /\ g.reads = NoReads /\ g.chunks = <<>>
      /\ g.unread = {}
  BY NewFrameType DEF NewFrame, Frame, PCs
<1>2. Goto(u, g) /\ UNCHANGED <<claims, latents, stash, uses, changes>>
  BY DEF RequiredFails
<1> HIDE DEF g
<1>3. Paid(g) /\ Faithful(g, DefeatedNow, Stored)
  BY <1>1, NewFrameType DEF Paid, Faithful
<1> QED BY <1>1, <1>2, <1>3, FrameOf, CallStep

LEMMA ChargePersonalityKeeps ==
    ASSUME CountsTokens, Inv, NEW u \in Callers, ChargePersonality(u)
    PROVE  Inv'
<1>1. PICK f \in Frame : f = calls[u] /\ Paid(f) /\ Faithful(f, DefeatedNow, Stored)
  BY FrameOf
<1>2. f.pc = "personality"
  BY <1>1 DEF ChargePersonality, At
<1> DEFINE delta == PersonalityDelta(f.sections)
           g == IF delta <= f.remaining THEN [f EXCEPT !.pc = "tools", !.remaining = @ - delta]
                ELSE [f EXCEPT !.pc = "tools", !.sections = @ \ {"personality"}]
<1>3. Goto(u, g) /\ UNCHANGED <<claims, latents, stash, uses, changes>>
  BY <1>1 DEF ChargePersonality
<1>4. delta \in Int /\ Cost(HeadText(f.sections)) \in Nat /\ Cost(TaskText) \in Nat
      /\ Cost(HeadText(f.sections \ {"personality"})) \in Nat /\ f.remaining \in Nat
      /\ f.budget \in Nat
  BY HeadCostType DEF Frame
<1>5. f.tool_tokens = 0 /\ RequiredTokens(f.sections) + f.remaining = f.budget
  BY <1>1, <1>2 DEF Paid
<1>6. g \in Frame /\ g.pc = "tools" /\ g.tool_tokens = 0 /\ g.budget = f.budget
      /\ g.reads = f.reads /\ g.chunks = f.chunks /\ g.defeated = f.defeated /\ g.unread = f.unread
  <2>1. CASE delta <= f.remaining
    <3>1. PICK remaining \in Nat : remaining = f.remaining - delta
      <4> HIDE DEF delta
      <4> QED BY <1>4, <2>1
    <3>2. g = [f EXCEPT !.pc = "tools", !.remaining = remaining]
      BY <2>1, <3>1
    <3> HIDE DEF g
    <3> QED BY <1>5, <3>2 DEF Frame, PCs
  <2>2. CASE ~(delta <= f.remaining)
    <3>1. g = [f EXCEPT !.pc = "tools", !.sections = f.sections \ {"personality"}]
      BY <2>2
    <3>2. f.sections \ {"personality"} \in SUBSET ToSet(HeadSections)
      BY DEF Frame
    <3> HIDE DEF g
    <3> QED BY <1>5, <3>1, <3>2 DEF Frame, PCs
  <2> QED BY <2>1, <2>2
<1>7. HeadCost(g) + g.remaining = g.budget
  <2>1. CASE delta <= f.remaining
    <3>1. g.sections = f.sections /\ g.remaining = f.remaining - delta
      <4> HIDE DEF delta
      <4> QED BY <2>1 DEF Frame
    <3> HIDE DEF g
    <3> QED BY <1>4, <1>5, <1>6, <3>1 DEF HeadCost, RequiredTokens, PersonalityDelta
  <2>2. CASE ~(delta <= f.remaining)
    <3>1. g.sections = f.sections \ {"personality"} /\ g.remaining = f.remaining
      <4> HIDE DEF delta
      <4> QED BY <2>2 DEF Frame
    <3> HIDE DEF g
    <3> QED BY <1>4, <1>5, <1>6, <3>1 DEF HeadCost, RequiredTokens
  <2> QED BY <2>1, <2>2
<1> HIDE DEF g
<1>8. Paid(g)
  <2>1. HeadCost(g) + g.tool_tokens + g.remaining = g.budget
    <3>1. HeadCost(g) \in Nat /\ g.remaining \in Nat
      BY <1>6, HeadCostType DEF HeadCost, Frame
    <3> QED BY <1>6, <1>7, <3>1
  <2> QED BY <1>6, <2>1 DEF Paid
<1>9. Faithful(g, DefeatedNow, Stored)
  BY <1>1, <1>2, <1>6 DEF Faithful
<1> QED BY <1>3, <1>6, <1>8, <1>9, FrameOf, CallStep

LEMMA ChargeToolKeeps ==
    ASSUME CountsTokens, Inv, NEW u \in Callers, ChargeTool(u)
    PROVE  Inv'
<1>1. PICK f \in Frame : f = calls[u] /\ Paid(f) /\ Faithful(f, DefeatedNow, Stored)
  BY FrameOf
<1>2. f.pc = "tools" /\ f.tools # <<>>
  BY <1>1 DEF ChargeTool, At
<1> DEFINE cost == Count(<<Section(Head(f.tools))>>)
           g == IF cost <= f.remaining
                THEN [f EXCEPT !.tools = Tail(@), !.remaining = @ - cost, !.tool_tokens = @ + cost]
                ELSE [f EXCEPT !.tools = Tail(@)]
<1>3. Goto(u, g) /\ UNCHANGED <<claims, latents, stash, uses, changes>>
  BY <1>1 DEF ChargeTool
<1>4. f.tools \in Seq(STRING) /\ f.remaining \in Nat /\ f.tool_tokens \in Nat /\ f.budget \in Nat
  BY DEF Frame
<1>5. cost \in Nat /\ Tail(f.tools) \in Seq(STRING)
  <2>1. Head(f.tools) \in STRING /\ Tail(f.tools) \in Seq(STRING)
    BY <1>2, <1>4, HeadTailProperties
  <2>2. Section(Head(f.tools)) \in Pieces
    <3>1. Head(f.tools) \in Labels
      BY <2>1 DEF Labels
    <3> QED BY <3>1, SectionType
  <2>3. <<Section(Head(f.tools))>> \in Seq(Pieces)
    BY <2>2
  <2> QED BY <2>1, <2>3 DEF CountsTokens
<1>6. HeadCost(f) \in Nat /\ HeadCost(f) + f.tool_tokens + f.remaining = f.budget
  BY <1>1, <1>2, HeadCostType DEF Paid, HeadCost
<1> HIDE DEF cost
<1>7. g \in Frame /\ g.pc = "tools" /\ g.sections = f.sections /\ g.budget = f.budget
      /\ g.reads = f.reads /\ g.chunks = f.chunks /\ g.defeated = f.defeated /\ g.unread = f.unread
      /\ g.tool_tokens + g.remaining = f.tool_tokens + f.remaining
      /\ g.tool_tokens \in Nat /\ g.remaining \in Nat
  <2>1. CASE cost <= f.remaining
    <3>1. PICK remaining \in Nat : remaining = f.remaining - cost
      BY <1>4, <1>5, <2>1
    <3>2. PICK spent \in Nat : spent = f.tool_tokens + cost
      BY <1>4, <1>5
    <3>3. PICK tools \in Seq(STRING) : tools = Tail(f.tools)
      BY <1>5
    <3>4. g = [f EXCEPT !.tools = tools, !.remaining = remaining, !.tool_tokens = spent]
      BY <2>1, <3>1, <3>2, <3>3
    <3>5. spent + remaining = f.tool_tokens + f.remaining
      BY <1>4, <1>5, <3>1, <3>2
    <3> HIDE DEF g
    <3> QED BY <1>2, <3>4, <3>5 DEF Frame
  <2>2. CASE ~(cost <= f.remaining)
    <3>1. PICK tools \in Seq(STRING) : tools = Tail(f.tools)
      BY <1>5
    <3>2. g = [f EXCEPT !.tools = tools]
      BY <2>2, <3>1
    <3> HIDE DEF g
    <3> QED BY <1>2, <1>4, <3>2 DEF Frame
  <2> QED BY <2>1, <2>2
<1> HIDE DEF g
<1>8. Paid(g)
  <2>1. HeadCost(g) = HeadCost(f)
    BY <1>7 DEF HeadCost
  <2>2. PICK head, spent, left, spent0, left0, budget \in Nat :
          /\ head = HeadCost(f) /\ spent = g.tool_tokens /\ left = g.remaining
          /\ spent0 = f.tool_tokens /\ left0 = f.remaining /\ budget = f.budget
    BY <1>4, <1>6, <1>7
  <2>3. head + spent0 + left0 = budget /\ spent + left = spent0 + left0
    BY <1>6, <1>7, <2>2
  <2>4. head + spent + left = budget
    BY <2>3
  <2>5. HeadCost(g) + g.tool_tokens + g.remaining = g.budget
    BY <1>7, <2>1, <2>2, <2>4
  <2> QED BY <1>7, <2>5 DEF Paid
<1>9. Faithful(g, DefeatedNow, Stored)
  BY <1>1, <1>2, <1>7 DEF Faithful
<1> QED BY <1>3, <1>7, <1>8, <1>9, FrameOf, CallStep

LEMMA AllotType ==
    ASSUME CountsTokens, NEW f \in Frame
    PROVE  Allot(f) \in Nat /\ Allot(f) <= f.remaining
<1> DEFINE left == IF f.remaining < Overhead THEN 0 ELSE f.remaining - Overhead
<1>1. Overhead \in Nat /\ f.remaining \in Nat /\ token_budget \in Nat
  <2>1. <<>> \in Seq(Pieces)
    OBVIOUS
  <2> QED BY <2>1, BodyCostType, ContextAssumption DEF Frame
<1>2. left \in Nat /\ left <= f.remaining
  BY <1>1
<1>3. Allot(f) = Min({left, token_budget})
  BY DEF Allot
<1> HIDE DEF left
<1>4. \E x \in {left, token_budget} : \A y \in {left, token_budget} : x =< y
  BY <1>1, <1>2
<1>5. Allot(f) \in {left, token_budget} /\ Allot(f) <= left
  BY <1>3, <1>4 DEF Min
<1> QED BY <1>1, <1>2, <1>5

LEMMA OpenMemoryKeeps ==
    ASSUME CountsTokens, Inv, NEW u \in Callers, OpenMemory(u)
    PROVE  Inv'
<1>1. PICK f \in Frame : f = calls[u] /\ Paid(f) /\ Faithful(f, DefeatedNow, Stored)
  BY FrameOf
<1>2. f.pc = "tools"
  BY <1>1 DEF OpenMemory, At
<1> DEFINE alloc == Allot(f)
           h == [f EXCEPT !.alloc = alloc]
           g == IF alloc = 0 \/ h.serves = {} THEN [h EXCEPT !.pc = "render"]
                ELSE [h EXCEPT !.pc = "recall", !.unread = h.serves, !.as_of = ValidClaims,
                               !.defeated = DefeatedNow]
<1>3. Goto(u, g) /\ stash' \in {stash, "none"} /\ UNCHANGED <<claims, latents, uses, changes>>
  BY <1>1 DEF OpenMemory, DefeatedNow
<1>4. alloc \in Nat /\ alloc <= f.remaining
  BY AllotType
<1>5. ValidClaims \in SUBSET Claims /\ DefeatedNow \in SUBSET Claims
  BY DEF ValidClaims, DefeatedNow
<1>6. f.reads = NoReads /\ f.chunks = <<>>
  BY <1>1, <1>2 DEF Faithful
<1> HIDE DEF alloc
<1>7. g \in Frame /\ g.sections = f.sections /\ g.budget = f.budget /\ g.remaining = f.remaining
      /\ g.tool_tokens = f.tool_tokens /\ g.alloc = alloc /\ g.pc \in {"render", "recall"}
      /\ g.reads = NoReads /\ g.chunks = <<>> /\ g.defeated \in {f.defeated, DefeatedNow}
      /\ g.unread \in {f.unread, f.serves}
  <2>1. CASE alloc = 0 \/ h.serves = {}
    BY <1>4, <1>6, <2>1 DEF Frame, PCs
  <2>2. CASE ~(alloc = 0 \/ h.serves = {})
    BY <1>4, <1>5, <1>6, <2>2 DEF Frame, PCs
  <2> QED BY <2>1, <2>2
<1> HIDE DEF g
<1>8. Paid(g)
  <2>1. HeadCost(g) = HeadCost(f)
    BY <1>7 DEF HeadCost
  <2>2. HeadCost(g) + g.tool_tokens + g.remaining = g.budget
    BY <1>1, <1>2, <1>7, <2>1 DEF Paid
  <2> QED BY <1>4, <1>7, <2>2 DEF Paid
<1>9. Faithful(g, DefeatedNow, Stored)
  <2>1. g.defeated \subseteq DefeatedNow
    BY <1>1, <1>7 DEF Faithful
  <2>2. "cold" \in g.unread => "dense.latent" \in Channels
    <3>1. f.serves \subseteq Channels
      BY DEF Frame
    <3> QED BY <1>1, <1>7, <3>1, ContextAssumption DEF Faithful
  <2>3. NoReads \in [Channels -> Seq(Marked(g.defeated, Stored))]
        /\ <<>> \in Seq(Kept(g.defeated, Stored))
    BY DEF NoReads
  <2> QED BY <1>7, <2>1, <2>2, <2>3 DEF Faithful
<1>10. stash' \in Callers \cup {"none"}
  BY <1>3, FrameOf
<1> QED BY <1>3, <1>7, <1>8, <1>9, <1>10, CallStep

(* A recall goes on: some channel has answered.                            *)
LEMMA RecallGoesOn ==
    ASSUME Inv, NEW u \in Callers, At(u, "recall"), NEW channel, NEW results,
           results \in Seq(Marked(calls[u].defeated, Stored)),
           NEW unread \in SUBSET (Channels \cup {"cold"}),
           "cold" \in unread => "dense.latent" \in Channels,
           Goto(u, [calls[u] EXCEPT !.reads[channel] = results, !.unread = unread]),
           UNCHANGED <<claims, latents, stash, uses, changes>>
    PROVE  Inv'
<1>1. PICK f \in Frame : f = calls[u] /\ Paid(f) /\ Faithful(f, DefeatedNow, Stored)
  BY FrameOf
<1>2. f.pc = "recall"
  BY <1>1 DEF At
<1>3. PICK reads : reads = [f.reads EXCEPT ![channel] = results]
  OBVIOUS
<1>4. reads \in [Channels -> Seq(Marked(f.defeated, Stored))]
  BY <1>1, <1>3 DEF Faithful
<1>5. reads \in [Channels -> Seq(Results)]
  <2>1. \A c \in Channels : reads[c] \in Seq(Results)
    BY <1>4, MarkedShape, SeqMonotonic
  <2> QED BY <1>4, <2>1
<1>6. PICK g : g = [f EXCEPT !.reads = reads, !.unread = unread]
  OBVIOUS
<1>7. g \in Frame /\ g.reads = reads /\ g.unread = unread /\ g.pc = "recall"
      /\ g.sections = f.sections /\ g.budget = f.budget /\ g.remaining = f.remaining
      /\ g.tool_tokens = f.tool_tokens /\ g.alloc = f.alloc /\ g.chunks = f.chunks
      /\ g.defeated = f.defeated
  BY <1>2, <1>5, <1>6 DEF Frame
<1>8. Goto(u, g)
  BY <1>1, <1>3, <1>6
<1>9. Paid(g)
  BY <1>1, <1>2, <1>7 DEF Paid, HeadCost
<1>10. Faithful(g, DefeatedNow, Stored)
  BY <1>1, <1>2, <1>4, <1>7 DEF Faithful
<1> QED BY <1>7, <1>8, <1>9, <1>10, FrameOf, CallStep

LEMMA ReadChannelKeeps ==
    ASSUME Inv, NEW u \in Callers, NEW channel \in Channels, ReadChannel(u, channel)
    PROVE  Inv'
<1> DEFINE unread == calls[u].unread \ {channel}
           results == Search(channel, calls[u].as_of)
<1>1. calls[u].unread \subseteq Channels \cup {"cold"}
      /\ ("cold" \in calls[u].unread => "dense.latent" \in Channels)
      /\ calls[u].defeated \in SUBSET DefeatedNow
  BY FrameOf DEF Frame, Faithful
<1>2. unread \in SUBSET (Channels \cup {"cold"})
      /\ ("cold" \in unread => "dense.latent" \in Channels)
  BY <1>1
<1>3. results \in Seq(Marked(calls[u].defeated, Stored))
  BY <1>1, SearchType
<1>4. At(u, "recall") /\ Goto(u, [calls[u] EXCEPT !.reads[channel] = results, !.unread = unread])
      /\ UNCHANGED <<claims, latents, stash, uses, changes>>
  BY DEF ReadChannel, HasRead
<1> HIDE DEF unread, results
<1> QED BY <1>2, <1>3, <1>4, RecallGoesOn

LEMMA ChannelFailsKeeps ==
    ASSUME Inv, NEW u \in Callers, NEW channel \in Channels, ChannelFails(u, channel)
    PROVE  Inv'
<1> DEFINE unread == calls[u].unread \ {channel}
<1>1. calls[u].unread \subseteq Channels \cup {"cold"}
      /\ ("cold" \in calls[u].unread => "dense.latent" \in Channels)
  BY FrameOf DEF Frame, Faithful
<1>2. unread \in SUBSET (Channels \cup {"cold"})
      /\ ("cold" \in unread => "dense.latent" \in Channels)
  BY <1>1
<1>3. <<>> \in Seq(Marked(calls[u].defeated, Stored))
  OBVIOUS
<1>4. At(u, "recall") /\ Goto(u, [calls[u] EXCEPT !.reads[channel] = <<>>, !.unread = unread])
      /\ UNCHANGED <<claims, latents, stash, uses, changes>>
  BY DEF ChannelFails, HasRead
<1> HIDE DEF unread
<1> QED BY <1>2, <1>3, <1>4, RecallGoesOn

LEMMA ReadHotKeeps ==
    ASSUME Inv, NEW u \in Callers, ReadHot(u)
    PROVE  Inv'
<1> DEFINE hot == LatentResults("dense.latent", {"hot"})
           U == Marked(calls[u].defeated, Stored)
<1>1. calls[u].unread \subseteq Channels \cup {"cold"} /\ "dense.latent" \in calls[u].unread
      /\ ("cold" \in calls[u].unread => "dense.latent" \in Channels)
  BY FrameOf DEF Frame, Faithful, ReadHot
<1>2. "dense.latent" \in Channels
  BY <1>1
<1>3. hot \in Seq(U)
  BY <1>2, LatentResultsType
<1>4. At(u, "recall") /\ UNCHANGED <<claims, latents, stash, uses, changes>>
  BY DEF ReadHot
<1>5. CASE Len(Accepted(hot)) >= k
  <2> DEFINE unread == calls[u].unread \ {"dense.latent"}
             results == FirstOf(k, Accepted(hot))
  <2>1. Accepted(hot) \in Seq(U)
    <3> HIDE DEF hot, U
    <3> QED BY <1>2, <1>3, HotFirstType
  <2>2. results \in Seq(U)
    <3> HIDE DEF hot, U
    <3> QED BY <2>1, FirstOfType, RecallAssumption
  <2>3. Goto(u, [calls[u] EXCEPT !.reads["dense.latent"] = results, !.unread = unread])
    BY <1>5 DEF ReadHot, HasRead
  <2>4. unread \in SUBSET (Channels \cup {"cold"})
        /\ ("cold" \in unread => "dense.latent" \in Channels)
    BY <1>1
  <2> HIDE DEF unread, results
  <2> QED BY <1>4, <2>2, <2>3, <2>4, RecallGoesOn
<1>6. CASE ~(Len(Accepted(hot)) >= k)
  <2> DEFINE unread == (calls[u].unread \ {"dense.latent"}) \cup {"cold"}
  <2>1. Goto(u, [calls[u] EXCEPT !.reads["dense.latent"] = hot, !.unread = unread])
    BY <1>6 DEF ReadHot
  <2>2. unread \in SUBSET (Channels \cup {"cold"})
        /\ ("cold" \in unread => "dense.latent" \in Channels)
    BY <1>1, <1>2
  <2> HIDE DEF unread, hot
  <2> QED BY <1>3, <1>4, <2>1, <2>2, RecallGoesOn
<1> QED BY <1>5, <1>6

LEMMA ReadColdKeeps ==
    ASSUME Inv, NEW u \in Callers, ReadCold(u)
    PROVE  Inv'
<1> DEFINE U == Marked(calls[u].defeated, Stored)
           unread == calls[u].unread \ {"cold"}
           results == HotFirst("dense.latent", calls[u].reads["dense.latent"],
                               LatentResults("dense.latent", {"cold"}))
<1>1. "dense.latent" \in Channels /\ calls[u].unread \subseteq Channels \cup {"cold"}
  BY FrameOf DEF Frame, Faithful, ReadCold
<1>2. calls[u].reads["dense.latent"] \in Seq(U)
  BY <1>1, FrameOf DEF Faithful
<1>3. LatentResults("dense.latent", {"cold"}) \in Seq(U)
  BY <1>1, LatentResultsType
<1>4. results \in Seq(U)
  <2> HIDE DEF U
  <2> QED BY <1>1, <1>2, <1>3, HotFirstType
<1>5. unread \in SUBSET (Channels \cup {"cold"})
  BY <1>1
<1>6. At(u, "recall") /\ UNCHANGED <<claims, latents, stash, uses, changes>>
      /\ Goto(u, [calls[u] EXCEPT !.reads["dense.latent"] = results, !.unread = unread])
  BY DEF ReadCold
<1> HIDE DEF unread, results
<1> QED BY <1>1, <1>4, <1>5, <1>6, RecallGoesOn

LEMMA FusionRaisesKeeps ==
    ASSUME Inv, NEW u \in Callers, FusionRaises(u)
    PROVE  Inv'
<1>1. PICK f \in Frame : f = calls[u] /\ Paid(f) /\ Faithful(f, DefeatedNow, Stored)
  BY FrameOf
<1>2. f.pc = "recall"
  BY <1>1 DEF FusionRaises, Recalled, At
<1>3. PICK g : g = [f EXCEPT !.pc = "render", !.reads = NoReads]
  OBVIOUS
<1>4. NoReads \in [Channels -> Seq(Results)]
      /\ NoReads \in [Channels -> Seq(Marked(f.defeated, Stored))]
  BY DEF NoReads
<1>5. g \in Frame /\ g.reads = NoReads /\ g.unread = f.unread /\ g.pc = "render"
      /\ g.sections = f.sections /\ g.budget = f.budget /\ g.remaining = f.remaining
      /\ g.tool_tokens = f.tool_tokens /\ g.alloc = f.alloc /\ g.chunks = f.chunks
      /\ g.defeated = f.defeated
  BY <1>3, <1>4 DEF Frame, PCs
<1>6. Goto(u, g) /\ UNCHANGED <<claims, latents, stash, uses, changes>>
  BY <1>1, <1>3 DEF FusionRaises
<1>7. Paid(g)
  BY <1>1, <1>2, <1>5 DEF Paid, HeadCost
<1>8. Faithful(g, DefeatedNow, Stored)
  BY <1>1, <1>4, <1>5 DEF Faithful
<1> QED BY <1>5, <1>6, <1>7, <1>8, FrameOf, CallStep

(* The mark of a claim is what keeps it out.                               *)
LEMMA ExcludeDefeatedType ==
    ASSUME NEW D, NEW S, NEW results \in Seq(Marked(D, S))
    PROVE  ExcludeDefeated(results) \in Seq(Kept(D, S))
<1> DEFINE places == {i \in 1..Len(results) : ~results[i].defeated}
<1>1. ExcludeDefeated(results) = Pick(results, places)
  BY DEF ExcludeDefeated
<1>2. Len(results) \in Nat
  OBVIOUS
<1>3. ASSUME NEW i \in 1..Len(results), i \in places PROVE results[i] \in Kept(D, S)
  <2>1. results[i] \in Marked(D, S) /\ ~results[i].defeated
    BY <1>3
  <2> QED BY <2>1 DEF Kept
<1> HIDE DEF places
<1> QED BY <1>1, <1>2, <1>3, PickType

LEMMA InjectKeeps ==
    ASSUME CountsTokens, Inv, NEW u \in Callers, Inject(u)
    PROVE  Inv'
<1>1. PICK f \in Frame : f = calls[u] /\ Paid(f) /\ Faithful(f, DefeatedNow, Stored)
  BY FrameOf
<1>2. f.pc = "recall"
  BY <1>1 DEF Inject, Recalled, At
<1>3. PICK chunks : chunks = assemble(ExcludeDefeated(fuse(f.reads)), f.alloc, min_per_kind)
  OBVIOUS
<1>4. chunks \in Seq(Kept(f.defeated, Stored))
  <2>1. fuse(f.reads) \in Seq(Marked(f.defeated, Stored))
    BY <1>1, FuseType, MarkedShape DEF Faithful
  <2>2. ExcludeDefeated(fuse(f.reads)) \in Seq(Kept(f.defeated, Stored))
    BY <2>1, ExcludeDefeatedType
  <2>3. \A r \in Kept(f.defeated, Stored) : r.text \in Pieces
    BY MarkedShape
  <2> QED BY <1>3, <2>2, <2>3, AssembleType
<1>5. chunks \in Seq(Results)
  <2>1. Kept(f.defeated, Stored) \subseteq Results
    BY MarkedShape
  <2> QED BY <1>4, <2>1, SeqMonotonic
<1>6. PICK g : g = [f EXCEPT !.pc = "use", !.reads = NoReads, !.chunks = chunks]
  OBVIOUS
<1>7. NoReads \in [Channels -> Seq(Results)]
      /\ NoReads \in [Channels -> Seq(Marked(f.defeated, Stored))]
  BY DEF NoReads
<1>8. g \in Frame /\ g.reads = NoReads /\ g.unread = f.unread /\ g.pc = "use"
      /\ g.sections = f.sections /\ g.budget = f.budget /\ g.remaining = f.remaining
      /\ g.tool_tokens = f.tool_tokens /\ g.alloc = f.alloc /\ g.chunks = chunks
      /\ g.defeated = f.defeated
  BY <1>5, <1>6, <1>7 DEF Frame, PCs
<1>9. Goto(u, g) /\ UNCHANGED <<claims, latents, stash, uses, changes>>
  BY <1>1, <1>3, <1>6 DEF Inject
<1>10. Paid(g)
  BY <1>1, <1>2, <1>8 DEF Paid, HeadCost
<1>11. Faithful(g, DefeatedNow, Stored)
  BY <1>1, <1>4, <1>7, <1>8 DEF Faithful
<1> QED BY <1>8, <1>9, <1>10, <1>11, FrameOf, CallStep

LEMMA RecordUseKeeps ==
    ASSUME Inv, NEW u \in Callers, RecordUse(u)
    PROVE  Inv'
<1>1. PICK f \in Frame : f = calls[u] /\ Paid(f) /\ Faithful(f, DefeatedNow, Stored)
  BY FrameOf
<1>2. f.pc = "use"
  BY <1>1 DEF RecordUse, At
<1> DEFINE ids == LatentIds(f.chunks)
<1>3. ids \subseteq Stored
  <2> SUFFICES ASSUME NEW i \in 1..Len(f.chunks), f.chunks[i].key[1] = Kind.latent
               PROVE  f.chunks[i].key[2] \in Stored
    BY DEF LatentIds
  <2>1. f.chunks[i] \in Kept(f.defeated, Stored)
    BY <1>1 DEF Faithful
  <2> QED BY <2>1 DEF Kept, Marked
<1>4. PICK g : g = [f EXCEPT !.pc = "render"]
  OBVIOUS
<1>5. g \in Frame /\ g.reads = f.reads /\ g.unread = f.unread /\ g.pc = "render"
      /\ g.sections = f.sections /\ g.budget = f.budget /\ g.remaining = f.remaining
      /\ g.tool_tokens = f.tool_tokens /\ g.alloc = f.alloc /\ g.chunks = f.chunks
      /\ g.defeated = f.defeated
  BY <1>4 DEF Frame, PCs
<1>6. Goto(u, g) /\ stash' = u /\ UNCHANGED <<claims, changes>>
  BY <1>1, <1>4 DEF RecordUse
<1>7. Paid(g)
  BY <1>1, <1>2, <1>5 DEF Paid, HeadCost
<1>8. Faithful(g, DefeatedNow, Stored)
  BY <1>1, <1>2, <1>5 DEF Faithful
<1>9. CASE UNCHANGED <<latents, uses>>
  BY <1>5, <1>6, <1>7, <1>8, <1>9, CallStep
<1>10. CASE record_use(ids)
            /\ uses' = [l \in Latents |-> IF l \in ids THEN uses[l] + 1 ELSE uses[l]]
  <2> HIDE DEF ids
  <2> DEFINE Row == [version : Nat, use : Nat, last : Nat, tier : {"hot", "cold"}]
  <2>1. latents \in [Stored -> Row] /\ Stored \subseteq Latents /\ changes \in Nat
        /\ uses \in [Latents -> Nat]
    BY DEF Inv, Stores, Counted
  <2>2. latents' = [l \in Stored |-> IF l \in ids THEN [latents[l] EXCEPT !.use = @ + 1, !.last = changes]
                                     ELSE latents[l]]
    BY <1>10 DEF record_use
  <2>3. Stored' = Stored
    BY <2>2 DEF Stored
  <2>4. ASSUME NEW l \in Stored
        PROVE  latents'[l] \in Row
               /\ latents'[l].use = IF l \in ids THEN latents[l].use + 1 ELSE latents[l].use
    <3>1. CASE l \in ids
      <4>1. PICK n \in Nat : n = latents[l].use + 1
        BY <2>1
      <4>2. latents'[l] = [latents[l] EXCEPT !.use = n, !.last = changes]
        BY <2>2, <3>1, <4>1
      <4>3. latents[l] \in Row
        BY <2>1
      <4> QED BY <2>1, <3>1, <4>1, <4>2, <4>3
    <3>2. CASE l \notin ids
      BY <2>1, <2>2, <3>2
    <3> QED BY <3>1, <3>2
  <2>5. latents' \in [Stored -> Row]
    <3> HIDE DEF Row
    <3> QED BY <2>2, <2>4
  <2>6. DefeatedNow' = DefeatedNow
    BY <1>6 DEF DefeatedNow
  <2>7. Frames'
    BY <1>5, <1>6, <1>7, <1>8, <2>3, <2>6, CallMoves
  <2>8. Stores'
    BY <1>6, <2>1, <2>3, <2>5 DEF Inv, Stores
  <2>9. Counted'
    <3>1. uses' \in [Latents -> Nat]
      BY <1>10, <2>1
    <3>2. ASSUME NEW l \in Latents
          PROVE  IF l \in Stored' THEN latents'[l].use = uses'[l] ELSE uses'[l] = 0
      <4>1. CASE l \in Stored
        BY <1>10, <2>3, <2>4, <4>1 DEF Inv, Counted
      <4>2. CASE l \notin Stored
        BY <1>3, <1>10, <2>3, <4>2 DEF Inv, Counted
      <4> QED BY <4>1, <4>2
    <3> QED BY <3>1, <3>2 DEF Counted
  <2> QED BY <2>7, <2>8, <2>9 DEF Inv
<1> QED BY <1>1, <1>9, <1>10 DEF RecordUse

LEMMA RenderKeeps ==
    ASSUME CountsTokens, Inv, NEW u \in Callers, Render(u)
    PROVE  Inv'
<1>1. PICK f \in Frame : f = calls[u] /\ Paid(f) /\ Faithful(f, DefeatedNow, Stored)
  BY FrameOf
<1>2. f.pc = "render"
  BY <1>1 DEF Render, At
<1>3. PICK shown : shown = Trim(f.chunks, f.alloc)
  OBVIOUS
<1>4. f.alloc \in Nat /\ f.remaining \in Nat /\ f.tool_tokens \in Nat /\ f.budget \in Nat
  BY DEF Frame
<1>5. Kept(f.defeated, Stored) \in SUBSET Results
  BY MarkedShape
<1>6. shown \in Seq(Kept(f.defeated, Stored)) /\ BodyCost(Texts(shown)) <= f.alloc
  BY <1>1, <1>3, <1>4, <1>5, TrimFits DEF Faithful
<1>7. shown \in Seq(Results)
  BY <1>5, <1>6, SeqMonotonic
<1>8. PICK body, head, task \in Nat : /\ body = BodyCost(Texts(shown))
                                     /\ head = Cost(HeadText(f.sections)) /\ task = Cost(TaskText)
  BY <1>7, TextsType, BodyCostType, HeadCostType
<1>9. PICK count \in Nat : count = head + body + task + f.tool_tokens
  BY <1>4, <1>8
<1>10. count <= f.budget
  <2>1. head + task + f.tool_tokens + f.remaining = f.budget /\ f.alloc <= f.remaining
    BY <1>1, <1>2, <1>8 DEF Paid, HeadCost
  <2>2. PICK alloc, left, spent, budget \in Nat :
          alloc = f.alloc /\ left = f.remaining /\ spent = f.tool_tokens /\ budget = f.budget
    BY <1>4
  <2>3. /\ head + task + spent + left = budget /\ alloc <= left /\ body <= alloc
        /\ count = head + body + task + spent
    BY <1>6, <1>8, <1>9, <2>1, <2>2
  <2>4. count <= budget
    BY <2>3
  <2> QED BY <2>2, <2>4
<1>11. PICK memory \in Callers \cup {"none"} : memory = IF f.alloc = 0 THEN "none" ELSE stash
  BY FrameOf
<1>12. PICK g : g = [f EXCEPT !.pc = "done", !.chunks = shown, !.token_count = count, !.memory = memory]
  OBVIOUS
<1>13. g \in Frame /\ g.reads = f.reads /\ g.unread = f.unread /\ g.pc = "done"
       /\ g.budget = f.budget /\ g.token_count = count /\ g.chunks = shown
       /\ g.defeated = f.defeated
  BY <1>7, <1>12 DEF Frame, PCs
<1>14. Goto(u, g) /\ UNCHANGED <<claims, latents, stash, uses, changes>>
  BY <1>1, <1>3, <1>8, <1>9, <1>11, <1>12 DEF Render
<1>15. Paid(g)
  BY <1>10, <1>13 DEF Paid
<1>16. Faithful(g, DefeatedNow, Stored)
  BY <1>1, <1>6, <1>13 DEF Faithful
<1> QED BY <1>13, <1>14, <1>15, <1>16, FrameOf, CallStep

-----------------------------------------------------------------------------
(* The writers of the stores. *)

LEMMA ClaimWritten ==
    ASSUME Inv, UNCHANGED <<latents, calls, stash, uses>>, changes' \in Nat,
           claims' \in [Claims -> [version : Nat, defeated : BOOLEAN, valid : BOOLEAN]],
           \A c \in Claims : claims[c].defeated => claims'[c].defeated
    PROVE  Inv'
<1>1. DefeatedNow \subseteq DefeatedNow' /\ Stored' = Stored
  BY DEF DefeatedNow, Stored
<1>2. Frames'
  BY <1>1, FramesStay
<1>3. Stores' /\ Counted'
  BY <1>1 DEF Inv, Stores, Counted
<1> QED BY <1>2, <1>3 DEF Inv

LEMMA ClaimWritesKeep ==
    ASSUME Inv, NEW c \in Claims, NewEvidence(c) \/ Defeat(c) \/ Invalidate(c)
    PROVE  Inv'
<1> DEFINE Claim == [version : Nat, defeated : BOOLEAN, valid : BOOLEAN]
<1>1. UNCHANGED <<latents, calls, stash, uses>> /\ changes' \in Nat
  BY DEF NewEvidence, Defeat, Invalidate, Write, Inv, Stores
<1>2. claims \in [Claims -> Claim]
  BY DEF Inv, Stores
<1>3. PICK row : row = claims[c]
  OBVIOUS
<1>4. row \in Claim /\ row.version \in Nat
  BY <1>2, <1>3
<1>5. PICK new \in Claim : claims' = [claims EXCEPT ![c] = new] /\ (row.defeated => new.defeated)
  <2>1. CASE NewEvidence(c)
    <3>1. PICK n \in Nat : n = row.version + 1
      BY <1>4
    <3>2. [row EXCEPT !.version = n] \in Claim /\ [row EXCEPT !.version = n].defeated = row.defeated
      BY <1>4
    <3>3. claims' = [claims EXCEPT ![c] = [row EXCEPT !.version = n]]
      BY <1>2, <1>3, <2>1, <3>1 DEF NewEvidence
    <3> QED BY <3>2, <3>3
  <2>2. CASE Defeat(c)
    <3>1. [row EXCEPT !.defeated = TRUE] \in Claim /\ [row EXCEPT !.defeated = TRUE].defeated
      BY <1>4
    <3>2. claims' = [claims EXCEPT ![c] = [row EXCEPT !.defeated = TRUE]]
      BY <1>2, <1>3, <2>2 DEF Defeat
    <3> QED BY <3>1, <3>2
  <2>3. CASE Invalidate(c)
    <3>1. [row EXCEPT !.valid = FALSE] \in Claim
          /\ [row EXCEPT !.valid = FALSE].defeated = row.defeated
      BY <1>4
    <3>2. claims' = [claims EXCEPT ![c] = [row EXCEPT !.valid = FALSE]]
      BY <1>2, <1>3, <2>3 DEF Invalidate
    <3> QED BY <3>1, <3>2
  <2> QED BY <2>1, <2>2, <2>3
<1>6. claims' \in [Claims -> Claim] /\ \A d \in Claims : claims[d].defeated => claims'[d].defeated
  <2> HIDE DEF Claim
  <2> QED BY <1>2, <1>3, <1>5
<1> QED BY <1>1, <1>6, ClaimWritten

LEMMA PutKeeps ==
    ASSUME Inv, NEW l \in Latents, Put(l)
    PROVE  Inv'
<1> DEFINE Row == [version : Nat, use : Nat, last : Nat, tier : {"hot", "cold"}]
<1>1. UNCHANGED <<claims, calls, stash, uses>> /\ changes' \in Nat /\ changes \in Nat
  BY DEF Put, Write, Inv, Stores
<1>2. latents \in [Stored -> Row] /\ Stored \subseteq Latents
  BY DEF Inv, Stores
<1>3. PICK new : new = IF l \in Stored THEN [latents[l] EXCEPT !.version = @ + 1] ELSE NewRow
  OBVIOUS
<1>4. new \in Row /\ new.use = IF l \in Stored THEN latents[l].use ELSE 0
  <2>1. CASE l \in Stored
    <3>1. PICK n \in Nat : n = latents[l].version + 1
      BY <1>2, <2>1
    <3>2. latents[l] \in Row /\ new = [latents[l] EXCEPT !.version = n]
      BY <1>2, <1>3, <2>1, <3>1
    <3> QED BY <2>1, <3>2
  <2>2. CASE l \notin Stored
    BY <1>1, <1>3, <2>2 DEF NewRow
  <2> QED BY <2>1, <2>2
<1>5. latents' = [x \in Stored \cup {l} |-> IF x # l THEN latents[x] ELSE new]
  BY <1>3 DEF Put, PutRow
<1>6. Stored' = Stored \cup {l}
  BY <1>5 DEF Stored
<1>7. latents' \in [Stored' -> Row] /\ Stored' \subseteq Latents
  <2> HIDE DEF Row
  <2> QED BY <1>2, <1>4, <1>5, <1>6
<1>8. DefeatedNow' = DefeatedNow
  BY <1>1 DEF DefeatedNow
<1>9. Frames'
  BY <1>1, <1>6, <1>8, FramesStay
<1>10. Stores'
  BY <1>1, <1>7 DEF Inv, Stores
<1>11. Counted'
  <2>1. ASSUME NEW x \in Latents
        PROVE  IF x \in Stored' THEN latents'[x].use = uses[x] ELSE uses[x] = 0
    <3>1. IF x \in Stored THEN latents[x].use = uses[x] ELSE uses[x] = 0
      BY DEF Inv, Counted
    <3>2. CASE x = l
      BY <1>4, <1>5, <1>6, <3>1, <3>2
    <3>3. CASE x # l
      BY <1>5, <1>6, <3>1, <3>3
    <3> QED BY <3>2, <3>3
  <2> QED BY <1>1, <2>1 DEF Inv, Counted
<1> QED BY <1>9, <1>10, <1>11 DEF Inv

LEMMA SweepKeeps ==
    ASSUME Inv, NEW H, Sweep(H)
    PROVE  Inv'
<1> DEFINE Row == [version : Nat, use : Nat, last : Nat, tier : {"hot", "cold"}]
<1>1. UNCHANGED <<claims, calls, stash, uses, changes>>
  BY DEF Sweep
<1>2. latents \in [Stored -> Row]
  BY DEF Inv, Stores
<1>3. latents' = [l \in Stored |-> [latents[l] EXCEPT !.tier = IF l \in H THEN "hot" ELSE "cold"]]
  BY DEF Sweep
<1>4. Stored' = Stored /\ DefeatedNow' = DefeatedNow
  BY <1>1, <1>3 DEF Stored, DefeatedNow
<1>5. ASSUME NEW l \in Stored PROVE latents'[l] \in Row /\ latents'[l].use = latents[l].use
  <2>1. PICK tier \in {"hot", "cold"} : tier = IF l \in H THEN "hot" ELSE "cold"
    OBVIOUS
  <2>2. latents[l] \in Row /\ latents'[l] = [latents[l] EXCEPT !.tier = tier]
    BY <1>2, <1>3, <2>1
  <2> QED BY <2>2
<1>6. latents' \in [Stored' -> Row]
  <2> HIDE DEF Row
  <2> QED BY <1>3, <1>4, <1>5
<1>7. Frames'
  BY <1>1, <1>4, FramesStay
<1>8. Stores'
  BY <1>1, <1>4, <1>6 DEF Inv, Stores
<1>9. Counted'
  BY <1>1, <1>4, <1>5 DEF Inv, Counted
<1> QED BY <1>7, <1>8, <1>9 DEF Inv

-----------------------------------------------------------------------------
(* The theorems. *)

LEMMA Initially == ASSUME Init PROVE Inv
<1>1. Stored = {}
      /\ latents \in [Stored -> [version : Nat, use : Nat, last : Nat, tier : {"hot", "cold"}]]
  BY DEF Init, Stored
<1>2. Stores
  BY <1>1 DEF Init, Stores, NewClaim
<1>3. Counted
  BY <1>1 DEF Init, Counted
<1>4. Paid(NewFrame) /\ NewFrame \in Frame
  BY NewFrameType DEF Paid, NewFrame
<1>5. Faithful(NewFrame, DefeatedNow, Stored)
  <2>1. NewFrame.pc = "idle" /\ NewFrame.defeated = {} /\ NewFrame.reads = NoReads
        /\ NewFrame.chunks = <<>> /\ NewFrame.unread = {}
    BY DEF NewFrame
  <2> QED BY <2>1, NewFrameType DEF Faithful
<1>6. Frames
  BY <1>4, <1>5 DEF Init, Frames
<1> QED BY <1>2, <1>3, <1>6 DEF Inv

LEMMA AssembleKeeps ==
    ASSUME CountsTokens, Inv, NEW u \in Callers, Assemble(u)
    PROVE  Inv'
BY BeginKeeps, RequiredFailsKeeps, ChargePersonalityKeeps, ChargeToolKeeps, OpenMemoryKeeps,
   ReadChannelKeeps, ChannelFailsKeeps, ReadHotKeeps, ReadColdKeeps, FusionRaisesKeeps,
   InjectKeeps, RecordUseKeeps, RenderKeeps DEF Assemble

LEMMA Inductive == ASSUME CountsTokens, Inv, [Next]_vars PROVE Inv'
<1>1. CASE Next
  BY <1>1, AssembleKeeps, ClaimWritesKeep, PutKeeps, SweepKeeps DEF Next
<1>2. CASE UNCHANGED vars
  <2>1. DefeatedNow' = DefeatedNow /\ Stored' = Stored /\ UNCHANGED calls
    BY <1>2 DEF vars, DefeatedNow, Stored
  <2>2. Frames'
    BY <2>1, FramesStay
  <2> QED BY <1>2, <2>1, <2>2 DEF vars, Inv, Stores, Counted
<1> QED BY <1>1, <1>2

LEMMA Invariance == ASSUME CountsTokens PROVE Spec => []Inv
<1>1. Init => Inv
  BY Initially
<1>2. Inv /\ [Next]_vars => Inv'
  BY Inductive
<1> QED BY <1>1, <1>2, PTL DEF Spec

(* For any number of concurrent calls, any tools and sections and any      *)
(* counter of tokens: the prompt that assemble returns, the tools it       *)
(* carries included, costs no more than the budget of the call.            *)
THEOREM BudgetIsKept == ASSUME CountsTokens PROVE Spec => []WithinBudget
<1>1. Inv => WithinBudget
  BY DEF Inv, Frames, Paid, WithinBudget, At
<1> QED BY <1>1, Invariance, PTL

(* For any ranking, any channels and whatever is written between their     *)
(* reads: a claim defeated when the recall of a call began is not in the   *)
(* prompt of that call, where the graph's reads return a claim's status.   *)
THEOREM DefeatIsSeen == ASSUME CountsTokens PROVE Spec => []DefeatedLeftOut
<1>1. ASSUME Inv PROVE DefeatedLeftOut
  <2> SUFFICES ASSUME returns_status, NEW u \in Callers, NEW i \in 1..Len(calls[u].chunks),
                      calls[u].chunks[i].key[1] = Kind.claim
               PROVE  calls[u].chunks[i].key[2] \notin calls[u].defeated
    BY DEF DefeatedLeftOut
  <2>1. calls[u].chunks[i] \in Kept(calls[u].defeated, Stored)
    BY <1>1, FrameOf DEF Faithful
  <2> QED BY <2>1 DEF Kept, Marked
<1> QED BY <1>1, Invariance, PTL

(* For any interleaving of injections, puts and sweeps: the use count of a *)
(* latent row is the number of injections that recorded it.                *)
THEOREM NoUseIsLost == ASSUME CountsTokens PROVE Spec => []UsesCounted
<1>1. Inv => UsesCounted
  BY DEF Inv, Stores, Counted, UsesCounted
<1> QED BY <1>1, Invariance, PTL

=============================================================================
