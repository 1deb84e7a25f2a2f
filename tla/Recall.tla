------------------------------- MODULE Recall -------------------------------
(***************************************************************************)
(* The pure half of recall: what a channel answers from what its store     *)
(* holds, reciprocal rank fusion, and the assembly of what was recalled    *)
(* into a token budget, the best at both edges.                            *)
(*                                                                         *)
(* A key is a pair of kind and id, ordered as the code's namespaced keys   *)
(* are.  A text is a record of what it was rendered from: two renderings   *)
(* of one row are equal if the row has not changed between them.           *)
(*                                                                         *)
(* Every loop is an Iterate: SelectSeq, SortSeq and FoldLeft are operators *)
(* that no backend of the provers can expand (ContextProofs).              *)
(***************************************************************************)
EXTENDS Naturals, FiniteSets, Sequences, SequencesExt, FiniteSetsExt

CONSTANTS
    ChannelOrder,   \* the channels of the stack, in the order they were given
    Ranking,        \* what each channel would answer, best first: ids
    Similar,        \* latent ids whose similarity is at least min_similarity
    k,              \* results per channel
    k_rrf,          \* the constant of the fusion
    Count(_)        \* the token counter, of a sequence of pieces of text

Channels == ToSet(ChannelOrder)

ASSUME RecallAssumption ==
    /\ ChannelOrder \in Seq(STRING)
    /\ Ranking \in [Channels -> Seq(Nat)]
    /\ k \in Nat /\ k_rrf \in Nat

(* A piece of a prompt: a section, a tool, a chunk of memory. *)
Kind == [claim |-> 1, episode |-> 2, latent |-> 3]
Piece(of, key, version) == [of |-> of, key |-> key, version |-> version]
Section(name) == Piece(name, <<0, 0>>, 0)

(* What a channel surfaces, with the state of its row at the read. *)
Result(kind, id, version, defeated) ==
    [key |-> <<Kind[kind], id>>, text |-> Piece("chunk", <<Kind[kind], id>>, version),
     defeated |-> defeated]

FirstOf(n, s) == SubSeq(s, 1, IF Len(s) < n THEN Len(s) ELSE n)

(* Step, applied to Base and 1, to what that gave and 2, ... up to N.       *)
Iterate(Step(_, _), Base, N) ==
    LET after[n \in 0..N] == IF n = 0 THEN Base ELSE Step(after[n - 1], n)
    IN  after[N]

(* What a sequence has at some of its places.                              *)
Pick(s, places) ==
    Iterate(LAMBDA picked, i : IF i \in places THEN Append(picked, s[i]) ELSE picked, <<>>, Len(s))

(* The rows of S that a channel ranks, best first, at most k.              *)
TopOf(channel, S) ==
    LET ids == Ranking[channel]
    IN  FirstOf(k, Pick(ids, {i \in 1..Len(ids) : ids[i] \in S}))

-----------------------------------------------------------------------------
(* The hot tier first: what it answers above the gate is accepted, the     *)
(* rest competes with the cold rows by score.                              *)

Accepted(hot) == Pick(hot, {i \in 1..Len(hot) : hot[i].key[2] \in Similar})
Rejected(hot) == Pick(hot, {i \in 1..Len(hot) : hot[i].key[2] \notin Similar})

(* By the place of the row in the ranking; a stable sort.                  *)
ByScore(channel, s) ==
    LET ids == Ranking[channel]
    IN  Iterate(LAMBDA sorted, p : sorted \o Pick(s, {i \in 1..Len(s) : s[i].key[2] = ids[p]}),
                <<>>, Len(ids))

HotFirst(channel, hot, cold) ==
    FirstOf(k, Accepted(hot) \o ByScore(channel, Rejected(hot) \o cold))

-----------------------------------------------------------------------------
(* Fusion.  A result scores 1/(k_rrf + rank) in every channel that has it; *)
(* Scale makes the terms whole.                                            *)

(* The hits, channel by channel. *)
AllHits(results) ==
    Iterate(LAMBDA hits, c :
                LET found == results[ChannelOrder[c]]
                IN  hits \o [rank \in 1..Len(found) |-> [rank |-> rank, result |-> found[rank]]],
            <<>>, Len(ChannelOrder))

(* One key, two texts: fuse raises. *)
TextsDiffer(results) ==
    LET hits == AllHits(results)
    IN  \E i, j \in 1..Len(hits) : /\ hits[i].result.key = hits[j].result.key
                                   /\ hits[i].result.text # hits[j].result.text

Scale == Iterate(LAMBDA n, r : (k_rrf + r) * n, 1, k)

Score(hits, key) ==
    Iterate(LAMBDA n, i : IF hits[i].result.key = key THEN n + Scale \div (k_rrf + hits[i].rank)
                          ELSE n,
            0, Len(hits))

KeyBefore(a, b) == a[1] < b[1] \/ (a[1] = b[1] /\ a[2] < b[2])

Better(a, b) == a.score > b.score \/ (a.score = b.score /\ KeyBefore(a.result.key, b.result.key))

(* The best of S, then the best of the others, ... *)
Ranked(S) ==
    Iterate(LAMBDA ranked, n :
                LET rest == S \ ToSet(ranked)
                IN  Append(ranked, CHOOSE x \in rest : \A y \in rest : ~Better(y, x)),
            <<>>, Cardinality(S))

(* The item of a fused result is the one the first channel had. *)
fuse(results) ==
    LET hits == AllHits(results)
        key(i) == hits[i].result.key
        first == {i \in 1..Len(hits) : \A j \in 1..i - 1 : key(j) # key(i)}
        ranked == Ranked({[score |-> Score(hits, key(i)), result |-> hits[i].result] : i \in first})
    IN  [i \in 1..Len(ranked) |-> ranked[i].result]

-----------------------------------------------------------------------------
(* Assembly. *)

(* The best min_per_kind of each kind come first. *)
FloorFirst(results, min_per_kind) ==
    LET above(i) == {j \in 1..i - 1 : results[j].key[1] = results[i].key[1]}
        floor == {i \in 1..Len(results) : Cardinality(above(i)) < min_per_kind}
    IN  Pick(results, floor) \o Pick(results, 1..Len(results) \ floor)

(* Whatever still fits is admitted; what does not is skipped. *)
Admit(results, budget) ==
    Iterate(LAMBDA acc, i :
                LET used == acc.used + Count(<<results[i].text>>)
                IN  IF used <= budget
                    THEN [used |-> used, admitted |-> Append(acc.admitted, results[i])]
                    ELSE acc,
            [used |-> 0, admitted |-> <<>>], Len(results)).admitted

(* Alternately at the front and at the back. *)
UFold(s) ==
    [i \in 1..Len(s) |-> IF 2 * i - 1 <= Len(s) THEN s[2 * i - 1] ELSE s[2 * (Len(s) - i + 1)]]

assemble(results, budget, min_per_kind) == UFold(Admit(FloorFirst(results, min_per_kind), budget))

=============================================================================
