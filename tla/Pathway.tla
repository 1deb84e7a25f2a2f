------------------------------ MODULE Pathway ------------------------------
(***************************************************************************)
(* The static side of the Spine: what a stage may return (loop/result.py), *)
(* the graph of stages a developer authors (loop/graph.py), the retry      *)
(* policy a stage carries (loop/retry.py) and the structural fingerprint   *)
(* that a cold resume compares (loop/pathway.py).                          *)
(*                                                                         *)
(* A graph is a record.  Stage names are model values; a stage's output    *)
(* artifact, question and reason carry no control and are left out.        *)
(***************************************************************************)
EXTENDS Naturals, FiniteSets

CONSTANTS
    Stages,     \* every stage name that any pathway mentions
    NoStage     \* Python's None where a stage name is optional

ASSUME NoStageAssumption == NoStage \notin Stages

-----------------------------------------------------------------------------
(* Stage results.  `to' is NoStage exactly for the results that end a run. *)

Transition(s) == [kind |-> "transition", to |-> s]
Wait(s)       == [kind |-> "wait", to |-> s]
AwaitHuman(s) == [kind |-> "await-human", to |-> s]
Degraded(s)   == [kind |-> "degraded", to |-> s]
Done          == [kind |-> "done", to |-> NoStage]

StageResult ==
    [kind : {"transition", "wait", "await-human", "degraded"}, to : Stages]
        \cup {Done, Degraded(NoStage)}

(* A result with a destination sends the run to another stage; the two     *)
(* without one end the run.                                                *)
Routes(r) == r.to # NoStage

-----------------------------------------------------------------------------
(* Stage graphs. *)

Graph ==
    [names        : SUBSET Stages,
     entry        : Stages,
     transitions  : [Stages -> SUBSET Stages],
     exhausted_to : [Stages -> Stages \cup {NoStage}],
     max_attempts : [Stages -> Nat \ {0}],
     on_exhausted : [Stages -> {"degraded", "fail"}]]

(* The one definition of a stage's edges: its declared transitions and the *)
(* retry-exhaustion edge.                                                  *)
Edges(g, s) == g.transitions[s] \cup ({g.exhausted_to[s]} \ {NoStage})

(* A set of stages closed under the edges; the reachable ones are the      *)
(* least closed set that holds the entry (_reachable_from's search).       *)
Closed(g, S) == \A s \in S : Edges(g, s) \subseteq S

Reachable(g) ==
    {s \in g.names :
        \A S \in SUBSET g.names : g.entry \in S /\ Closed(g, S) => s \in S}

(* What StageGraph.__init__ accepts. *)
ValidGraph(g) ==
    /\ g.names # {}
    /\ g.entry \in g.names
    /\ \A s \in g.names : Edges(g, s) \subseteq g.names
    /\ Reachable(g) = g.names
    /\ \E s \in g.names : g.transitions[s] = {}

(* pathway_fingerprint: the entry and, per stage, the sorted list of edges.*)
(* The list is a bag: an exhausted_to that is also a declared transition   *)
(* is written twice.  The hash itself is taken to be injective.            *)
Fingerprint(g) ==
    [entry |-> g.entry,
     edges |-> [s \in g.names |-> Edges(g, s)],
     twice |-> [s \in g.names |-> g.transitions[s] \cap {g.exhausted_to[s]}]]

=============================================================================
