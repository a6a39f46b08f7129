------------------------------ MODULE Population ------------------------------
(* The hypothesis population of the reasoning core: src/src/core/hypothesis/  *)
(* hypothesis.c. Nodes are only ever added, at the end, and get the next id   *)
(* as they are: the hypothesis with id n is nodes[n]. Pruned and dropped      *)
(* hypotheses stay among the nodes.                                           *)
(*                                                                            *)
(* Scores are whole numbers from 0 to One. A claim is a sequence of words, of *)
(* which only the likeness to other claims matters. The uncertainty and the   *)
(* status of a hypothesis, which nothing reads, are left out.                 *)
EXTENDS Integers, Sequences, FiniteSets, FiniteSetsExt

CONSTANTS
  Words,           \* the words that claims are made of
  Claims,          \* the claims callers propose
  Similar(_, _),   \* two claims that differ have more than 0.8 of their bigrams in common
  Capacity,        \* capacity of the population
  One,             \* the score that stands for 1.0
  MaxEvidence      \* bound: support and contradiction of a hypothesis

ASSUME PopulationAssumption ==
  /\ Capacity \in Nat \ {0} /\ One \in Nat /\ MaxEvidence \in Nat
  /\ Claims \subseteq Seq(Words)

VARIABLE nodes

Ids == DOMAIN nodes
UsedIds == {i \in Ids : nodes[i].used}

\* population_get: a hypothesis by its id, or none.
Has(id) == id \in UsedIds

\* population_active_count.
ActiveCount == Cardinality({i \in UsedIds : nodes[i].active})

\* population_dormant_count: in use and not active.
DormantCount == Cardinality({i \in UsedIds : ~nodes[i].active})

\* population_score.
Score(id) ==
  IF Has(id)
  THEN nodes[id].prior_score + nodes[id].support - nodes[id].contradiction
  ELSE 0

NewNode(claim, prior) ==
  [claim |-> claim, prior_score |-> prior, support |-> 0, contradiction |-> 0,
   active |-> TRUE, used |-> TRUE, freed |-> FALSE]

\* Whether population_add would take another hypothesis: one that was pruned
\* or dropped still takes its place.
HasRoom(ns) == Len(ns) < Capacity

\* population_add, where there is room.
Added(ns, claim, prior) == Append(ns, NewNode(claim, prior))

\* population_prune: nothing happens to a hypothesis that is not in use.
Pruned(ns, id) ==
  IF id \in DOMAIN ns /\ ns[id].used
  THEN [ns EXCEPT ![id].used = FALSE, ![id].active = FALSE]
  ELSE ns

\* population_merge: the second is left as it is, and neither has to be in use.
Merged(ns, a, b) ==
  [ns EXCEPT ![a].support = @ + ns[b].support,
             ![a].contradiction = @ + ns[b].contradiction]

\* population_apply_evidence: e.weight is strength times reliability.
WithEvidence(ns, e) ==
  IF ~(e.hypothesis_id \in DOMAIN ns /\ ns[e.hypothesis_id].used) THEN ns
  ELSE CASE e.decision = "accept" -> [ns EXCEPT ![e.hypothesis_id].support = @ + e.weight]
         [] e.decision = "reject" -> [ns EXCEPT ![e.hypothesis_id].contradiction = @ + e.weight]
         [] OTHER -> ns

\* string_similarity of two claims is above 0.8: that of equal ones is 1.
Alike(c, d) == c = d \/ Similar(c, d)

\* The hypotheses the loops of population_normalize leave in use: those that
\* are like no earlier one that is left.
Kept(ns) ==
  LET kept[j \in 0..Len(ns)] ==
        IF j = 0 THEN {}
        ELSE IF ns[j].used /\ \A i \in kept[j - 1] : ~Alike(ns[i].claim, ns[j].claim)
             THEN kept[j - 1] \cup {j} ELSE kept[j - 1]
  IN  kept[Len(ns)]

\* The hypothesis that takes j in: the first like it.
KeptFor(ns, j) == Min({i \in Kept(ns) : i <= j /\ Alike(ns[i].claim, ns[j].claim)})

\* The prior of the one that is kept stays.
PriorKeptOwn(ns, i) == ns[i].prior_score

\* The highest prior of the hypotheses that one stands for.
PriorKept(ns, i) ==
  Max({ns[j].prior_score : j \in {m \in DOMAIN ns : ns[m].used /\ KeptFor(ns, m) = i}})

\* population_normalize: a dropped hypothesis loses its strings and its
\* evidence, and stays marked active.
Normalized(ns) ==
  [i \in DOMAIN ns |->
     CASE ~ns[i].used   -> ns[i]
       [] i \in Kept(ns) -> [ns[i] EXCEPT !.prior_score = PriorKept(ns, i)]
       [] OTHER          -> [ns[i] EXCEPT !.used = FALSE, !.freed = TRUE]]

Hypotheses ==
  [claim : Seq(Words), prior_score : 0..One, support : 0..MaxEvidence,
   contradiction : 0..MaxEvidence, active : BOOLEAN, used : BOOLEAN, freed : BOOLEAN]

PopulationTypeOK == nodes \in Seq(Hypotheses) /\ Len(nodes) <= Capacity

\* What is in use is active and has its strings: nothing reads a claim that
\* population_normalize freed, and nothing is dormant.
InUseIsAlive ==
  /\ \A i \in UsedIds : nodes[i].active /\ ~nodes[i].freed
  /\ DormantCount = 0
===============================================================================
