-------------------------------- MODULE Memory --------------------------------
(* The correlative memory of the reasoning core: src/src/core/memory/         *)
(* memory.c. Four layers of patterns, in the order they were written; the     *)
(* pattern layer is searched by likeness to a query. Vectors are abstracted   *)
(* to what Likeness says of a query and an input, times the weight, in whole  *)
(* hundredths.                                                                *)
EXTENDS Scans

CONSTANTS
  Patterns,         \* the patterns that are written: [input, dim, confidence]
  Queries,          \* queries
  Likeness(_, _),   \* score of a query and a pattern
  Dim,              \* dim of the memory
  MaxPatterns       \* bound: patterns in all layers

ASSUME MemoryAssumption ==
  /\ Dim \in Nat \ {0} /\ MaxPatterns \in Nat
  /\ \A q \in Queries, p \in Patterns : Likeness(q, p) \in Int

VARIABLE memory

Layers == {"episodic", "pattern", "rule", "counterexample"}
Threshold == 1      \* 0.01
Trusted   == 30     \* 0.3

NothingStored == [l \in Layers |-> <<>>]
Stored == Len(memory["episodic"]) + Len(memory["pattern"])
            + Len(memory["rule"]) + Len(memory["counterexample"])

\* memory_write: a pattern of another dimension is refused.
Accepts(p) == p.dim = Dim
Written(m, layer, p) == IF Accepts(p) THEN [m EXCEPT ![layer] = Append(@, p)] ELSE m

\* memory_clear.
Cleared(m, layer) == [m EXCEPT ![layer] = <<>>]

\* The scores of the patterns that a query is compared with.
ScoresOf(q) == [i \in DOMAIN memory["pattern"] |-> Likeness(q, memory["pattern"][i])]

\* A round of memory_recall: the first of the best that are left is added to what
\* was found, unless it is below the threshold, or one before it was.
Extended(so_far, n, score) ==
  LET left == DOMAIN score \ {so_far[i] : i \in DOMAIN so_far}
      best == FirstBest(left, score)
  IN  IF Len(so_far) < n - 1 \/ score[best] < Threshold
      THEN so_far ELSE Append(so_far, best)

\* memory_recall: the indices of the patterns found, best first, at most max,
\* none below the threshold.
Recall(q, max) ==
  LET rounds == Min({max, Len(memory["pattern"])})
      found[n \in 0..rounds] ==
        IF n = 0 THEN <<>> ELSE Extended(found[n - 1], n, ScoresOf(q))
  IN  found[rounds]

IsTrusted(i) == memory["pattern"][i].confidence >= Trusted

\* memory_retrieve_verified: those of the patterns found that are trusted.
Verified(q, max) ==
  LET found == Recall(q, max)
      kept == InOrder({n \in DOMAIN found : IsTrusted(found[n])}, Len(found))
  IN  [k \in DOMAIN kept |-> found[kept[k]]]

MemoryTypeOK ==
  /\ memory \in [Layers -> Seq(Patterns)]
  /\ Stored <= MaxPatterns

\* A search finds different patterns, in the order of their scores, and leaves
\* none out that scores higher than one it found; verification drops those that
\* are not trusted, and changes neither the rest nor their order.
RecallsTheClosest ==
  \A q \in Queries, max \in 1..MaxPatterns :
    LET r == Recall(q, max)
        Of(i) == Likeness(q, memory["pattern"][i])
        rest == DOMAIN memory["pattern"] \ {r[n] : n \in DOMAIN r}
    IN  /\ \A m, n \in DOMAIN r : m < n => r[m] # r[n] /\ Of(r[m]) >= Of(r[n])
        /\ \A n \in DOMAIN r, i \in rest : Of(r[n]) >= Of(i)
        /\ Len(r) < max => \A i \in rest : Of(i) < Threshold
        /\ \E kept \in [DOMAIN Verified(q, max) -> DOMAIN r] :
             /\ \A k \in DOMAIN kept : Verified(q, max)[k] = r[kept[k]]
             /\ \A j, k \in DOMAIN kept : j < k => kept[j] < kept[k]
             /\ \A n \in DOMAIN r :
                  IsTrusted(r[n]) <=> \E k \in DOMAIN kept : kept[k] = n
===============================================================================
