--------------------------------- MODULE Scans ---------------------------------
(* Two loops over an array that the stores of the reasoning core have in      *)
(* common (router.c, memory.c, planner.c, causal.c): one that looks for the   *)
(* best entry, one that collects the entries that qualify.                    *)
EXTENDS Integers, Sequences, FiniteSets, FiniteSetsExt

\* A scan that starts below every score and replaces what it has only by
\* something better: the first of the places in S with the highest score.
FirstBest(S, score) ==
  CHOOSE i \in S :
     /\ \A j \in S : score[j] <= score[i]
     /\ \A j \in S : j < i => score[j] < score[i]

\* The places from 1 to n that are in S, in the order a loop comes by them.
InOrder(S, n) ==
  LET from[i \in 0..n] ==
        IF i = 0 THEN <<>>
        ELSE IF i \in S THEN Append(from[i - 1], i) ELSE from[i - 1]
  IN  from[n]
================================================================================
