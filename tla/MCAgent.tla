-------------------------------- MODULE MCAgent -------------------------------
(* Bounds for Agent: a population of three, whose capacity is reached; three   *)
(* claims of which only the second is like both others, as their branches and  *)
(* merges are like what they were made of; evidence of each verdict; executors *)
(* of which two score alike, and ids that are used twice; a window of four     *)
(* turns and prompts of three.                                                 *)
EXTENDS Agent, TLC

CONSTANTS a, c   \* words that nothing but their likeness to "b" is known of

MCClaims == {<<a>>, <<"b">>, <<c>>}
MCWords == {a, "b", c} \cup Marks
MCSimilar(x, y) ==
  LET last(s) == s[Len(s)]
  IN  /\ Len(x) - Len(y) \in -1..1
      /\ last(x) = last(y) \/ "b" \in {last(x), last(y)}

EndsOfChain == Permutations({a, c})

MCEvidence == {
  [hypothesis_id |-> 2, decision |-> "accept", weight |-> 1, valid |-> TRUE, method |-> FALSE],
  [hypothesis_id |-> 1, decision |-> "reject", weight |-> 1, valid |-> TRUE, method |-> TRUE]}

MCPatterns == {
  [input |-> "x", dim |-> 64, confidence |-> 100],
  [input |-> "y", dim |-> 64, confidence |-> 10],
  [input |-> "z", dim |-> 16, confidence |-> 100]}
MCQueries == {"x", "y"}
MCLikeness(q, p) == IF q = p.input THEN 90 ELSE IF p.confidence > 50 THEN 40 ELSE -10

MCExecutors == {
  [id |-> 1, capabilities |-> {"logical"}, worth |-> 2],
  [id |-> 2, capabilities |-> {"logical", "code"}, worth |-> 3],
  [id |-> 3, capabilities |-> {"logical"}, worth |-> 2]}
MCCapabilities == {"logical", "code"}

MCActive == 1   \* WASTE_MAX_ACTIVE_HYP

\* Normalising enforces the limit of active hypotheses (hypothesis.h 48 and 19).
\* The code does not keep this: it drops duplicates and nothing else.
LimitIsEnforced == [][ BringEvidence \/ Iterate => ActiveCount' <= MCActive ]_coreVars
===============================================================================
