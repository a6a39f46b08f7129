--------------------------------- MODULE Core ---------------------------------
(* The controller of the reasoning core, src/src/core/core/core.c, with what  *)
(* it drives: the population, the memory and the router, the planner that     *)
(* picks a test (planner.c), the gateway that runs it (gateway.c, whose       *)
(* executors are stubs), the funnel that judges the evidence (verification.c) *)
(* and the interventions of the causal tests (causal.c). Allocations succeed. *)
EXTENDS Population, Memory, Router

\* The first words of the claims that a transition made.
Marks == {"branch", "merge"}

CONSTANTS
  Evidence,       \* evidence that callers bring:
                  \*   [hypothesis_id, decision, weight, valid, method]
  MaxIterations,  \* policy.max_iterations
  MaxRecords      \* bound: records in the history

ASSUME CoreAssumption ==
  /\ MaxIterations \in Nat /\ MaxRecords \in Nat
  /\ \A e \in Evidence : e.weight \in 0..MaxEvidence
  \* A caller's claim can be told from one that a transition made.
  /\ Marks \subseteq Words
  /\ \A c \in Claims : c # <<>> /\ c[1] \notin Marks

VARIABLES
  history,   \* the records of the transitions
  solving    \* the solve under way: iterations left, whether there is a goal

coreVars == <<nodes, memory, executors, history, solving>>

NotSolving == [left |-> 0, goal |-> FALSE]
AtRest == solving.left = 0

-------------------------------------------------------------------------------
(* Records and transitions.                                                   *)

Rec(type, id, target) == [type |-> type, hypothesis_id |-> id, target_id |-> target]

\* record_transition.
Recorded(h, type, id, target) == Append(h, Rec(type, id, target))

\* A transition takes effect and is recorded.
Succeeds(ns, type, id, target) ==
  /\ nodes' = ns
  /\ history' = Recorded(history, type, id, target)

\* A transition returns false.
Refused(ns) == nodes' = ns /\ UNCHANGED history

\* TRANS_STRENGTHEN, TRANS_WEAKEN: recorded, and nothing else.
Strengthened(h, id) == IF Has(id) THEN Recorded(h, "strengthen", id, 0) ELSE h
Weakened(h, id) == IF Has(id) THEN Recorded(h, "weaken", id, 0) ELSE h

Reweigh(type, id) ==
  IF Has(id) THEN Succeeds(nodes, type, id, 0) ELSE Refused(nodes)

\* TRANS_BRANCH: a new hypothesis, with four fifths of the prior.
Branch(id) ==
  IF Has(id) /\ HasRoom(nodes)
  THEN Succeeds(Added(nodes, <<"branch">> \o nodes[id].claim, (4 * nodes[id].prior_score) \div 5),
                "branch", id, Len(nodes) + 1)
  ELSE Refused(nodes)

\* The two are pruned before there is room for the new one.
UnmergedLeftPruned(a, b) == Pruned(Pruned(nodes, a), b)

\* What TRANS_MERGE leaves of two hypotheses when the new one is refused.
UnmergedLeft(a, b) == nodes

\* TRANS_MERGE: a new hypothesis with the average prior; then both are pruned.
\* The record names the first of them and the new one.
MergeOf(a, b) ==
  IF ~(Has(a) /\ Has(b)) THEN Refused(nodes)
  ELSE IF ~HasRoom(nodes) THEN Refused(UnmergedLeft(a, b))
  ELSE Succeeds(
         Pruned(Pruned(
           Added(nodes, <<"merge">> \o nodes[a].claim \o nodes[b].claim,
                 (nodes[a].prior_score + nodes[b].prior_score) \div 2), a), b),
         "merge", a, Len(nodes) + 1)

\* TRANS_PRUNE.
PruneOf(id) == IF Has(id) THEN Succeeds(Pruned(nodes, id), "prune", id, 0) ELSE Refused(nodes)

\* TRANS_SUSPEND, TRANS_REACTIVATE: recorded of any id.
Noted(type, id) == Succeeds(nodes, type, id, 0)

\* engine_apply_transition, called by the owner of the engine.
ApplyTransition ==
  /\ AtRest
  /\ Len(history) < MaxRecords   \* bound
  /\ \/ \E id \in 1..Capacity, type \in {"strengthen", "weaken"} : Reweigh(type, id)
     \/ \E id \in 1..Capacity : Branch(id)
     \/ \E a, b \in 1..Capacity : MergeOf(a, b)
     \/ \E id \in 1..Capacity : PruneOf(id)
     \/ \E type \in {"suspend", "reactivate"} : Noted(type, Capacity)   \* one id for all
     \/ Noted("stop", 0)
  /\ UNCHANGED <<memory, executors, solving>>

-------------------------------------------------------------------------------
(* Evidence.                                                                  *)

\* funnel_verify: structure and constraints, provenance, then the decision of
\* the evidence itself.
Verdict(e) ==
  IF ~e.valid THEN "reject"
  ELSE IF ~e.method THEN "downgrade"
  ELSE IF e.decision \in {"accept", "reject"} THEN e.decision ELSE "retest"

\* gateway_call_gemma4: the stub accepts whatever it is asked.
Gemma(id) ==
  [hypothesis_id |-> id, decision |-> "accept", weight |-> 1, valid |-> TRUE, method |-> TRUE]

\* engine_update_state: the evidence is applied whatever the funnel said of it,
\* the pattern written to the memory has dimension 0 and is refused, and the
\* population is normalised.
UpdateState(e) ==
  /\ nodes' = Normalized(WithEvidence(nodes, e))
  /\ history' = CASE Verdict(e) = "accept" -> Strengthened(history, e.hypothesis_id)
                  [] Verdict(e) = "reject" -> Weakened(history, e.hypothesis_id)
                  [] OTHER -> history
  /\ memory' = Written(memory, "episodic", [input |-> "none", dim |-> 0, confidence |-> 0])

\* Bound: no hypothesis gathers more evidence than MaxEvidence.
EvidenceFits(e) ==
  Has(e.hypothesis_id) =>
    /\ nodes[e.hypothesis_id].support + e.weight <= MaxEvidence
    /\ nodes[e.hypothesis_id].contradiction + e.weight <= MaxEvidence

\* Evidence from the owner of the engine.
BringEvidence ==
  /\ AtRest
  /\ Len(history) < MaxRecords   \* bound
  /\ \E e \in Evidence : EvidenceFits(e) /\ UpdateState(e)
  /\ UNCHANGED <<executors, solving>>

-------------------------------------------------------------------------------
(* Solving.                                                                   *)

\* engine_iterate: a proposal for each of the ids from 1 to the number of
\* active hypotheses, at most 8, all with the same utility.
Proposals == [n \in 1..Min({ActiveCount, 8}) |-> [test_id |-> n, hypothesis_id |-> n, utility |-> 1]]

\* planner_choose_next, without a budget: the first with the highest utility.
ChooseNext(tests) ==
  IF tests = <<>> THEN 0
  ELSE tests[FirstBest(DOMAIN tests, [i \in DOMAIN tests |-> tests[i].utility])].test_id

\* planner_should_stop, without a budget: nothing is active.
ShouldStop(ns) == {i \in DOMAIN ns : ns[i].used /\ ns[i].active} = {}

\* engine_solve is called; with max_iterations of 0 it returns at once.
Solve(goal) ==
  /\ AtRest
  /\ MaxIterations > 0
  /\ Len(history) + MaxIterations <= MaxRecords   \* bound
  /\ solving' = [left |-> MaxIterations, goal |-> goal]
  /\ UNCHANGED <<nodes, memory, executors, history>>

\* engine_solve goes on after an iteration that returned a record, which is the
\* last of the history, old or new, unless that is a stop.
GoesOn(h) == h # <<>> /\ h[Len(h)].type # "stop"

\* The iteration ends the solve, or one iteration less is left.
Iterated ==
  solving' = IF GoesOn(history') /\ solving.left > 1
             THEN [solving EXCEPT !.left = @ - 1] ELSE NotSolving

\* engine_iterate finds no test to run, or cannot execute it.
IterateStops ==
  /\ ~AtRest
  /\ ChooseNext(Proposals) = 0 \/ ~solving.goal
  /\ history' = Recorded(history, "stop", 0, 0)
  /\ Iterated
  /\ UNCHANGED <<nodes, memory, executors>>

\* engine_iterate runs the test it chose, and takes its id for that of the
\* hypothesis.
Iterate ==
  LET e == Gemma(ChooseNext(Proposals))
      capped == [e EXCEPT !.weight = IF EvidenceFits(e) THEN 1 ELSE 0]   \* bound
  IN  /\ ~AtRest
      /\ ChooseNext(Proposals) # 0 /\ solving.goal
      /\ nodes' = Normalized(WithEvidence(nodes, capped))
      /\ history' = LET h == Strengthened(history, e.hypothesis_id)
                    IN  IF ShouldStop(nodes') THEN Recorded(h, "stop", 0, 0) ELSE h
      /\ Iterated
      /\ UNCHANGED <<memory, executors>>

-------------------------------------------------------------------------------
(* What the owner of an engine may do besides.                                *)

Add ==
  /\ AtRest
  /\ HasRoom(nodes)
  /\ \E c \in Claims, prior \in 0..One : nodes' = Added(nodes, c, prior)
  /\ UNCHANGED <<memory, executors, history, solving>>

\* population_merge, on the population itself.
Merge ==
  /\ AtRest
  /\ \E a, b \in Ids :
       /\ nodes[a].support + nodes[b].support <= MaxEvidence               \* bound
       /\ nodes[a].contradiction + nodes[b].contradiction <= MaxEvidence   \* bound
       /\ nodes' = Merged(nodes, a, b)
  /\ UNCHANGED <<memory, executors, history, solving>>

Write ==
  /\ AtRest
  /\ Stored < MaxPatterns   \* bound
  /\ \E layer \in Layers, p \in Patterns : memory' = Written(memory, layer, p)
  /\ UNCHANGED <<nodes, executors, history, solving>>

Register ==
  /\ AtRest
  /\ Len(executors) < MaxExecutors   \* bound
  /\ \E x \in Executors : executors' = Registered(executors, x)
  /\ UNCHANGED <<nodes, memory, history, solving>>

Mark ==
  /\ AtRest
  /\ \E x \in Executors, available \in BOOLEAN :
        executors' = Marked(executors, x.id, available)
  /\ UNCHANGED <<nodes, memory, history, solving>>

\* engine_destroy and engine_create.
Recreate ==
  /\ AtRest
  /\ nodes' = <<>> /\ memory' = NothingStored /\ executors' = <<>>
  /\ history' = <<>> /\ solving' = NotSolving

-------------------------------------------------------------------------------
(* The interventions of causal_apply. Those on the population look at the ids *)
(* from 1 to the number of active hypotheses.                                 *)

Scanned == {id \in 1..ActiveCount : Has(id)}

\* INTERVENE_DISABLE_MEMORY.
DisableMemory ==
  /\ AtRest
  /\ memory' = Cleared(Cleared(Cleared(Cleared(memory, "episodic"), "pattern"),
                               "rule"), "counterexample")
  /\ UNCHANGED <<nodes, executors, history, solving>>

\* INTERVENE_INJECT_COUNTEREXAMPLE.
InjectCounterexample ==
  /\ AtRest
  /\ Stored < MaxPatterns   \* bound
  /\ \E p \in Patterns : memory' = Written(memory, "counterexample", p)
  /\ UNCHANGED <<nodes, executors, history, solving>>

\* INTERVENE_SWAP_ROUTER: the ids from 1 to 10 become unavailable.
SwapRouter ==
  LET es[id \in 0..10] == IF id = 0 THEN executors ELSE Marked(es[id - 1], id, FALSE)
  IN  /\ AtRest
      /\ executors' = es[10]
      /\ UNCHANGED <<nodes, memory, history, solving>>

\* INTERVENE_REMOVE_TOP_MODE: the first of those scanned with the best score.
RemoveTopMode ==
  /\ AtRest
  /\ ActiveCount > 0
  /\ nodes' =
       IF Scanned = {} THEN nodes
       ELSE Pruned(nodes, FirstBest(Scanned, [i \in Scanned |-> Score(i)]))
  /\ UNCHANGED <<memory, executors, history, solving>>

\* INTERVENE_SCRAMBLE_PHASES: the decision of the made-up evidence is 0, which
\* is to accept. Its weight is below 1 and at most doubled by rounding up.
ScramblePhases ==
  /\ AtRest
  /\ \A i \in Scanned : nodes[i].support < MaxEvidence   \* bound
  /\ nodes' = [i \in Ids |-> IF i \in Scanned THEN [nodes[i] EXCEPT !.support = @ + 1] ELSE nodes[i]]
  /\ UNCHANGED <<memory, executors, history, solving>>

\* INTERVENE_FREEZE_POPULATION: of those scanned the best half is kept, where
\* an id that is not in use takes a place at the end. Equal scores are left in
\* an order that depends on the exchanges of the sort: any of them may go.
FreezePopulation ==
  LET keep == IF ActiveCount > 2 THEN ActiveCount \div 2 ELSE 1
  IN  /\ AtRest
      /\ \E S \in SUBSET Scanned :
           /\ Cardinality(S) = Min({keep, Cardinality(Scanned)})
           /\ \A i \in S, j \in Scanned \ S : Score(i) >= Score(j)
           /\ nodes' = [i \in Ids |-> IF i \in Scanned \ S THEN Pruned(nodes, i)[i] ELSE nodes[i]]
      /\ UNCHANGED <<memory, executors, history, solving>>


-------------------------------------------------------------------------------
CoreInit ==
  /\ nodes = <<>> /\ memory = NothingStored /\ executors = <<>>
  /\ history = <<>> /\ solving = NotSolving

\* What the library does of its own, once engine_solve was called.
SolveStep == IterateStops \/ Iterate

\* What a caller of the library does with the hypotheses.
OwnerStep ==
  \/ ApplyTransition \/ BringEvidence
  \/ \E goal \in BOOLEAN : Solve(goal)
  \/ Add \/ Merge \/ Recreate
  \/ RemoveTopMode \/ ScramblePhases \/ FreezePopulation

\* What a caller does with the memory and the router.
StoreStep ==
  \/ Write \/ Register \/ Mark \/ Recreate
  \/ DisableMemory \/ InjectCounterexample \/ SwapRouter

-------------------------------------------------------------------------------
(* Properties.                                                                *)

TransitionTypes ==
  Marks \cup {"strengthen", "weaken", "prune", "suspend", "reactivate", "stop"}
TransitionRecords == [type : TransitionTypes, hypothesis_id : Nat, target_id : Nat]

\* A solve under way has room for a record of each iteration that is left, since
\* none leaves two (core.c 220-290).
CoreTypeOK ==
  /\ PopulationTypeOK /\ MemoryTypeOK /\ RouterTypeOK
  /\ history \in Seq(TransitionRecords)
  /\ solving \in [left : 0..MaxIterations, goal : BOOLEAN]
  /\ Len(history) + solving.left <= MaxRecords

Derivations == {i \in DOMAIN history : history[i].type \in Marks}

\* Where a hypothesis came from can be told from the history: one that was not
\* proposed by a caller is named as the target of exactly one record, made of
\* an older hypothesis, and no two transitions made the same one.
LineageIsRecorded ==
  /\ \A i \in Derivations :
       /\ history[i].hypothesis_id < history[i].target_id
       /\ history[i].target_id \in Ids
       /\ nodes[history[i].target_id].claim[1] = history[i].type
  /\ \A i, j \in Derivations : history[i].target_id = history[j].target_id => i = j
  /\ \A n \in Ids : nodes[n].claim[1] \in Marks =>
       \E i \in Derivations : history[i].target_id = n

\* A transition that returns false, which is one that leaves no record, has not
\* changed the population, of which a merge touches three hypotheses.
FailedTransitionChangesNothing ==
  [][ ApplyTransition /\ UNCHANGED history => UNCHANGED nodes ]_coreVars

\* Normalisation drops a hypothesis only for an earlier one like it, which
\* stays in use and has at least its prior afterwards, whatever order the
\* duplicates are in and however likeness chains.
DuplicatesLeaveTheirPrior ==
  [][ BringEvidence \/ Iterate =>
        \A j \in UsedIds : ~nodes'[j].used =>
          \E i \in UsedIds :
             /\ i < j /\ Alike(nodes[i].claim, nodes[j].claim)
             /\ nodes'[i].used /\ nodes'[i].prior_score >= nodes[j].prior_score ]_coreVars
===============================================================================
