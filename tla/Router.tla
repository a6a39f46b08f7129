-------------------------------- MODULE Router --------------------------------
(* The executor router of the reasoning core: src/src/core/router/router.c.   *)
(* Executors are registered in an order, under ids of the caller's choosing;  *)
(* one that is unavailable, or that lacks a capability, scores 0, and the     *)
(* others score better the less they cost.                                    *)
EXTENDS Scans, SequencesExt

CONSTANTS
  Executors,      \* the executors that are registered: [id, capabilities, worth],
                  \* the worth being 1 / cost_class, in whole units
  Capabilities,   \* capabilities
  MaxExecutors    \* bound: executors registered

ASSUME RouterAssumption ==
  /\ MaxExecutors \in Nat
  /\ \A x \in Executors : x.id \in Nat /\ x.worth \in Nat \ {0}

VARIABLE executors   \* the entries, in the order they were registered

\* router_score.
ExecutorScore(x, cap) ==
  IF x.available /\ cap \in x.capabilities THEN x.worth ELSE 0

ScoresFor(cap) == [i \in DOMAIN executors |-> ExecutorScore(executors[i], cap)]

\* router_select: an id, 0 when nothing is registered. A score of 0 is above
\* the -1 that the scan starts with.
Select(cap) ==
  IF executors = <<>> THEN 0
  ELSE executors[FirstBest(DOMAIN executors, ScoresFor(cap))].id

\* router_fallback: the best of the others.
Fallback(failed, cap) ==
  LET others == {i \in DOMAIN executors : executors[i].id # failed}
  IN  IF others = {} THEN 0 ELSE executors[FirstBest(others, ScoresFor(cap))].id

\* The entries that fit.
Fitting(cap) == {i \in DOMAIN executors : ScoresFor(cap)[i] > 0}

\* A round of the selection sort: the place at n and the one that holds the best
\* of what is left change what they hold.
Exchanged(places, n, cap) ==
  LET best == FirstBest(n..Len(places), [p \in DOMAIN places |-> ScoresFor(cap)[places[p]]])
  IN  [places EXCEPT ![n] = places[best], ![best] = places[n]]

\* The entries that fit after the rounds of the sort: as many as are asked for.
Sorted(cap, rounds) ==
  LET from[n \in 0..rounds] ==
        IF n = 0 THEN InOrder(Fitting(cap), Len(executors))
        ELSE Exchanged(from[n - 1], n, cap)
  IN  from[rounds]

\* The first entry with the id of the one at i, which is what is copied out.
FirstWithId(i) == Min({j \in DOMAIN executors : executors[j].id = executors[i].id})

\* router_rank: the entries that fit, best first, up to max_results.
Rank(cap, max_results) ==
  LET found == Min({Cardinality(Fitting(cap)), max_results})
  IN  [n \in 1..found |-> executors[FirstWithId(Sorted(cap, found)[n])]]

\* router_register.
Registered(es, x) ==
  Append(es, [id |-> x.id, capabilities |-> x.capabilities, worth |-> x.worth,
              available |-> TRUE])

\* router_mark_available, router_mark_unavailable: the first entry with the id.
Marked(es, id, available) ==
  LET found == {i \in DOMAIN es : es[i].id = id}
  IN  IF found = {} THEN es ELSE [es EXCEPT ![Min(found)].available = available]

\* What the router keeps of an executor.
ExecutorEntries ==
  [id : {x.id : x \in Executors}, capabilities : {x.capabilities : x \in Executors},
   worth : Nat \ {0}, available : BOOLEAN]

RouterTypeOK == executors \in Seq(ExecutorEntries)

DistinctIds ==
  \A i, j \in DOMAIN executors : executors[i].id = executors[j].id => i = j

\* As long as some executor fits, router_select names the first of those that
\* score best.
SelectsTheBest ==
  \A cap \in Capabilities : Fitting(cap) # {} =>
    \E i \in Fitting(cap) :
       /\ executors[i].id = Select(cap)
       /\ \A j \in DOMAIN executors : ScoresFor(cap)[j] <= ScoresFor(cap)[i]

\* What router_select names can do what is required (router.h 40), or it names
\* nothing. The router does not keep this: a score of 0 is taken as well.
SelectedFits ==
  \A cap \in Capabilities : Select(cap) # 0 =>
    \E i \in Fitting(cap) : executors[i].id = Select(cap)

\* router_fallback does not name the one that failed, but the best of the others,
\* or nothing.
FallsBackOnAnother ==
  \A cap \in Capabilities, x \in Executors :
    Fallback(x.id, cap) # 0 =>
      \E i \in DOMAIN executors :
         /\ executors[i].id = Fallback(x.id, cap) /\ executors[i].id # x.id
         /\ \A j \in DOMAIN executors :
              executors[j].id # x.id => ScoresFor(cap)[j] <= ScoresFor(cap)[i]

\* However many results router_rank is asked for, what it returns are different
\* executors that fit, the best first, and none that is left out is better; the
\* first of them is the one that router_select names. Executors that share an id
\* are outside the promise: the first is copied out for each of them.
RanksTheBest ==
  DistinctIds => \A cap \in Capabilities, max \in 1..Len(executors) :
    LET ranked == Rank(cap, max)
    IN  /\ Len(ranked) = Min({Cardinality(Fitting(cap)), max})
        /\ \E place \in [DOMAIN ranked -> Fitting(cap)] :
             /\ \A n \in DOMAIN ranked : ranked[n] = executors[place[n]]
             /\ \A m, n \in DOMAIN ranked : m < n =>
                  /\ place[m] # place[n]
                  /\ ScoresFor(cap)[place[n]] <= ScoresFor(cap)[place[m]]
             /\ \A n \in DOMAIN ranked, i \in Fitting(cap) :
                  i \in Range(place) \/ ScoresFor(cap)[i] <= ScoresFor(cap)[place[n]]
        /\ ranked # <<>> => ranked[1].id = Select(cap)
===============================================================================
