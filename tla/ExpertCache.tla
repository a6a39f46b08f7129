----------------------------- MODULE ExpertCache -----------------------------
(***************************************************************************)
(* The routed-expert cache of src/transformer/ds4_forward.c: a fixed array *)
(* of slots, the map from experts to slots, the LRU heat and the format    *)
(* label of each slot, and the counter of used slots.  All of it is        *)
(* touched by the inference thread alone; module Prefetch adds the reader  *)
(* thread and the files.                                                   *)
(*                                                                         *)
(* An expert stands for a pair <layer, expert id>, the index into          *)
(* exp_cache_map.  The bytes of a slot are abstracted to the expert they   *)
(* came from and to their encoding.  The weight value scoreboard (WVS) is  *)
(* abstracted to the experts it knows and to those it classifies HOT.      *)
(*                                                                         *)
(* Here and in the other modules, a definition that precedes another and   *)
(* carries its name with a suffix (VacatedMapKept before VacatedMap) is a  *)
(* plausible slip in it.  No specification uses it: putting it in the      *)
(* place of the other shows which property notices.                        *)
(***************************************************************************)
EXTENDS Integers, FiniteSets

CONSTANTS
  Experts,    \* the routed experts
  NoExpert,   \* stands for "no expert's bytes"
  Cap,        \* exp_cache_cap
  HeatMod,    \* exp_cache_heat is a uint16_t: it wraps at 2^16
  Q1Experts,  \* the experts the .bit1 precision map stores as Q1_0 ({}: no .bit1)
  Boards      \* the scoreboards a saved .wvs file may hold: [seen, hot]

ASSUME CacheAssumption ==
  /\ IsFiniteSet(Experts)
  /\ NoExpert \notin Experts
  /\ Cap \in Nat \ {0}
  /\ HeatMod \in Nat \ {0, 1}
  /\ Q1Experts \subseteq Experts
  /\ \A b \in Boards : b.hot \subseteq b.seen /\ b.seen \subseteq Experts

VARIABLES
  map,     \* exp_cache_map: expert -> slot, NoSlot when not cached
  heat,    \* exp_cache_heat of each slot
  format,  \* exp_cache_format: the encoding a slot is labelled with
  used,    \* exp_cache_used
  bytes,   \* what the slot really holds
  seen,    \* the experts that have a scoreboard entry
  hot,     \* those whose entry is CT_HOTNESS_HOT
  phase,   \* "preload" and "expand" (loops over the scoreboard) or "serve"
  todo     \* the scoreboard entries the running loop still has to visit

cacheVars == <<map, heat, format, used, bytes, seen, hot, phase, todo>>

Slots == 0 .. Cap - 1
NoSlot == -1
Encodings == {"MXFP4", "Q1_0"}
Contents == [of : Experts \cup {NoExpert}, enc : Encodings \cup {"torn", "none"}]

Bytes(e, enc) == [of |-> e, enc |-> enc]

\* What a buffer holds before the first read, and after a read into it failed
\* that nobody else relied on: bytes of no use.
Nothing == Bytes(NoExpert, "none")

TypeOK ==
  /\ map \in [Experts -> Slots \cup {NoSlot}]
  /\ heat \in [Slots -> 0 .. HeatMod - 1]
  /\ format \in [Slots -> Encodings]
  /\ used \in 0 .. Cap
  /\ bytes \in [Slots -> Contents]
  /\ seen \subseteq Experts
  /\ hot \subseteq seen
  /\ phase \in {"preload", "expand", "serve"}
  /\ todo \subseteq Experts

Cached(e) == map[e] # NoSlot
Resident == {e \in Experts : Cached(e)}
Occupied(s) == \E e \in Experts : map[e] = s
OccupiedSlots == {s \in Slots : Occupied(s)}
-----------------------------------------------------------------------------
(* Slot choice.                                                            *)

\* The slots exp_cache_ensure takes for unused: cold, and mapped by nobody.
FreeSlotsIgnoringMap == {s \in Slots : heat[s] = 0}
FreeSlots == {s \in Slots : heat[s] = 0 /\ ~ Occupied(s)}

\* The first slot of minimal heat.
IsColdest(s) ==
  \A t \in Slots : heat[s] < heat[t] \/ (heat[s] = heat[t] /\ s <= t)

MustEvictEarly == used >= Cap - 1
MustEvict == FreeSlots = {} /\ used >= Cap

\* The slot a missing expert goes to.
IsTarget(s) ==
  IF MustEvict THEN IsColdest(s)
  ELSE IF FreeSlots = {} THEN s = used
  ELSE s \in FreeSlots /\ \A t \in FreeSlots : s <= t

\* The map, the heat and the counter once slot s has been made free.
VacatedMapKept(s) == map
VacatedMap(s) ==
  IF MustEvict /\ Occupied(s)
  THEN [map EXCEPT ![CHOOSE v \in Experts : map[v] = s] = NoSlot]
  ELSE map
VacatedHeat(s) == IF MustEvict THEN [heat EXCEPT ![s] = 0] ELSE heat
VacatedUsedKept == used
VacatedUsed == IF MustEvict THEN used - 1 ELSE used
-----------------------------------------------------------------------------
(* Precision.                                                              *)

\* The encoding read_expert_raw delivers: the .bit1 precision map decides.
ReadEncoding(e) == IF e \in Q1Experts THEN "Q1_0" ELSE "MXFP4"

\* The label exp_precision computes: the scoreboard decides.
Label(e, h) == IF e \in h THEN "MXFP4" ELSE "Q1_0"

-----------------------------------------------------------------------------
CacheInit ==
  /\ map = [e \in Experts |-> NoSlot]
  /\ heat = [s \in Slots |-> 0]
  /\ format = [s \in Slots |-> "MXFP4"]
  /\ used = 0
  /\ bytes = [s \in Slots |-> Nothing]
  /\ \E b \in Boards : seen = b.seen /\ hot = b.hot
  /\ phase = "preload"
  /\ todo = hot

\* preload_hot_experts: the next HOT entry is read into slot exp_cache_used.
Preload(e) ==
  /\ phase = "preload"
  /\ e \in todo
  /\ used < Cap
  /\ todo' = todo \ {e}
  /\ \/ /\ map' = [map EXCEPT ![e] = used]
        /\ heat' = [heat EXCEPT ![used] = 1]
        /\ format' = [format EXCEPT ![used] = Label(e, hot)]
        /\ bytes' = [bytes EXCEPT ![used] = Bytes(e, ReadEncoding(e))]
        /\ used' = used + 1
     \/ /\ bytes' = [bytes EXCEPT ![used] = Nothing]
        /\ UNCHANGED <<map, heat, format, used>>
  /\ UNCHANGED <<seen, hot, phase>>

\* The cached experts that are HOT and labelled Q1_0.
UpgradeTargets(h) == {e \in h : Cached(e) /\ format[map[e]] = "Q1_0"}

\* The scan is over, or no slot is left; proactive expansion follows.
PreloadEnd ==
  /\ phase = "preload"
  /\ todo = {} \/ used >= Cap
  /\ phase' = "expand"
  /\ todo' = UpgradeTargets(hot)
  /\ UNCHANGED <<map, heat, format, used, bytes, seen, hot>>

\* proactive_expand_hot_experts: one entry is read again from the GGUF, over
\* the slot it occupies.  When the read fails, some of its three matrices may
\* have been overwritten already.
Expand(e) ==
  /\ phase = "expand"
  /\ e \in todo
  /\ todo' = todo \ {e}
  /\ \/ /\ bytes' = [bytes EXCEPT ![map[e]] = Bytes(e, "MXFP4")]
        /\ format' = [format EXCEPT ![map[e]] = "MXFP4"]
     \/ /\ bytes' \in {bytes, [bytes EXCEPT ![map[e]] = Bytes(e, "torn")]}
        /\ UNCHANGED format
  /\ UNCHANGED <<map, heat, used, seen, hot, phase>>

ExpandEnd ==
  /\ phase = "expand"
  /\ todo = {}
  /\ phase' = "serve"
  /\ UNCHANGED <<map, heat, format, used, bytes, seen, hot, todo>>

\* ct_wvs_record_access: a new entry starts HOT; a known one gains score.
RecordAccess(e) ==
  /\ seen' = seen \cup {e}
  /\ IF e \in seen THEN hot' \in {hot, hot \cup {e}} ELSE hot' = hot \cup {e}

\* exp_cache_ensure, the expert is cached.
Hit(e) ==
  /\ phase = "serve"
  /\ Cached(e)
  /\ RecordAccess(e)
  /\ heat' = [heat EXCEPT ![map[e]] = (@ + 1) % HeatMod]
  /\ UNCHANGED <<map, format, used, bytes, phase, todo>>

\* exp_cache_ensure, the expert is missing and the bytes b arrive.
Install(e, b) ==
  /\ phase = "serve"
  /\ ~ Cached(e)
  /\ RecordAccess(e)
  /\ \E s \in Slots :
       /\ IsTarget(s)
       /\ map' = [VacatedMap(s) EXCEPT ![e] = s]
       /\ heat' = [heat EXCEPT ![s] = 1]
       /\ format' = [format EXCEPT ![s] = Label(e, hot')]
       /\ bytes' = [bytes EXCEPT ![s] = b]
  /\ used' = VacatedUsed + 1
  /\ UNCHANGED <<phase, todo>>

\* exp_cache_ensure, the expert is missing and cannot be read: a victim
\* that was evicted for it is gone all the same.
InstallFails(e) ==
  /\ phase = "serve"
  /\ ~ Cached(e)
  /\ RecordAccess(e)
  /\ \E s \in Slots :
       /\ IsTarget(s)
       /\ map' = VacatedMap(s)
       /\ heat' = VacatedHeat(s)
       /\ bytes' = [bytes EXCEPT ![s] = Nothing]
  /\ used' = VacatedUsed
  /\ UNCHANGED <<format, phase, todo>>

\* A context window ends: ct_wvs_update_all decays every score, then
\* proactive_expand_hot_experts runs.
WindowEnd ==
  /\ phase = "serve"
  /\ hot' \in SUBSET hot
  /\ phase' = "expand"
  /\ todo' = UpgradeTargets(hot')
  /\ UNCHANGED <<map, heat, format, used, bytes, seen>>

CacheNext ==
  \/ \E e \in Experts : Preload(e)
  \/ PreloadEnd
  \/ \E e \in Experts : Expand(e)
  \/ ExpandEnd
  \/ \E e \in Experts : Hit(e)
  \/ \E e \in Experts : Install(e, Bytes(e, ReadEncoding(e)))
  \/ \E e \in Experts : InstallFails(e)
  \/ WindowEnd

CacheSpec == CacheInit /\ [][CacheNext]_cacheVars
-----------------------------------------------------------------------------
(* Properties.                                                             *)

\* Two experts never share a slot: exp_cache_ensure and preload_hot_experts
\* only hand out slots nobody maps to, or that they have just vacated.
MapInjective ==
  \A e, f \in Experts : Cached(e) /\ map[e] = map[f] => e = f

\* exp_cache_used counts the slots in use.  It decides whether a full cache
\* evicts, and where preload_hot_experts puts the next expert.
UsedCountsSlots == used = Cardinality(OccupiedSlots)

\* A slot nobody maps to is cold, so the free-slot scan finds it, and the
\* "free_slot = exp_cache_used" fallback of exp_cache_ensure, which checks
\* no map entry, is never taken.
FreeSlotsAreCold == \A s \in Slots : ~ Occupied(s) => heat[s] = 0

\* The map, the counter and the heat, which say each on its own which slots are
\* in use, never disagree, whatever was evicted, preloaded or failed halfway.
SlotsAgree == MapInjective /\ UsedCountsSlots /\ FreeSlotsAreCold

\* The bytes of a slot are those of the expert that maps to it, whatever was
\* evicted, preloaded, expanded or failed before: the layer never multiplies
\* by another expert's weights.
SlotHoldsItsExpert == \A e \in Experts : Cached(e) => bytes[map[e]].of = e

\* An expert only ever loses its slot when every slot is in use, and at most
\* one expert loses its slot at a time.
EvictOnlyWhenFull ==
  [][\A e \in Experts : Cached(e) /\ map'[e] # map[e] =>
       /\ OccupiedSlots = Slots
       /\ map'[e] = NoSlot
       /\ \A f \in Experts \ {e} : Cached(f) => map'[f] = map[f]]_cacheVars

\* The cache implements the abstract residency discipline.
R == INSTANCE Residency WITH resident <- Resident
ImplementsResidency == R!ResidencySpec

\* The label of a slot says how its bytes are encoded ("0 = MXFP4 (from
\* GGUF), 1 = Q1_0 (from .bit1)").  The code does not guarantee it: the
\* scoreboard sets the label and the .bit1 map, or its absence, the bytes.
LabelMatchesBytes ==
  \A e \in Experts : Cached(e) => format[map[e]] = bytes[map[e]].enc
=============================================================================
