---------------------------- MODULE PrefetchProofs ----------------------------
(* Proofs about the routed-expert cache and the two threads that use it, for  *)
(* any number of experts, slots, layers, selected experts and spurious        *)
(* wakeups. A slot that is cached holds its expert, byte for byte, and the    *)
(* cache implements the residency discipline (ExpertCache). The two threads   *)
(* never use the buffer together, a buffer that is handed over holds its      *)
(* expert, no job is lost, nothing is in flight between layers, and together  *)
(* the threads only do to the cache what ExpertCache allows (Prefetch).       *)
EXTENDS Prefetch, FiniteSetTheorems, TLAPS

-------------------------------------------------------------------------------
(* The cache.                                                                 *)

PreloadFillsInOrder ==
  phase = "preload" =>
    /\ \A e \in todo : ~ Cached(e)
    /\ \A s \in Slots : Occupied(s) <=> s < used

ExpandsCachedOnly == phase = "expand" => \A e \in todo : Cached(e)

\* While experts are preloaded the slots in use are exactly those below
\* exp_cache_used, and what is still to be expanded is in the cache.
IInv ==
  /\ TypeOK
  /\ MapInjective
  /\ UsedCountsSlots
  /\ FreeSlotsAreCold
  /\ SlotHoldsItsExpert
  /\ PreloadFillsInOrder
  /\ ExpandsCachedOnly
-----------------------------------------------------------------------------
(* Slots and their number.                                                 *)

LEMMA SlotsFinite == IsFiniteSet(Slots) /\ Cardinality(Slots) = Cap
  <1>1. Cap \in Nat \ {0}
    BY CacheAssumption
  <1>2. 0 \in Int /\ Cap - 1 \in Int /\ ~ (0 > Cap - 1) /\ Cap - 1 - 0 + 1 = Cap
    BY <1>1
  <1>3. IsFiniteSet(0 .. Cap - 1) /\ Cardinality(0 .. Cap - 1) = Cap
    BY <1>2, FS_Interval
  <1> QED
    BY <1>3 DEF Slots

LEMMA OccupiedFinite == IsFiniteSet(OccupiedSlots)
  BY SlotsFinite, FS_Subset, OccupiedSlots \subseteq Slots DEF OccupiedSlots

\* Every slot is occupied exactly when exp_cache_used has reached the capacity.
LEMMA FullIffAllOccupied ==
  ASSUME UsedCountsSlots
  PROVE  used = Cap <=> OccupiedSlots = Slots
  <1>1. OccupiedSlots \subseteq Slots
    BY DEF OccupiedSlots
  <1>2. Cardinality(OccupiedSlots) = Cardinality(Slots) => OccupiedSlots = Slots
    BY <1>1, SlotsFinite, FS_Subset
  <1> QED
    BY <1>2, SlotsFinite DEF UsedCountsSlots

\* When the free-slot scan finds nothing, every slot is in use.
LEMMA NoFreeSlot ==
  ASSUME FreeSlotsAreCold, FreeSlots = {}
  PROVE  OccupiedSlots = Slots
  BY DEF FreeSlotsAreCold, FreeSlots, OccupiedSlots

\* The slot a missing expert goes to is one nobody maps to, or, in a full
\* cache, one whose only expert is dropped from the map.
EvictsFor(s, v) ==
  /\ OccupiedSlots = Slots
  /\ map[v] = s
  /\ \A f \in Experts : map[f] = s => f = v
  /\ VacatedMap(s) = [map EXCEPT ![v] = NoSlot]
  /\ VacatedHeat(s) = [heat EXCEPT ![s] = 0]
  /\ VacatedUsed = used - 1

TakesFree(s) ==
  /\ ~ Occupied(s)
  /\ VacatedMap(s) = map
  /\ VacatedHeat(s) = heat
  /\ VacatedUsed = used

LEMMA TargetIsVacant ==
  ASSUME TypeOK, MapInjective, UsedCountsSlots, FreeSlotsAreCold,
         NEW s \in Slots, IsTarget(s)
  PROVE  TakesFree(s) \/ \E v \in Experts : EvictsFor(s, v)
  <1>1. CASE MustEvict
    <2>1. OccupiedSlots = Slots
      BY <1>1, NoFreeSlot DEF MustEvict
    <2>2. Occupied(s)
      BY <2>1 DEF OccupiedSlots
    <2> DEFINE v == CHOOSE v \in Experts : map[v] = s
    <2>3. v \in Experts /\ map[v] = s
      BY <2>2 DEF Occupied
    <2>4. \A f \in Experts : map[f] = s => f = v
      BY <2>3 DEF MapInjective, Cached, NoSlot, Slots
    <2>5. VacatedMap(s) = [map EXCEPT ![v] = NoSlot]
      BY <1>1, <2>2 DEF VacatedMap
    <2>6. EvictsFor(s, v)
      BY <1>1, <2>1, <2>3, <2>4, <2>5 DEF EvictsFor, VacatedHeat, VacatedUsed
    <2> QED
      BY <2>3, <2>6
  <1>2. CASE ~ MustEvict
    <2>1. FreeSlots # {}
      <3>1. SUFFICES ASSUME FreeSlots = {} PROVE FALSE
        OBVIOUS
      <3>2. used = Cap
        BY <3>1, NoFreeSlot, FullIffAllOccupied
      <3> QED
        BY <1>2, <3>1, <3>2, CacheAssumption DEF MustEvict
    <2>2. s \in FreeSlots
      BY <1>2, <2>1 DEF IsTarget
    <2> QED
      BY <1>2, <2>2 DEF FreeSlots, TakesFree, VacatedMap, VacatedHeat, VacatedUsed
  <1> QED
    BY <1>1, <1>2
-----------------------------------------------------------------------------
(* The invariant is inductive: one lemma per action.                       *)

LEMMA InitIInv == CacheInit => IInv
  <1> SUFFICES ASSUME CacheInit PROVE IInv
    OBVIOUS
  <1> USE CacheAssumption DEF CacheInit
  <1>1. TypeOK
    BY DEF TypeOK, Slots, NoSlot, Encodings, Contents, Nothing, Bytes
  <1>2. OccupiedSlots = {}
    BY DEF OccupiedSlots, Occupied, Slots, NoSlot
  <1>3. UsedCountsSlots
    BY <1>2, FS_EmptySet DEF UsedCountsSlots
  <1>4. PreloadFillsInOrder
    BY DEF PreloadFillsInOrder, Cached, Occupied, Slots, NoSlot
  <1> QED
    BY <1>1, <1>3, <1>4
    DEF IInv, MapInjective, FreeSlotsAreCold, SlotHoldsItsExpert, ExpandsCachedOnly,
        Cached, Slots

LEMMA PreloadIInv ==
  ASSUME IInv, NEW e \in Experts, Preload(e)
  PROVE  IInv'
  <1> USE CacheAssumption DEF IInv, Preload
  <1>1. used \in Slots /\ ~ Occupied(used) /\ ~ Cached(e)
    BY DEF PreloadFillsInOrder, TypeOK, Slots
  <1>2. CASE /\ map' = [map EXCEPT ![e] = used]
             /\ heat' = [heat EXCEPT ![used] = 1]
             /\ format' = [format EXCEPT ![used] = Label(e, hot)]
             /\ bytes' = [bytes EXCEPT ![used] = Bytes(e, ReadEncoding(e))]
             /\ used' = used + 1
    <2>1. TypeOK'
      <3>1. Bytes(e, ReadEncoding(e)) \in Contents
        BY DEF Bytes, ReadEncoding, Contents, Encodings
      <3> QED
        BY <1>1, <1>2, <3>1 DEF TypeOK, Slots, Label, Encodings
    <2>2. MapInjective' /\ SlotHoldsItsExpert'
      BY <1>1, <1>2 DEF TypeOK, MapInjective, SlotHoldsItsExpert, Cached, Occupied, Bytes,
                        NoSlot, Slots
    <2>3. \A s \in Slots : Occupied(s)' <=> Occupied(s) \/ s = used
      BY <1>1, <1>2 DEF TypeOK, Occupied, Cached, NoSlot, Slots
    <2>4. OccupiedSlots' = OccupiedSlots \cup {used}
      BY <1>1, <2>3 DEF OccupiedSlots, Slots
    <2>5. UsedCountsSlots'
      BY <1>1, <1>2, <2>4, OccupiedFinite, FS_AddElement DEF UsedCountsSlots, OccupiedSlots
    <2>6. FreeSlotsAreCold'
      BY <1>2, <2>3 DEF FreeSlotsAreCold, TypeOK, Slots
    <2>7. PreloadFillsInOrder'
      <3>1. \A f \in todo' : f # e /\ ~ Cached(f)'
        BY <1>2 DEF PreloadFillsInOrder, TypeOK, Cached
      <3>2. \A s \in Slots : Occupied(s)' <=> s < used'
        BY <1>2, <2>3 DEF PreloadFillsInOrder, TypeOK, Slots
      <3> QED
        BY <3>1, <3>2 DEF PreloadFillsInOrder, Slots
    <2> QED
      BY <2>1, <2>2, <2>5, <2>6, <2>7 DEF ExpandsCachedOnly
  <1>3. CASE /\ bytes' = [bytes EXCEPT ![used] = Nothing]
             /\ UNCHANGED <<map, heat, format, used>>
    <2>1. TypeOK'
      BY <1>3 DEF TypeOK, Nothing, Bytes, Contents
    <2>2. SlotHoldsItsExpert'
      BY <1>1, <1>3 DEF TypeOK, SlotHoldsItsExpert, Cached, Occupied
    <2> QED
      BY <1>3, <2>1, <2>2
      DEF MapInjective, UsedCountsSlots, FreeSlotsAreCold, PreloadFillsInOrder,
          ExpandsCachedOnly, OccupiedSlots, Occupied, Cached
  <1> QED
    BY <1>2, <1>3

LEMMA UpgradeTargetsCached ==
  ASSUME NEW h, h \subseteq Experts
  PROVE  UpgradeTargets(h) \subseteq Experts /\ \A e \in UpgradeTargets(h) : Cached(e)
  BY DEF UpgradeTargets

LEMMA PreloadEndIInv == IInv /\ PreloadEnd => IInv'
  <1> SUFFICES ASSUME IInv, PreloadEnd PROVE IInv'
    OBVIOUS
  <1> USE DEF IInv, PreloadEnd
  <1>1. todo' \subseteq Experts /\ \A e \in todo' : Cached(e)
    BY UpgradeTargetsCached DEF TypeOK
  <1> QED
    BY <1>1 DEF TypeOK, MapInjective, UsedCountsSlots, FreeSlotsAreCold, SlotHoldsItsExpert,
      PreloadFillsInOrder, ExpandsCachedOnly, OccupiedSlots, Occupied, Cached

LEMMA ExpandIInv ==
  ASSUME IInv, NEW e \in Experts, Expand(e)
  PROVE  IInv'
  <1> USE DEF IInv, Expand
  <1>1. Cached(e) /\ map[e] \in Slots
    BY DEF ExpandsCachedOnly, Cached, TypeOK
  <1>2. bytes' = bytes \/ \E enc \in {"MXFP4", "torn"} :
                            bytes' = [bytes EXCEPT ![map[e]] = Bytes(e, enc)]
    OBVIOUS
  <1>3. TypeOK'
    BY <1>1, <1>2 DEF TypeOK, Bytes, Contents, Encodings
  <1>4. SlotHoldsItsExpert'
    BY <1>1, <1>2 DEF TypeOK, SlotHoldsItsExpert, MapInjective, Cached, Bytes
  <1> QED
    BY <1>3, <1>4 DEF MapInjective, UsedCountsSlots, FreeSlotsAreCold,
      PreloadFillsInOrder, ExpandsCachedOnly, OccupiedSlots, Occupied, Cached

LEMMA ExpandEndIInv == IInv /\ ExpandEnd => IInv'
  BY DEF IInv, ExpandEnd, TypeOK, MapInjective, UsedCountsSlots, FreeSlotsAreCold,
    SlotHoldsItsExpert, PreloadFillsInOrder, ExpandsCachedOnly, OccupiedSlots, Occupied, Cached

LEMMA RecordAccessTyped ==
  ASSUME TypeOK, NEW e \in Experts, RecordAccess(e)
  PROVE  seen' \subseteq Experts /\ hot' \subseteq seen'
  BY DEF TypeOK, RecordAccess

LEMMA HitIInv ==
  ASSUME IInv, NEW e \in Experts, Hit(e)
  PROVE  IInv'
  <1> USE DEF IInv, Hit
  <1>1. map[e] \in Slots /\ Occupied(map[e])
    BY DEF TypeOK, Cached, Occupied
  <1>2. (heat[map[e]] + 1) % HeatMod \in 0 .. HeatMod - 1
    BY <1>1, CacheAssumption DEF TypeOK
  <1>3. TypeOK'
    BY <1>1, <1>2, RecordAccessTyped DEF TypeOK
  <1>4. FreeSlotsAreCold'
    BY <1>1 DEF TypeOK, FreeSlotsAreCold, Occupied
  <1> QED
    BY <1>3, <1>4 DEF MapInjective, UsedCountsSlots, SlotHoldsItsExpert,
      PreloadFillsInOrder, ExpandsCachedOnly, OccupiedSlots, Occupied, Cached

LEMMA WindowEndIInv == IInv /\ WindowEnd => IInv'
  <1> SUFFICES ASSUME IInv, WindowEnd PROVE IInv'
    OBVIOUS
  <1> USE DEF IInv, WindowEnd
  <1>1. hot' \subseteq hot /\ hot' \subseteq Experts
    BY DEF TypeOK
  <1>2. todo' \subseteq Experts /\ \A e \in todo' : Cached(e)
    BY <1>1, UpgradeTargetsCached
  <1> QED
    BY <1>1, <1>2 DEF TypeOK, MapInjective, UsedCountsSlots, FreeSlotsAreCold,
      SlotHoldsItsExpert, PreloadFillsInOrder, ExpandsCachedOnly, OccupiedSlots, Occupied, Cached

\* The heart of the matter: a missing expert is installed, with bytes that
\* are its own, in a slot that is vacant or has just been vacated.
LEMMA InstallIInv ==
  ASSUME IInv, NEW e \in Experts, NEW b \in Contents, b.of = e, Install(e, b)
  PROVE  IInv'
  <1> USE CacheAssumption
  <1>0. TypeOK /\ MapInjective /\ UsedCountsSlots /\ FreeSlotsAreCold /\ SlotHoldsItsExpert
    BY DEF IInv
  <1> PICK s \in Slots :
        /\ IsTarget(s)
        /\ map' = [VacatedMap(s) EXCEPT ![e] = s]
        /\ heat' = [heat EXCEPT ![s] = 1]
        /\ format' = [format EXCEPT ![s] = Label(e, hot')]
        /\ bytes' = [bytes EXCEPT ![s] = b]
    BY DEF Install
  <1>1. /\ ~ Cached(e) /\ RecordAccess(e)
        /\ used' = VacatedUsed + 1
        /\ phase' = "serve" /\ todo' = todo
    BY DEF Install
  <1>2. heat' \in [Slots -> 0 .. HeatMod - 1] /\ format' \in [Slots -> Encodings]
           /\ bytes' \in [Slots -> Contents]
    BY <1>0 DEF TypeOK, Label, Encodings
  <1>3. CASE TakesFree(s)
    <2>1. map' = [map EXCEPT ![e] = s] /\ used' = used + 1
      BY <1>1, <1>3 DEF TakesFree
    <2>2. s \notin OccupiedSlots
      BY <1>3 DEF TakesFree, OccupiedSlots
    <2>9. \A f \in Experts : map'[f] = IF f = e THEN s ELSE map[f]
      BY <1>0, <2>1 DEF TypeOK
    <2>3. \A t \in Slots : Occupied(t)' <=> Occupied(t) \/ t = s
      BY <1>1, <2>9 DEF Occupied, Cached, NoSlot, Slots
    <2>4. OccupiedSlots' = OccupiedSlots \cup {s}
      BY <2>3 DEF OccupiedSlots, Slots
    <2>5. UsedCountsSlots'
      BY <1>0, <2>1, <2>2, <2>4, OccupiedFinite, FS_AddElement DEF UsedCountsSlots
    <2>6. used # Cap
      BY <1>0, <2>2, FullIffAllOccupied
    <2>7. used' \in 0 .. Cap
      BY <1>0, <2>1, <2>6 DEF TypeOK
    <2>8. TypeOK'
      <3>1. map' \in [Experts -> Slots \cup {NoSlot}]
        BY <1>0, <2>1 DEF TypeOK
      <3>2. seen' \subseteq Experts /\ hot' \subseteq seen'
        BY <1>0, <1>1, RecordAccessTyped
      <3> QED
        BY <1>0, <1>1, <1>2, <2>7, <3>1, <3>2 DEF TypeOK
    <2>11. \A f \in Experts : map[f] # s
      BY <1>3 DEF TakesFree, Occupied
    <2>12. MapInjective'
      BY <1>0, <2>9, <2>11 DEF MapInjective, Cached
    <2>13. SlotHoldsItsExpert'
      <3> SUFFICES ASSUME NEW f \in Experts, Cached(f)'
                   PROVE  bytes'[map'[f]].of = f
        BY DEF SlotHoldsItsExpert, Cached
      <3>2. CASE f = e
        BY <1>0, <2>9, <3>2 DEF TypeOK
      <3>3. CASE f # e
        BY <1>0, <2>9, <2>11, <3>3 DEF TypeOK, SlotHoldsItsExpert, Cached, NoSlot
      <3> QED
        BY <3>2, <3>3
    <2>10. FreeSlotsAreCold'
      BY <1>0, <2>3 DEF FreeSlotsAreCold, TypeOK, Slots
    <2> QED
      BY <1>1, <2>5, <2>8, <2>10, <2>12, <2>13 DEF IInv, PreloadFillsInOrder, ExpandsCachedOnly
  <1>4. ASSUME NEW v \in Experts, EvictsFor(s, v)
        PROVE  IInv'
    <2>1. map' = [[map EXCEPT ![v] = NoSlot] EXCEPT ![e] = s] /\ used' = used
      BY <1>0, <1>1, <1>4 DEF EvictsFor, TypeOK
    <2>2. v # e
      BY <1>1, <1>4 DEF EvictsFor, Cached, NoSlot, Slots
    <2>9. \A f \in Experts :
            map'[f] = IF f = e THEN s ELSE IF f = v THEN NoSlot ELSE map[f]
      BY <1>0, <2>1 DEF TypeOK
    <2>10. \A f \in Experts : map[f] = s => f = v
      BY <1>4 DEF EvictsFor
    <2>14. map[v] = s /\ map[e] = NoSlot
      BY <1>1, <1>4 DEF EvictsFor, Cached
    <2>3. \A t \in Slots : Occupied(t)' <=> Occupied(t)
      <3>1. TAKE t \in Slots
      <3>2. CASE t = s
        <4>1. map'[e] = t
          BY <2>9, <3>2
        <4> QED
          BY <2>14, <3>2, <4>1 DEF Occupied
      <3>3. CASE t # s
        <4>1. t # NoSlot
          BY DEF Slots, NoSlot
        <4>2. \A f \in Experts : map'[f] = t <=> map[f] = t
          BY <2>9, <2>14, <3>3, <4>1
        <4> QED
          BY <4>2 DEF Occupied
      <3> QED
        BY <3>2, <3>3
    <2>4. OccupiedSlots' = OccupiedSlots
      BY <2>3 DEF OccupiedSlots, Slots
    <2>5. UsedCountsSlots'
      BY <1>0, <2>1, <2>4 DEF UsedCountsSlots
    <2>6. TypeOK'
      <3>1. map' \in [Experts -> Slots \cup {NoSlot}]
        <4>1. map \in [Experts -> Slots \cup {NoSlot}] /\ s \in Slots
          BY <1>0 DEF TypeOK
        <4> QED
          BY <2>1, <4>1
      <3>2. seen' \subseteq Experts /\ hot' \subseteq seen'
        BY <1>0, <1>1, RecordAccessTyped
      <3> QED
        BY <1>0, <1>1, <1>2, <2>1, <3>1, <3>2 DEF TypeOK
    <2>11. MapInjective'
      BY <1>0, <2>9, <2>10 DEF MapInjective, Cached
    <2>12. SlotHoldsItsExpert'
      <3> SUFFICES ASSUME NEW f \in Experts, Cached(f)'
                   PROVE  bytes'[map'[f]].of = f
        BY DEF SlotHoldsItsExpert, Cached
      <3>2. CASE f = e
        BY <1>0, <2>9, <3>2 DEF TypeOK
      <3>3. CASE f # e
        BY <1>0, <2>9, <2>10, <3>3 DEF TypeOK, SlotHoldsItsExpert, Cached, NoSlot
      <3> QED
        BY <3>2, <3>3
    <2>8. FreeSlotsAreCold'
      <3>1. \A t \in Slots : Occupied(t)'
        BY <1>4, <2>3 DEF EvictsFor, OccupiedSlots
      <3> QED
        BY <3>1 DEF FreeSlotsAreCold, Slots
    <2> QED
      BY <1>1, <2>5, <2>6, <2>8, <2>11, <2>12 DEF IInv, PreloadFillsInOrder, ExpandsCachedOnly
  <1> QED
    BY <1>0, <1>3, <1>4, TargetIsVacant

LEMMA InstallFailsIInv ==
  ASSUME IInv, NEW e \in Experts, InstallFails(e)
  PROVE  IInv'
  <1> USE CacheAssumption
  <1>0. TypeOK /\ MapInjective /\ UsedCountsSlots /\ FreeSlotsAreCold /\ SlotHoldsItsExpert
    BY DEF IInv
  <1> PICK s \in Slots :
        /\ IsTarget(s)
        /\ map' = VacatedMap(s)
        /\ heat' = VacatedHeat(s)
        /\ bytes' = [bytes EXCEPT ![s] = Nothing]
    BY DEF InstallFails
  <1>1. /\ RecordAccess(e)
        /\ used' = VacatedUsed
        /\ phase' = "serve" /\ todo' = todo /\ UNCHANGED format
    BY DEF InstallFails
  <1>2. bytes' \in [Slots -> Contents]
    BY <1>0 DEF TypeOK, Nothing, Bytes, Contents
  <1>3. CASE TakesFree(s)
    <2>1. map' = map /\ heat' = heat /\ used' = used
      BY <1>1, <1>3 DEF TakesFree
    <2>2. TypeOK'
      BY <1>0, <1>1, <1>2, <2>1, RecordAccessTyped DEF TypeOK
    <2>3. SlotHoldsItsExpert'
      BY <1>0, <1>3, <2>1 DEF TypeOK, SlotHoldsItsExpert, Cached, Occupied, TakesFree
    <2> QED
      BY <1>1, <2>1, <2>2, <2>3 DEF IInv, MapInjective, UsedCountsSlots, FreeSlotsAreCold,
        PreloadFillsInOrder, ExpandsCachedOnly, OccupiedSlots, Occupied, Cached
  <1>4. ASSUME NEW v \in Experts, EvictsFor(s, v)
        PROVE  IInv'
    <2>1. map' = [map EXCEPT ![v] = NoSlot] /\ heat' = [heat EXCEPT ![s] = 0]
             /\ used' = used - 1
      BY <1>1, <1>4 DEF EvictsFor
    <2>2. \A t \in Slots : Occupied(t)' <=> t # s
      <3>1. TAKE t \in Slots
      <3>2. CASE t = s
        BY <1>0, <1>4, <2>1, <3>2 DEF EvictsFor, Occupied, TypeOK, NoSlot, Slots
      <3>3. CASE t # s
        BY <1>4, <2>1, <3>3 DEF EvictsFor, Occupied, OccupiedSlots, TypeOK
      <3> QED
        BY <3>2, <3>3
    <2>3. OccupiedSlots' = OccupiedSlots \ {s} /\ s \in OccupiedSlots
      BY <1>4, <2>2 DEF EvictsFor, OccupiedSlots, Slots
    <2>4. UsedCountsSlots'
      BY <1>0, <2>1, <2>3, OccupiedFinite, FS_RemoveElement DEF UsedCountsSlots
    <2>5. used = Cap
      BY <1>0, <1>4, FullIffAllOccupied DEF EvictsFor
    <2>6. TypeOK'
      BY <1>0, <1>1, <1>2, <2>1, <2>5, RecordAccessTyped DEF TypeOK
    <2>7. MapInjective' /\ SlotHoldsItsExpert'
      BY <1>0, <1>4, <2>1 DEF TypeOK, MapInjective, SlotHoldsItsExpert, Cached, EvictsFor,
                        NoSlot, Slots
    <2>8. FreeSlotsAreCold'
      BY <1>0, <2>1, <2>2 DEF FreeSlotsAreCold, TypeOK, Slots
    <2> QED
      BY <1>1, <2>4, <2>6, <2>7, <2>8 DEF IInv, PreloadFillsInOrder, ExpandsCachedOnly
  <1> QED
    BY <1>0, <1>3, <1>4, TargetIsVacant

LEMMA NextIInv == IInv /\ [CacheNext]_cacheVars => IInv'
  <1> SUFFICES ASSUME IInv, [CacheNext]_cacheVars PROVE IInv'
    OBVIOUS
  <1>1. ASSUME NEW e \in Experts, Install(e, Bytes(e, ReadEncoding(e)))
        PROVE  IInv'
    <2>1. Bytes(e, ReadEncoding(e)) \in Contents /\ Bytes(e, ReadEncoding(e)).of = e
      BY DEF Bytes, ReadEncoding, Contents, Encodings
    <2> QED
      BY <1>1, <2>1, InstallIInv
  <1>2. CASE UNCHANGED cacheVars
    BY <1>2 DEF cacheVars, IInv, TypeOK, MapInjective, UsedCountsSlots, FreeSlotsAreCold,
      SlotHoldsItsExpert, PreloadFillsInOrder, ExpandsCachedOnly, OccupiedSlots, Occupied,
      Cached
  <1> QED
    BY <1>1, <1>2, PreloadIInv, PreloadEndIInv, ExpandIInv, ExpandEndIInv, HitIInv,
      InstallFailsIInv, WindowEndIInv DEF CacheNext

LEMMA CacheInvariant == CacheSpec => []IInv
  BY InitIInv, NextIInv, PTL DEF CacheSpec
-----------------------------------------------------------------------------
(* What follows of the behaviour of the cache.                             *)

\* Every variable keeps its range; the slot counter stays within the slots.
THEOREM CacheTypeCorrect == CacheSpec => []TypeOK
  BY CacheInvariant, PTL DEF IInv

\* No two experts share a slot, exp_cache_used counts the slots in use, and
\* the scan for a free slot never overlooks one.
THEOREM SlotsAccountedFor == CacheSpec => []SlotsAgree
  BY CacheInvariant, PTL DEF IInv, SlotsAgree

\* What the layer reads through exp_cache_map is the expert it asked for.
THEOREM CachedBytesAreTheExperts == CacheSpec => []SlotHoldsItsExpert
  BY CacheInvariant, PTL DEF IInv
-----------------------------------------------------------------------------
(* How the map may change, and the residency discipline it implements.     *)

Admits(e, s) ==
  ~ Cached(e) /\ ~ Occupied(s) /\ map' = [map EXCEPT ![e] = s]

Replaces(v, e, s) ==
  /\ OccupiedSlots = Slots
  /\ map[v] = s /\ ~ Cached(e)
  /\ map' = [[map EXCEPT ![v] = NoSlot] EXCEPT ![e] = s]

Loses(v) ==
  OccupiedSlots = Slots /\ Cached(v) /\ map' = [map EXCEPT ![v] = NoSlot]

LEMMA MapStep ==
  ASSUME IInv, [CacheNext]_cacheVars
  PROVE  \/ map' = map
         \/ \E e \in Experts, s \in Slots : Admits(e, s)
         \/ \E v, e \in Experts, s \in Slots : Replaces(v, e, s)
         \/ \E v \in Experts : Loses(v)
  <1> DEFINE Goal == \/ map' = map
                     \/ \E e \in Experts, s \in Slots : Admits(e, s)
                     \/ \E v, e \in Experts, s \in Slots : Replaces(v, e, s)
                     \/ \E v \in Experts : Loses(v)
  <1>0. TypeOK /\ MapInjective /\ UsedCountsSlots /\ FreeSlotsAreCold
    BY DEF IInv
  <1>1. ASSUME NEW e \in Experts, Preload(e)
        PROVE  Goal
    <2>1. used \in Slots /\ ~ Cached(e) /\ ~ Occupied(used)
      BY <1>1, CacheAssumption DEF IInv, Preload, PreloadFillsInOrder, TypeOK, Slots
    <2> QED
      BY <1>1, <2>1 DEF Preload, Admits
  <1>2. ASSUME NEW e \in Experts, NEW b, Install(e, b)
        PROVE  Goal
    <2>1. PICK s \in Slots : IsTarget(s) /\ map' = [VacatedMap(s) EXCEPT ![e] = s]
      BY <1>2 DEF Install
    <2>2. ~ Cached(e)
      BY <1>2 DEF Install
    <2>3. CASE TakesFree(s)
      BY <2>1, <2>2, <2>3 DEF TakesFree, Admits
    <2>4. ASSUME NEW v \in Experts, EvictsFor(s, v)
          PROVE  Goal
      <3>1. Replaces(v, e, s)
        BY <2>1, <2>2, <2>4 DEF EvictsFor, Replaces
      <3> QED
        BY <3>1
    <2> QED
      BY <1>0, <2>1, <2>3, <2>4, TargetIsVacant
  <1>3. ASSUME NEW e \in Experts, InstallFails(e)
        PROVE  Goal
    <2>1. PICK s \in Slots : IsTarget(s) /\ map' = VacatedMap(s)
      BY <1>3 DEF InstallFails
    <2>2. ASSUME NEW v \in Experts, EvictsFor(s, v)
          PROVE  Loses(v)
      BY <2>1, <2>2 DEF EvictsFor, Loses, Cached, NoSlot, Slots
    <2> QED
      BY <1>0, <2>1, <2>2, TargetIsVacant DEF TakesFree
  <1>4. CASE \/ PreloadEnd \/ ExpandEnd \/ WindowEnd \/ UNCHANGED cacheVars
             \/ \E e \in Experts : Expand(e) \/ Hit(e)
    BY <1>4 DEF PreloadEnd, ExpandEnd, WindowEnd, cacheVars, Expand, Hit
  <1> QED
    BY <1>1, <1>2, <1>3, <1>4 DEF CacheNext

\* An expert is only ever evicted from a full cache, and alone.
THEOREM EvictsOnlyWhenFull == CacheSpec => EvictOnlyWhenFull
  <1> DEFINE Evicts ==
        \A e \in Experts : Cached(e) /\ map'[e] # map[e] =>
          /\ OccupiedSlots = Slots
          /\ map'[e] = NoSlot
          /\ \A f \in Experts \ {e} : Cached(f) => map'[f] = map[f]
  <1>1. IInv /\ [CacheNext]_cacheVars => Evicts
    <2> SUFFICES ASSUME IInv, [CacheNext]_cacheVars PROVE Evicts
      OBVIOUS
    <2>1. map \in [Experts -> Slots \cup {NoSlot}]
      BY DEF IInv, TypeOK
    <2>2. ASSUME NEW e \in Experts, NEW s \in Slots, Admits(e, s)
          PROVE  Evicts
      BY <2>1, <2>2 DEF Admits, Cached
    <2>3. ASSUME NEW v \in Experts, NEW e \in Experts, NEW s \in Slots, Replaces(v, e, s)
          PROVE  Evicts
      BY <2>1, <2>3 DEF Replaces, Cached, NoSlot, Slots
    <2>4. ASSUME NEW v \in Experts, Loses(v)
          PROVE  Evicts
      BY <2>1, <2>4 DEF Loses, Cached
    <2> QED
      BY <2>2, <2>3, <2>4, MapStep
  <1> QED
    BY <1>1, CacheInvariant, PTL DEF CacheSpec, EvictOnlyWhenFull

\* There are as many resident experts as slots in use.
LEMMA ResidentCount ==
  ASSUME TypeOK, MapInjective, UsedCountsSlots
  PROVE  /\ IsFiniteSet(Resident)
         /\ Cardinality(Resident) = Cap <=> OccupiedSlots = Slots
  <1> DEFINE F == [e \in Resident |-> map[e]]
  <1>1. IsFiniteSet(Resident)
    BY CacheAssumption, FS_Subset DEF Resident
  <1>2. F \in [Resident -> OccupiedSlots]
    BY DEF TypeOK, Resident, OccupiedSlots, Occupied, Cached
  <1>3. \A e, f \in Resident : F[e] = F[f] => e = f
    BY DEF Resident, MapInjective
  <1>4. \A s \in OccupiedSlots : \E e \in Resident : F[e] = s
    <2>1. TAKE s \in OccupiedSlots
    <2>2. PICK e \in Experts : map[e] = s
      BY DEF OccupiedSlots, Occupied
    <2>3. e \in Resident
      BY <2>2 DEF Resident, Cached, OccupiedSlots, Slots, NoSlot
    <2> QED
      BY <2>2, <2>3
  <1>5. F \in Bijection(Resident, OccupiedSlots)
    BY <1>2, <1>3, <1>4 DEF Bijection, Injection, Surjection, IsInjective
  <1>6. Cardinality(Resident) = Cardinality(OccupiedSlots)
    BY <1>1, <1>5, FS_Bijection DEF ExistsBijection
  <1> QED
    BY <1>1, <1>6, FullIffAllOccupied DEF UsedCountsSlots

\* The cache, with its slots, heat and failures, implements the residency
\* discipline.
THEOREM CacheImplementsResidency == CacheSpec => ImplementsResidency
  <1>1. CacheInit => R!ResidencyInit
    BY DEF CacheInit, R!ResidencyInit, Resident, Cached
  <1>2. IInv /\ [CacheNext]_cacheVars => [R!ResidencyNext]_Resident
    <2> SUFFICES ASSUME IInv, [CacheNext]_cacheVars
                 PROVE  R!ResidencyNext \/ Resident' = Resident
      OBVIOUS
    <2>1. map \in [Experts -> Slots \cup {NoSlot}]
      BY DEF IInv, TypeOK
    <2>2. R!Full <=> OccupiedSlots = Slots
      <3>1. TypeOK /\ MapInjective /\ UsedCountsSlots
        BY DEF IInv
      <3>2. Cardinality(Resident) = Cap <=> OccupiedSlots = Slots
        BY <3>1, ResidentCount
      <3> QED
        BY <3>2 DEF R!Full, Cardinality, R!Cardinality
    <2>3. CASE map' = map
      BY <2>3 DEF Resident, Cached
    <2>4. ASSUME NEW e \in Experts, NEW s \in Slots, Admits(e, s)
          PROVE  R!Admit(e)
      <3>1. Resident' = Resident \cup {e}
        BY <2>1, <2>4 DEF Admits, Resident, Cached, NoSlot, Slots
      <3>2. e \notin Resident /\ s \notin OccupiedSlots
        BY <2>4 DEF Admits, Resident, OccupiedSlots
      <3> QED
        BY <2>2, <3>1, <3>2 DEF R!Admit
    <2>5. ASSUME NEW v \in Experts, NEW e \in Experts, NEW s \in Slots, Replaces(v, e, s)
          PROVE  R!Replace(v, e)
      <3>1. v \in Resident /\ e \notin Resident
        BY <2>5 DEF Replaces, Resident, Cached, NoSlot, Slots
      <3>2. Resident' = (Resident \ {v}) \cup {e}
        BY <2>1, <2>5 DEF Replaces, Resident, Cached, NoSlot, Slots
      <3> QED
        BY <2>2, <2>5, <3>1, <3>2 DEF R!Replace, Replaces
    <2>6. ASSUME NEW v \in Experts, Loses(v)
          PROVE  R!Lose(v)
      <3>1. v \in Resident /\ Resident' = Resident \ {v}
        BY <2>1, <2>6 DEF Loses, Resident, Cached
      <3> QED
        BY <2>2, <2>6, <3>1 DEF R!Lose, Loses
    <2> QED
      BY <2>3, <2>4, <2>5, <2>6, MapStep DEF R!ResidencyNext
  <1> QED
    BY <1>1, <1>2, CacheInvariant, PTL DEF CacheSpec, ImplementsResidency, R!ResidencySpec

-------------------------------------------------------------------------------
(* The threads.                                                               *)
(*                                                                            *)
(* The inductive invariant relates the two program counters, the fields that  *)
(* pf_lock guards, the place of the loop and the positions of the handles.    *)

Busy == wpc \in {"seek", "read", "publish"}

\* All three matrices of an expert, as they are in its file.
WholeExpert(e) == Bytes(e, ReadEncoding(e))

\* A job is that of the expert being prefetched, whose turn is yet to come or
\* is being waited for; the reader works on nothing else.
JobIsPending ==
  /\ wpc \in {"seek", "read"} => job = pfState
  /\ Busy => pfState # Idle
  /\ pfState # Idle =>
       /\ ~ pfReady
       /\ pfk # 0
       /\ pfState = top[pfk]
       /\ pfk > k \/ (pfk = k /\ pc \in {"expert", "wait", "asleep"})

\* Where the loop is when the inference thread is at a place in it.
LoopIsWhere ==
  /\ pc \in {"boundary", "wake", "join", "freed"} => pfk = 0
  /\ pc \in {"expert", "wait", "asleep", "copy", "ensure", "read"} => k # 0
  /\ pc \in {"wait", "asleep", "copy", "nextpf"} => pfk = k
  /\ pc = "copy" => pfReady
  /\ pc = "layerend" => k = NAct

\* What was read is what was asked for, until the buffer is used again.
BufferIsForJob ==
  /\ wpc = "publish" /\ wok => pfBuf = WholeExpert(pfState)
  /\ pfReady /\ pfk # 0 => pfBuf = WholeExpert(top[pfk])

\* Between a seek and its read the handle belongs to one thread, and is where
\* that thread left it.
HandlesStay ==
  /\ pc = "read" => fpos[File(top[k])] = top[k]
  /\ wpc = "read" => fpos[File(job)] = job
  /\ pc = "read" /\ wpc = "read" => File(top[k]) # File(job)

ThreadsInv ==
  /\ PfTypeOK
  /\ JobIsPending
  /\ LoopIsWhere
  /\ BufferIsForJob
  /\ HandlesStay

-------------------------------------------------------------------------------
LEMMA FilesAreEncodings == \A e \in Experts : File(e) \in Encodings
  BY DEF File, ReadEncoding, Encodings

LEMMA WholeIsContents == \A e \in Experts : WholeExpert(e) \in Contents
  BY DEF WholeExpert, Bytes, ReadEncoding, Contents, Encodings

LEMMA NothingIsContents == Nothing \in Contents
  BY DEF Nothing, Bytes, Contents, Encodings

LEMMA NoSelectionTyped ==
  ASSUME NEW l \in 0 .. NLayers - 1
  PROVE  NoSelection(l) \in [1 .. NAct -> Experts]
  BY PrefetchAssumption DEF NoSelection

LEMMA NextLayerTyped ==
  ASSUME NEW l \in 0 .. NLayers - 1
  PROVE  (l + 1) % NLayers \in 0 .. NLayers - 1
  BY PrefetchAssumption

-------------------------------------------------------------------------------
LEMMA InitThreads == Init => ThreadsInv
  <1> SUFFICES ASSUME Init PROVE ThreadsInv
    OBVIOUS
  <1>1. 0 \in 0 .. NLayers - 1 /\ 0 \in 0 .. NAct /\ 0 \in 0 .. Window - 1
    BY PrefetchAssumption
  <1>2. PfTypeOK
    <2>1. top \in [1 .. NAct -> Experts] /\ pfBuf \in Contents
      BY <1>1, NoSelectionTyped, NothingIsContents DEF Init
    <2>2. spurious \in 0 .. MaxSpurious
      BY PrefetchAssumption DEF Init
    <2>3. /\ needs \in [1 .. NAct -> BOOLEAN]
          /\ fpos \in [Encodings -> Experts \cup {NoExpert}]
      BY DEF Init
    <2> QED
      BY <1>1, <2>1, <2>2, <2>3 DEF Init, PfTypeOK
  <1> QED
    BY <1>2 DEF Init, ThreadsInv, JobIsPending, LoopIsWhere, BufferIsForJob, HandlesStay, Busy

\* The inference thread between two layers and while it frees the context.
LEMMA BetweenThreads ==
  ThreadsInv /\ (BetweenLayers \/ FreeSetExit \/ FreeWake \/ FreeJoin) => ThreadsInv'
  <1> SUFFICES ASSUME ThreadsInv, BetweenLayers \/ FreeSetExit \/ FreeWake \/ FreeJoin
               PROVE  ThreadsInv'
    OBVIOUS
  <1> USE DEF ThreadsInv, JobIsPending, LoopIsWhere, BufferIsForJob, HandlesStay, Busy
  <1>1. CASE BetweenLayers
    BY <1>1 DEF BetweenLayers, mainVars, readerVars, PfTypeOK, File
  <1>2. CASE FreeSetExit
    BY <1>2 DEF FreeSetExit, PfTypeOK, File
  <1>3. CASE FreeWake
    BY <1>3 DEF FreeWake, WakeReader, PfTypeOK, File
  <1>4. CASE FreeJoin
    BY <1>4 DEF FreeJoin, readerVars, PfTypeOK, File
  <1> QED
    BY <1>1, <1>2, <1>3, <1>4

\* A layer starts: nothing is being prefetched.
LEMMA StartThreads ==
  ASSUME ThreadsInv, NEW t \in Selections(layer), StartLayer(t)
  PROVE  ThreadsInv'
  <1> USE DEF ThreadsInv, JobIsPending, LoopIsWhere, BufferIsForJob, HandlesStay, Busy
  <1>1. t \in [1 .. NAct -> Experts]
    BY DEF Selections
  <1>2. 1 \in 0 .. NAct /\ 0 \in 0 .. NAct
    BY PrefetchAssumption
  <1>3. PfTypeOK'
    BY <1>1, <1>2 DEF StartLayer, readerVars, PfTypeOK
  <1> QED
    BY <1>1, <1>3 DEF StartLayer, readerVars, PfTypeOK, File

\* The next job is posted, or there is none to post.
LEMMA NextPfThreads ==
  ThreadsInv /\ (StartNextPf \/ NoNextPf) => ThreadsInv'
  <1> SUFFICES ASSUME ThreadsInv, StartNextPf \/ NoNextPf PROVE ThreadsInv'
    OBVIOUS
  <1> USE DEF ThreadsInv, JobIsPending, LoopIsWhere, BufferIsForJob, HandlesStay, Busy
  <1> NAct \in Nat \ {0}
    BY PrefetchAssumption
  <1>1. pfState = Idle /\ ~ Busy
    BY DEF StartNextPf, NoNextPf, PfTypeOK
  <1>2. CASE NoNextPf
    <2>1. PfTypeOK'
      BY <1>2 DEF NoNextPf, AfterNextPf, Advance, readerVars, PfTypeOK
    <2> QED
      BY <1>1, <1>2, <2>1 DEF NoNextPf, AfterNextPf, Advance, readerVars, PfTypeOK
  <1>3. CASE StartNextPf
    <2>1. PICK i \in 1 .. NAct : IsNextMissing(i) /\ PfStart(i)
      BY <1>3 DEF StartNextPf
    <2>2. i > k /\ top[i] \in Experts /\ top[i] # Idle
      BY <2>1, PrefetchAssumption DEF IsNextMissing, PfTypeOK
    <2>3. k # NAct /\ pc' \in {"fallback", "expert"} /\ k' \in {k, k + 1}
          /\ (pc' = "expert" => k' = k + 1) /\ i >= k'
          /\ (k' = i => pc' = "expert")
      BY <1>3, <2>2 DEF StartNextPf, AfterNextPf, Advance, PfTypeOK
    <2>4. PfTypeOK'
      <3>1. /\ pfState' \in Experts \cup {Idle}
            /\ pfReady' \in BOOLEAN
            /\ pfk' \in 0 .. NAct
        <4>1. pfState' = top[i] /\ pfReady' = FALSE /\ pfk' = i
          BY <2>1 DEF PfStart
        <4>2. i \in 0 .. NAct
          BY <2>1
        <4> QED
          BY <2>2, <4>1, <4>2
      <3>2. pc' \in {"fallback", "expert"} /\ k' \in 0 .. NAct
        BY <2>2, <2>3 DEF PfTypeOK
      <3>3. wpc' \in {"none", "top", "presleep", "asleep", "seek", "read", "publish", "exited"}
        BY <2>1 DEF PfStart, WakeReader, PfTypeOK
      <3> QED
        BY <1>3, <2>1, <3>1, <3>2, <3>3
        DEF StartNextPf, AfterNextPf, PfStart, PfTypeOK
    <2> QED
      BY <1>1, <1>3, <2>1, <2>2, <2>3, <2>4
      DEF StartNextPf, AfterNextPf, PfStart, WakeReader, PfTypeOK
  <1> QED
    BY <1>2, <1>3

\* The inference thread waits for the buffer.
LEMMA WaitThreads ==
  /\ ThreadsInv
  /\ BeginWait \/ WaitReady \/ WaitFailed \/ WaitSleep \/ WaitSpurious
  => ThreadsInv'
  <1> SUFFICES ASSUME ThreadsInv,
                      BeginWait \/ WaitReady \/ WaitFailed \/ WaitSleep \/ WaitSpurious
               PROVE  ThreadsInv'
    OBVIOUS
  <1> USE DEF ThreadsInv, JobIsPending, LoopIsWhere, BufferIsForJob, HandlesStay, Busy
  <1>1. CASE BeginWait
    BY <1>1 DEF BeginWait, MustWait, readerVars, PfTypeOK, File
  <1>2. CASE WaitReady
    BY <1>2 DEF WaitReady, readerVars, PfTypeOK, File
  <1>3. CASE WaitFailed
    BY <1>3 DEF WaitFailed, readerVars, PfTypeOK, File
  <1>4. CASE WaitSleep
    BY <1>4 DEF WaitSleep, readerVars, PfTypeOK, File
  <1>5. CASE WaitSpurious
    BY <1>5, PrefetchAssumption DEF WaitSpurious, PfTypeOK, File
  <1> QED
    BY <1>1, <1>2, <1>3, <1>4, <1>5

\* The end of exp_cache_ensure leaves the loop where it should be; the handle
\* is moved only when it is the one that was read.
LEMMA EnsureDoneThreads ==
  ASSUME ThreadsInv, NEW m \in BOOLEAN, EnsureDone(m),
         pc \in {"expert", "copy", "ensure", "read"},
         pc = "expert" => pfk # k,
         (pc = "read" /\ fpos' = Moved(File(top[k]))) \/ UNCHANGED fpos
  PROVE  ThreadsInv'
  <1> USE DEF ThreadsInv, JobIsPending, LoopIsWhere, BufferIsForJob, HandlesStay, Busy
  <1> NAct \in Nat \ {0}
    BY PrefetchAssumption
  <1>1. /\ pc' \in {"nextpf", "fallback", "layerend", "expert"}
        /\ k' \in 0 .. NAct
        /\ pc' = "nextpf" => pfk = k /\ k' = k
        /\ pc' = "fallback" => k' = k
        /\ pc' = "layerend" => k' = k /\ k = NAct
        /\ pc' = "expert" => k' = k + 1
        /\ pfk = k => pc' = "nextpf"
    BY DEF EnsureDone, Advance, PfTypeOK
  <1>2. fpos' \in [Encodings -> Experts \cup {NoExpert}]
    BY DEF Moved, PfTypeOK
  <1>3. PfTypeOK'
    BY <1>1, <1>2 DEF EnsureDone, readerVars, PfTypeOK
  <1>4. JobIsPending' /\ LoopIsWhere' /\ BufferIsForJob'
    BY <1>1 DEF EnsureDone, readerVars, PfTypeOK
  <1>5. HandlesStay'
    BY <1>1, FilesAreEncodings, PrefetchAssumption
    DEF EnsureDone, readerVars, Moved, PfTypeOK
  <1> QED
    BY <1>3, <1>4, <1>5

LEMMA EnsureThreads ==
  /\ ThreadsInv
  /\ CopyPrefetched \/ EnsureHit \/ EnsureSeek \/ EnsureRead \/ EnsureReadFails
  => ThreadsInv'
  <1> SUFFICES ASSUME ThreadsInv,
                      \/ CopyPrefetched \/ EnsureHit \/ EnsureSeek
                      \/ EnsureRead \/ EnsureReadFails
               PROVE  ThreadsInv'
    OBVIOUS
  <1>1. CASE CopyPrefetched
    BY <1>1, EnsureDoneThreads DEF CopyPrefetched
  <1>2. CASE EnsureHit
    BY <1>2, EnsureDoneThreads DEF EnsureHit, EnsureEntered, MustWait
  <1>3. CASE EnsureRead
    BY <1>3, EnsureDoneThreads DEF EnsureRead
  <1>4. CASE EnsureReadFails
    BY <1>4, EnsureDoneThreads DEF EnsureReadFails
  <1>5. CASE EnsureSeek
    <2> USE DEF ThreadsInv, JobIsPending, LoopIsWhere, BufferIsForJob, HandlesStay, Busy
    <2>1. k \in 1 .. NAct /\ top[k] \in Experts /\ File(top[k]) \in Encodings
      BY <1>5, FilesAreEncodings, PrefetchAssumption
      DEF EnsureSeek, EnsureEntered, PfTypeOK
    <2>2. PfTypeOK'
      BY <1>5, <2>1 DEF EnsureSeek, readerVars, PfTypeOK
    <2>3. JobIsPending' /\ LoopIsWhere' /\ BufferIsForJob'
      BY <1>5, <2>1 DEF EnsureSeek, EnsureEntered, MustWait, readerVars, PfTypeOK
    <2>4. HandlesStay'
      BY <1>5, <2>1 DEF EnsureSeek, IoFree, readerVars, PfTypeOK, File
    <2> QED
      BY <2>2, <2>3, <2>4
  <1> QED
    BY <1>1, <1>2, <1>3, <1>4, <1>5

LEMMA FallbackThreads == ThreadsInv /\ Fallback => ThreadsInv'
  <1> SUFFICES ASSUME ThreadsInv, Fallback PROVE ThreadsInv'
    OBVIOUS
  <1> USE DEF ThreadsInv, JobIsPending, LoopIsWhere, BufferIsForJob, HandlesStay, Busy
  <1> NAct \in Nat \ {0}
    BY PrefetchAssumption
  <1>1. PfTypeOK'
    <2>1. pc' \in {"layerend", "expert"} /\ k' \in 0 .. NAct
      BY DEF Fallback, Advance, PfTypeOK
    <2>2. fpos' \in [Encodings -> Experts \cup {NoExpert}]
      BY DEF Fallback, Moved, PfTypeOK
    <2> QED
      BY <2>1, <2>2 DEF Fallback, readerVars, PfTypeOK
  <1>2. JobIsPending' /\ LoopIsWhere' /\ BufferIsForJob'
    BY DEF Fallback, Advance, readerVars, PfTypeOK
  <1>3. HandlesStay'
    BY DEF Fallback, Advance, Moved, IoFree, readerVars, PfTypeOK, File
  <1> QED
    BY <1>1, <1>2, <1>3

LEMMA LayerEndThreads == ThreadsInv /\ LayerEnd => ThreadsInv'
  <1> SUFFICES ASSUME ThreadsInv, LayerEnd PROVE ThreadsInv'
    OBVIOUS
  <1> USE DEF ThreadsInv, JobIsPending, LoopIsWhere, BufferIsForJob, HandlesStay, Busy
  <1> NAct \in Nat \ {0}
    BY PrefetchAssumption
  <1>1. pfState = Idle
    BY DEF LayerEnd, PfTypeOK
  <1>2. layer' \in 0 .. NLayers - 1
    BY NextLayerTyped DEF LayerEnd, PfTypeOK
  <1>3. top' \in [1 .. NAct -> Experts] /\ needs' \in [1 .. NAct -> BOOLEAN]
    BY <1>2, NoSelectionTyped DEF LayerEnd
  <1>4. inWindow' \in 0 .. Window - 1 /\ tokens' \in Nat
    <2>1. Window \in Nat \ {0} /\ inWindow \in 0 .. Window - 1 /\ tokens \in Nat
      BY PrefetchAssumption DEF PfTypeOK
    <2>2. CASE inWindow + 1 >= Window
      BY <2>1, <2>2 DEF LayerEnd, CountInWindow
    <2>3. CASE ~ (inWindow + 1 >= Window)
      BY <2>1, <2>3 DEF LayerEnd, CountInWindow
    <2> QED
      BY <2>2, <2>3
  <1>5. PfTypeOK'
    BY <1>2, <1>3, <1>4 DEF LayerEnd, readerVars, PfTypeOK
  <1> QED
    BY <1>1, <1>5 DEF LayerEnd, readerVars, PfTypeOK

\* The reader thread.
LEMMA ReaderThreads ==
  ThreadsInv /\ (ReaderStep \/ ReaderSpurious) => ThreadsInv'
  <1> SUFFICES ASSUME ThreadsInv, ReaderStep \/ ReaderSpurious PROVE ThreadsInv'
    OBVIOUS
  <1> USE DEF ThreadsInv, JobIsPending, LoopIsWhere, BufferIsForJob, HandlesStay, Busy
  <1>1. CASE ReaderTest
    BY <1>1 DEF ReaderTest, ReaderKeeps, PfTypeOK, File
  <1>2. CASE ReaderSleep
    BY <1>2 DEF ReaderSleep, ReaderKeeps, PfTypeOK, File
  <1>3. CASE ReaderSpurious
    BY <1>3, PrefetchAssumption DEF ReaderSpurious, ReaderKeeps, PfTypeOK, File
  <1>4. CASE ReaderSeek
    <2>1. job \in Experts /\ job = pfState /\ File(job) \in Encodings
      BY <1>4, FilesAreEncodings DEF ReaderSeek, PfTypeOK
    <2> QED
      BY <1>4, <2>1 DEF ReaderSeek, IoFree, ReaderKeeps, PfTypeOK, File
  <1>5. CASE ReaderRead
    <2>1. job \in Experts /\ job = pfState /\ pfState # Idle /\ ~ pfReady
      BY <1>5 DEF ReaderRead, PfTypeOK
    <2>2. File(job) \in Encodings /\ fpos[File(job)] = job
      BY <1>5, <2>1, FilesAreEncodings DEF ReaderRead
    <2>3. /\ pfBuf' \in {WholeExpert(job), Nothing}
          /\ wok' \in BOOLEAN
          /\ wok' => pfBuf' = WholeExpert(job)
      BY <1>5, <2>2 DEF ReaderRead, WholeExpert, File
    <2>4. PfTypeOK'
      BY <1>5, <2>1, <2>3, WholeIsContents, NothingIsContents
      DEF ReaderRead, ReaderKeeps, Moved, PfTypeOK
    <2>5. JobIsPending' /\ LoopIsWhere'
      BY <1>5, <2>1 DEF ReaderRead, ReaderKeeps
    <2>6. BufferIsForJob'
      BY <1>5, <2>1, <2>3 DEF ReaderRead, ReaderKeeps
    <2>7. HandlesStay'
      BY <1>5, <2>1, <2>2 DEF ReaderRead, ReaderKeeps, Moved, PfTypeOK, File
    <2> QED
      BY <2>4, <2>5, <2>6, <2>7
  <1>6. CASE ReaderPublish
    BY <1>6 DEF ReaderPublish, ReaderKeeps, PfTypeOK, File
  <1> QED
    BY <1>1, <1>2, <1>3, <1>4, <1>5, <1>6 DEF ReaderStep

-------------------------------------------------------------------------------
LEMMA NextThreads == ThreadsInv /\ [Next]_vars => ThreadsInv'
  <1> SUFFICES ASSUME ThreadsInv, [Next]_vars PROVE ThreadsInv'
    OBVIOUS
  <1>1. CASE UNCHANGED vars
    BY <1>1
    DEF vars, mainVars, readerVars, ThreadsInv, PfTypeOK, JobIsPending, LoopIsWhere,
        BufferIsForJob, HandlesStay, Busy, File
  <1>2. CASE Next
    BY <1>1, <1>2, BetweenThreads, StartThreads, NextPfThreads, WaitThreads, EnsureThreads,
       FallbackThreads, LayerEndThreads, ReaderThreads
    DEF Next, InLayerStep, FreeStep, Stopped
  <1> QED
    BY <1>1, <1>2

\* The types, the places of both threads, the job and the handles' positions
\* are an invariant of the two threads.
THEOREM ThreadsInvariant == Spec => []ThreadsInv
  BY InitThreads, NextThreads, PTL DEF Spec

\* A buffer that pf_wait hands over (ds4_forward.c:1250) is not being written
\* by the reader while it is copied outside the lock.
THEOREM BufferIsNotShared == Spec => []BufferNotShared
  <1>1. ThreadsInv => BufferNotShared
    BY DEF ThreadsInv, JobIsPending, LoopIsWhere, BufferNotShared, Busy
  <1> QED
    BY <1>1, ThreadsInvariant, PTL

\* A buffer that is handed over holds the whole expert whose turn it is,
\* whatever the two threads' seeks and reads on shared handles did.
THEOREM HandoverIsWhole == Spec => []PrefetchInv
  <1>1. ThreadsInv => PrefetchInv
    BY DEF ThreadsInv, LoopIsWhere, BufferIsForJob, PrefetchInv, HandoverIsForExpert,
           WholeExpert
  <1> QED
    BY <1>1, ThreadsInvariant, PTL

\* Nothing is being prefetched between layers and while the context is freed.
THEOREM NothingInFlight == Spec => []QuietBetweenLayers
  <1>1. ThreadsInv => QuietBetweenLayers
    BY DEF ThreadsInv, JobIsPending, LoopIsWhere, QuietBetweenLayers, Busy
  <1> QED
    BY <1>1, ThreadsInvariant, PTL

\* A job is posted only when there is none.
LEMMA PostsWhenIdle ==
  ASSUME ThreadsInv, [Next]_vars, pfState' \notin {pfState, Idle}
  PROVE  pfState = Idle /\ ~ Busy
  <1>1. ~ UNCHANGED <<pfState>>
    OBVIOUS
  <1>2. CASE StartNextPf
    BY <1>2
    DEF StartNextPf, ThreadsInv, JobIsPending, LoopIsWhere, PfTypeOK
  <1>3. CASE \E t \in Selections(layer) : StartLayer(t)
    BY <1>1, <1>3 DEF StartLayer, readerVars
  <1>4. CASE BetweenLayers \/ FreeSetExit \/ FreeStep \/ Stopped \/ UNCHANGED vars
    BY <1>1, <1>4
    DEF BetweenLayers, FreeSetExit, FreeStep, FreeWake, FreeJoin, Stopped, vars, readerVars
  <1>5. CASE NoNextPf \/ BeginWait \/ WaitReady \/ WaitFailed \/ WaitSleep \/ WaitSpurious
    BY <1>1, <1>5
    DEF NoNextPf, BeginWait, WaitReady, WaitFailed, WaitSleep, WaitSpurious, readerVars
  <1>6. CASE CopyPrefetched \/ EnsureHit \/ EnsureSeek \/ EnsureRead \/ EnsureReadFails
    BY <1>1, <1>6
    DEF CopyPrefetched, EnsureHit, EnsureSeek, EnsureRead, EnsureReadFails, EnsureDone, readerVars
  <1>7. CASE Fallback \/ LayerEnd
    BY <1>1, <1>7 DEF Fallback, LayerEnd, readerVars
  <1>8. CASE ReaderStep \/ ReaderSpurious
    BY <1>1, <1>8
    DEF ReaderStep, ReaderTest, ReaderSleep, ReaderSeek, ReaderRead, ReaderPublish,
        ReaderSpurious
  <1> QED
    BY <1>2, <1>3, <1>4, <1>5, <1>6, <1>7, <1>8 DEF Next, InLayerStep

\* No job is dropped or overwritten: pf_start (ds4_forward.c:1237) is only
\* called when the reader has none.
THEOREM JobsAreNotLost == Spec => OneJobAtATime
  <1>1. ThreadsInv /\ [Next]_vars =>
          [pfState' \notin {pfState, Idle} =>
             pfState = Idle /\ wpc \notin {"seek", "read", "publish"}]_vars
    BY PostsWhenIdle DEF Busy
  <1> QED
    BY <1>1, ThreadsInvariant, PTL DEF Spec, OneJobAtATime

-------------------------------------------------------------------------------
(* The cache under both threads.                                              *)

\* What exp_cache_ensure does to the cache is a hit, a load of the expert's
\* own bytes, or a load that failed.
LEMMA EnsureIsCacheStep ==
  /\ ThreadsInv
  /\ CopyPrefetched \/ EnsureHit \/ EnsureRead \/ EnsureReadFails
  => CacheNext
  <1> SUFFICES ASSUME ThreadsInv,
                      CopyPrefetched \/ EnsureHit \/ EnsureRead \/ EnsureReadFails
               PROVE  CacheNext
    OBVIOUS
  <1>1. k \in 1 .. NAct /\ top[k] \in Experts
    <2>1. pc \in {"copy", "ensure", "expert", "read"}
      BY DEF CopyPrefetched, EnsureHit, EnsureEntered, EnsureRead, EnsureReadFails
    <2>2. k # 0 /\ k \in 0 .. NAct /\ top \in [1 .. NAct -> Experts]
      BY <2>1 DEF ThreadsInv, LoopIsWhere, PfTypeOK
    <2> QED
      BY <2>2, PrefetchAssumption
  <1>2. CASE CopyPrefetched
    <2>1. pfBuf = Bytes(top[k], ReadEncoding(top[k]))
      BY <1>1, <1>2
      DEF CopyPrefetched, ThreadsInv, LoopIsWhere, BufferIsForJob, WholeExpert
    <2> QED
      BY <1>1, <1>2, <2>1 DEF CopyPrefetched, CacheNext
  <1>3. CASE EnsureHit
    BY <1>1, <1>3 DEF EnsureHit, CacheNext
  <1>4. CASE EnsureRead
    <2>1. Install(top[k], Bytes(top[k], ReadEncoding(top[k])))
      BY <1>4 DEF EnsureRead, ThreadsInv, HandlesStay, File
    <2> QED
      BY <1>1, <2>1 DEF CacheNext
  <1>5. CASE EnsureReadFails
    BY <1>1, <1>5 DEF EnsureReadFails, CacheNext
  <1> QED
    BY <1>2, <1>3, <1>4, <1>5

LEMMA StepIsCacheStep == ThreadsInv /\ [Next]_vars => [CacheNext]_cacheVars
  <1> SUFFICES ASSUME ThreadsInv, [Next]_vars PROVE CacheNext \/ UNCHANGED cacheVars
    BY DEF cacheVars
  <1>1. CASE BetweenLayers
    BY <1>1 DEF BetweenLayers, CacheNext
  <1>2. CASE CopyPrefetched \/ EnsureHit \/ EnsureRead \/ EnsureReadFails
    BY <1>2, EnsureIsCacheStep
  <1>3. CASE LayerEnd
    BY <1>3 DEF LayerEnd, CountInWindow, CacheNext
  <1>4. CASE (\E t \in Selections(layer) : StartLayer(t)) \/ StartNextPf \/ NoNextPf
    BY <1>4 DEF StartLayer, StartNextPf, NoNextPf, AfterNextPf
  <1>5. CASE \/ BeginWait \/ WaitReady \/ WaitFailed \/ WaitSleep \/ WaitSpurious
             \/ EnsureSeek \/ Fallback
    BY <1>5 DEF BeginWait, WaitReady, WaitFailed, WaitSleep, WaitSpurious, EnsureSeek, Fallback
  <1>6. CASE FreeSetExit \/ FreeStep \/ Stopped \/ UNCHANGED vars
    BY <1>6 DEF FreeSetExit, FreeStep, FreeWake, FreeJoin, Stopped, vars
  <1>7. CASE ReaderStep \/ ReaderSpurious
    BY <1>7
    DEF ReaderStep, ReaderTest, ReaderSleep, ReaderSeek, ReaderRead, ReaderPublish,
        ReaderSpurious, ReaderKeeps
  <1> QED
    BY <1>1, <1>2, <1>3, <1>4, <1>5, <1>6, <1>7 DEF Next, InLayerStep

\* The two threads together only do to the cache what ExpertCache allows: the
\* prefetch changes when an expert's bytes are read, not what is cached.
THEOREM PrefetchImplementsCache == Spec => ImplementsCache
  <1>1. Init => CacheInit
    BY DEF Init
  <1> QED
    BY <1>1, ThreadsInvariant, StepIsCacheStep, PTL DEF Spec, ImplementsCache, CacheSpec

\* With both threads running, the bytes of a slot are those of the expert that
\* maps to it, and the map, the counter and the heat agree.
THEOREM CacheIsRightUnderPrefetch == Spec => [](SlotHoldsItsExpert /\ SlotsAgree)
  BY PrefetchImplementsCache, CachedBytesAreTheExperts, SlotsAccountedFor, PTL
  DEF ImplementsCache
===============================================================================
