----------------------------- MODULE StorageProofs -----------------------------
(***************************************************************************)
(* Proofs about the two components that keep their data in files.          *)
(*                                                                         *)
(* Streamer, for any names, sizes, clock, word, budget and number of       *)
(* regions: the counter counts, and the charge is the sum of the sizes of  *)
(* what is cached.                                                         *)
(*                                                                         *)
(* EventStore, for any set of events: what was appended is what is         *)
(* replayed and counted until a record is torn, what is saved comes first  *)
(* afterwards, and a longer file replays what a shorter one did.           *)
(***************************************************************************)
EXTENDS Streamer, EventStore, SequenceTheorems, Recursion, TLAPS

--------------------------------------------------------------------------------
(* The streamer.                                                           *)

SInv == StreamerTypeOK /\ CountIsValid

LEMMA NameFacts == NoName \notin Names /\ NoName \notin Stored
  BY StreamerAssumption

\* The valid entries are at most max_cached_regions.
LEMMA ValidFinite ==
  /\ IsFiniteSet(ValidSlots)
  /\ Cardinality(ValidSlots) \in 0 .. MaxRegions
  <1>1. IsFiniteSet(Slots) /\ Cardinality(Slots) = MaxRegions
    BY StreamerAssumption, FS_Interval DEF Slots
  <1>2. ValidSlots \subseteq Slots
    BY DEF ValidSlots
  <1>3. IsFiniteSet(ValidSlots) /\ Cardinality(ValidSlots) <= Cardinality(Slots)
    BY <1>1, <1>2, FS_Subset
  <1>4. Cardinality(ValidSlots) \in Nat
    BY <1>3, FS_CardinalityType
  <1> QED
    BY <1>1, <1>3, <1>4, StreamerAssumption

\* Arithmetic modulo Word stays below Word.
LEMMA WordType ==
  ASSUME NEW x \in Int, NEW y \in Int
  PROVE  Plus(x, y) \in 0 .. Word - 1 /\ Minus(x, y) \in 0 .. Word - 1
  <1>1. Word \in Nat \ {0}
    BY StreamerAssumption
  <1>2. ASSUME NEW z \in Int
        PROVE  z % Word \in 0 .. Word - 1
    BY <1>1
  <1> QED
    BY <1>2 DEF Plus, Minus
-----------------------------------------------------------------------------
\* An eviction empties one valid entry and counts it out.
LEMMA StepEvict ==
  ASSUME SInv, Evict
  PROVE  SInv'
  <1>1. PICK i \in Slots : IsVictim(i) /\ cache' = [cache EXCEPT ![i] = Empty] /\ used' = UsedAfterEvict(i)
    BY DEF Evict
  <1>2. count' = count - 1 /\ req' = req /\ clock' = clock
    BY DEF Evict, CountAfterEvict
  <1>3. cache \in [Slots -> EntryRecords] /\ used \in 0 .. Word - 1 /\ count \in 0 .. MaxRegions
    BY DEF SInv, StreamerTypeOK
  <1>4. i \in ValidSlots
    BY <1>1 DEF IsVictim, VisibleSlots
  <1>5. Empty \in EntryRecords
    BY StreamerAssumption DEF Empty, EntryRecords
  <1>6. cache' \in [Slots -> EntryRecords]
    BY <1>1, <1>3, <1>5
  <1>7. ValidSlots' = ValidSlots \ {i}
    BY <1>1, <1>3 DEF ValidSlots, Valid, Empty
  <1>8. Cardinality(ValidSlots \ {i}) = Cardinality(ValidSlots) - 1
    BY <1>4, ValidFinite, FS_RemoveElement
  <1>9. count' = Cardinality(ValidSlots') /\ count' \in 0 .. MaxRegions
    <2>1. count = Cardinality(ValidSlots)
      BY DEF SInv, CountIsValid
    <2>2. IsFiniteSet(ValidSlots \ {i})
      BY ValidFinite, FS_RemoveElement
    <2>3. Cardinality(ValidSlots \ {i}) \in Nat
      BY <2>2, FS_CardinalityType
    <2> QED
      BY <1>2, <1>3, <1>7, <1>8, <2>1, <2>3, StreamerAssumption
  <1>10. used' \in 0 .. Word - 1
    <2>1. cache[i].size \in Int /\ used \in Int
      BY <1>3 DEF EntryRecords
    <2> QED
      BY <1>1, <2>1, WordType DEF UsedAfterEvict
  <1> QED
    BY <1>2, <1>6, <1>9, <1>10 DEF SInv, StreamerTypeOK, CountIsValid

\* A hit changes the stamp of a valid entry.
LEMMA StepHit ==
  ASSUME NEW n \in Names, SInv, Hit(n)
  PROVE  SInv'
  <1>1. PICK i \in Slots : cache' = [cache EXCEPT ![i].stamp = clock]
    BY DEF Hit
  <1>2. count' = count /\ used' = used /\ req' = req /\ clock' = clock
    BY DEF Hit
  <1>3. cache \in [Slots -> EntryRecords] /\ clock \in 0 .. MaxClock
    BY DEF SInv, StreamerTypeOK
  <1>4. [cache[i] EXCEPT !.stamp = clock] \in EntryRecords
    BY <1>3 DEF EntryRecords
  <1>5. cache' \in [Slots -> EntryRecords]
    BY <1>1, <1>3, <1>4
  <1>6. \A j \in Slots : cache'[j].name = cache[j].name
    BY <1>1, <1>3 DEF EntryRecords
  <1>7. ValidSlots' = ValidSlots
    BY <1>6 DEF ValidSlots, Valid
  <1> QED
    BY <1>2, <1>5, <1>7 DEF SInv, StreamerTypeOK, CountIsValid

\* What is read is entered into one entry that was not valid.
LEMMA StepRead ==
  ASSUME SInv, Read
  PROVE  SInv'
  <1>1. PICK n \in ReadResults :
          IF n # 0 /\ count < MaxRegions /\ ValidSlots # Slots
          THEN /\ \E i \in Slots \ ValidSlots :
                    cache' = [cache EXCEPT ![i] =
                                [name |-> req.name, size |-> n, stamp |-> clock]]
               /\ count' = count + 1
               /\ used' = Plus(used, n)
          ELSE UNCHANGED <<cache, count, used>>
    BY DEF Read
  <1>2. req' = NoReq /\ clock' = clock /\ req # NoReq
    BY DEF Read
  <1>3. /\ cache \in [Slots -> EntryRecords]
        /\ used \in 0 .. Word - 1
        /\ count \in 0 .. MaxRegions
        /\ clock \in 0 .. MaxClock
        /\ req \in [name : Stored, size : Sizes]
        /\ count = Cardinality(ValidSlots)
    BY <1>2 DEF SInv, StreamerTypeOK, CountIsValid
  <1>4. n \in 0 .. Word - 1
    <2>1. req.size \in 1 .. Word - 1
      BY <1>3, StreamerAssumption
    <2> QED
      BY <1>1, <2>1, StreamerAssumption DEF ReadResults, FailedPread
  <1>5. CASE UNCHANGED <<cache, count, used>>
    <2>1. ValidSlots' = ValidSlots
      BY <1>5 DEF ValidSlots, Valid
    <2> QED
      BY <1>2, <1>3, <1>5, <2>1 DEF SInv, StreamerTypeOK, CountIsValid
  <1>6. CASE n # 0 /\ count < MaxRegions /\ ValidSlots # Slots
    <2>1. PICK i \in Slots \ ValidSlots :
            cache' = [cache EXCEPT ![i] = [name |-> req.name, size |-> n, stamp |-> clock]]
      BY <1>1, <1>6
    <2>2. [name |-> req.name, size |-> n, stamp |-> clock] \in EntryRecords
      BY <1>3, <1>4 DEF EntryRecords
    <2>3. cache' \in [Slots -> EntryRecords]
      BY <1>3, <2>1, <2>2
    <2>4. req.name # NoName
      BY <1>3, NameFacts
    <2>5. ValidSlots' = ValidSlots \cup {i}
      BY <1>3, <2>1, <2>4 DEF ValidSlots, Valid
    <2>6. Cardinality(ValidSlots \cup {i}) = Cardinality(ValidSlots) + 1
      BY <2>1, ValidFinite, FS_AddElement
    <2>7. count' = Cardinality(ValidSlots') /\ count' \in 0 .. MaxRegions
      BY <1>1, <1>3, <1>6, <2>5, <2>6, StreamerAssumption
    <2>8. used' \in 0 .. Word - 1
      BY <1>1, <1>3, <1>4, <1>6, WordType
    <2> QED
      BY <1>2, <1>3, <2>3, <2>7, <2>8 DEF SInv, StreamerTypeOK, CountIsValid
  <1> QED
    BY <1>1, <1>5, <1>6
-----------------------------------------------------------------------------
LEMMA InitSInv == ASSUME StreamerInit PROVE SInv
  <1>1. cache \in [Slots -> EntryRecords]
    BY StreamerAssumption DEF StreamerInit, Empty, EntryRecords
  <1>2. ValidSlots = {}
    BY DEF StreamerInit, ValidSlots, Valid, Empty
  <1>3. Cardinality(ValidSlots) = 0
    BY <1>2, FS_EmptySet
  <1> QED
    BY <1>1, <1>3, StreamerAssumption DEF StreamerInit, SInv, StreamerTypeOK, CountIsValid

LEMMA NextSInv == ASSUME SInv, [StreamerNext]_streamerVars PROVE SInv'
  <1> USE DEF SInv, StreamerTypeOK, CountIsValid
  <1>1. ASSUME NEW n \in Names, Hit(n) PROVE SInv'
    BY <1>1, StepHit
  <1>2. ASSUME NEW n \in Names, NEW size \in Sizes, Miss(n, size) PROVE SInv'
    <2>1. req' \in [name : Stored, size : Sizes]
      BY <1>2 DEF Miss, Stored
    <2>2. ValidSlots' = ValidSlots
      BY <1>2 DEF Miss, ValidSlots, Valid
    <2> QED
      BY <1>2, <2>1, <2>2 DEF Miss
  <1>3. CASE MakeRoom
    BY <1>3, StepEvict DEF MakeRoom
  <1>4. CASE Read
    BY <1>4, StepRead
  <1>5. CASE EvictLru
    BY <1>5, StepEvict DEF EvictLru
  <1>6. CASE Tick
    <2>1. clock' \in 0 .. MaxClock
      BY <1>6, StreamerAssumption DEF Tick
    <2>2. ValidSlots' = ValidSlots
      BY <1>6 DEF Tick, ValidSlots, Valid
    <2> QED
      BY <1>6, <2>1, <2>2 DEF Tick
  <1>7. CASE UNCHANGED streamerVars
    <2>1. ValidSlots' = ValidSlots
      BY <1>7 DEF streamerVars, ValidSlots, Valid
    <2> QED
      BY <1>7, <2>1 DEF streamerVars
  <1> QED
    BY <1>1, <1>2, <1>3, <1>4, <1>5, <1>6, <1>7 DEF StreamerNext

LEMMA SInvHolds == StreamerSpec => []SInv
  <1>1. StreamerInit => SInv
    BY InitSInv
  <1>2. SInv /\ [StreamerNext]_streamerVars => SInv'
    BY NextSInv
  <1> QED
    BY <1>1, <1>2, PTL DEF StreamerSpec

\* Type correctness: the counter stays within max_cached_regions and the charge
\* within its word, whatever reads return.
THEOREM StreamerTypeCorrect == StreamerSpec => []StreamerTypeOK
  <1>1. SInv => StreamerTypeOK
    BY DEF SInv
  <1> QED
    BY <1>1, SInvHolds, PTL

\* cache_count is the number of valid entries.
THEOREM CountIsExact == StreamerSpec => []CountIsValid
  <1>1. SInv => CountIsValid
    BY DEF SInv
  <1> QED
    BY <1>1, SInvHolds, PTL

\* While cache_count is below max_cached_regions the scan of ct_streamer_read
\* finds a slot that is not valid, so it never drops a region it has room for;
\* the test of idx >= 0 never fails.
THEOREM FreeSlotIsFound == StreamerSpec => [](count < MaxRegions => ValidSlots # Slots)
  <1>1. SInv => (count < MaxRegions => ValidSlots # Slots)
    <2>1. Cardinality(Slots) = MaxRegions
      BY StreamerAssumption, FS_Interval DEF Slots
    <2> QED
      BY <2>1 DEF SInv, StreamerTypeOK, CountIsValid
  <1> QED
    BY <1>1, SInvHolds, PTL
-----------------------------------------------------------------------------
(* The charge.                                                             *)

SizesOf(c) == [i \in Slots |-> c[i].size]
ValidIn(c) == {i \in Slots : c[i].name # NoName}

\* What the entries of a cache are charged with.
Total(c) == SumFunctionOnSet(SizesOf(c), ValidIn(c))

LEMMA UsedIsTotal == UsedIsSum <=> used = Total(cache) % Word
  BY DEF UsedIsSum, Total, SizesOf, ValidIn, ValidSlots, Valid

LEMMA TotalFacts ==
  ASSUME NEW c \in [Slots -> EntryRecords]
  PROVE  /\ IsFiniteSet(ValidIn(c)) /\ ValidIn(c) \subseteq Slots
         /\ \A i \in Slots : SizesOf(c)[i] = c[i].size /\ c[i].size \in Int
         /\ Total(c) \in Int
  <1>1. IsFiniteSet(Slots) /\ ValidIn(c) \subseteq Slots
    BY StreamerAssumption, FS_Interval DEF Slots, ValidIn
  <1>2. IsFiniteSet(ValidIn(c))
    BY <1>1, FS_Subset
  <1>3. \A i \in Slots : SizesOf(c)[i] = c[i].size /\ c[i].size \in Int
    <2>1. \A i \in Slots : c[i] \in EntryRecords
      OBVIOUS
    <2> QED  BY <2>1 DEF SizesOf, EntryRecords
  <1>4. \A i \in ValidIn(c) : SizesOf(c)[i] \in Int
    BY <1>1, <1>3
  <1>5. SumFunctionOnSet(SizesOf(c), ValidIn(c)) \in Int
    <2>1. PICK S : S = ValidIn(c)
      OBVIOUS
    <2>2. PICK f : f = SizesOf(c)
      OBVIOUS
    <2>3. SumFunctionOnSet(f, S) \in Int
      BY <1>2, <1>4, <2>1, <2>2, SumPicked
    <2> QED  BY <2>1, <2>2, <2>3, Zenon
  <1> QED  BY <1>1, <1>2, <1>3, <1>5 DEF Total

\* A cache with other entries, all of the same sizes among the valid ones.
LEMMA TotalSame ==
  ASSUME NEW c \in [Slots -> EntryRecords], NEW d \in [Slots -> EntryRecords],
         \A i \in Slots : d[i].name = c[i].name /\ d[i].size = c[i].size
  PROVE  Total(d) = Total(c)
  <1>1. ValidIn(d) = ValidIn(c)
    BY DEF ValidIn
  <1>2. SizesOf(d) = SizesOf(c)
    BY DEF SizesOf
  <1> QED  BY <1>1, <1>2, Zenon DEF Total

\* A valid entry less.
LEMMA TotalLess ==
  ASSUME NEW c \in [Slots -> EntryRecords], NEW d \in [Slots -> EntryRecords],
         NEW i \in ValidIn(c), ValidIn(d) = ValidIn(c) \ {i},
         \A j \in ValidIn(d) : d[j].size = c[j].size
  PROVE  Total(c) = c[i].size + Total(d)
  <1>1. PICK S : S = ValidIn(c)
    OBVIOUS
  <1>2. PICK f : f = SizesOf(c)
    OBVIOUS
  <1>3. PICK g : g = SizesOf(d)
    OBVIOUS
  <1>4. IsFiniteSet(S) /\ i \in S /\ \A j \in S : f[j] \in Int /\ f[j] = c[j].size
    BY <1>1, <1>2, TotalFacts
  <1>5. SumFunctionOnSet(f, S) = f[i] + SumFunctionOnSet(f, S \ {i})
    BY <1>4, SumApart
  <1>6. SumFunctionOnSet(g, S \ {i}) = SumFunctionOnSet(f, S \ {i})
    <2>1. IsFiniteSet(S \ {i})
      BY <1>4, FS_RemoveElement
    <2>2. \A j \in S \ {i} : g[j] = d[j].size
      <3>1. \A j \in ValidIn(d) : g[j] = d[j].size
        BY <1>3, TotalFacts
      <3> QED  BY <1>1, <3>1
    <2>3. \A j \in S \ {i} : f[j] \in Int /\ g[j] = f[j]
      BY <1>1, <1>4, <2>2
    <2> QED  BY <2>1, <2>3, SumSame
  <1>7. f[i] = c[i].size
    BY <1>4
  <1> QED  BY <1>1, <1>2, <1>3, <1>5, <1>6, <1>7, Zenon DEF Total

\* uint64_t arithmetic on a sum that has wrapped, k times.
LEMMA Wrapped ==
  ASSUME NEW t \in Int, NEW n \in 0 .. Word - 1
  PROVE  /\ Plus(t % Word, n) = (t + n) % Word
         /\ Minus(t % Word, n) = (t - n) % Word
  <1>1. PICK W \in Nat \ {0} : W = Word
    BY StreamerAssumption
  <1>2. PICK k \in Int : k = t \div W
    BY <1>1
  <1>3. PICK u \in 0 .. W - 1 : u = t % W
    BY <1>1
  <1>4. t = k * W + u
    BY <1>2, <1>3
  <1>5. n \in 0 .. W - 1
    BY <1>1
  <1>6. \A v \in 0 .. W - 1, q \in Int : (q * W + v) % W = v
    OBVIOUS
  <1>7. (u + n) % W = (t + n) % W
    <2>1. CASE u + n < W
      <3>1. (u + n) % W = u + n /\ u + n \in 0 .. W - 1
        BY <1>5, <2>1
      <3>2. t + n = k * W + (u + n)
        BY <1>4, <1>5
      <3> QED  BY <1>6, <3>1, <3>2
    <2>2. CASE u + n >= W
      <3>1. (u + n) % W = (u + n) - W /\ (u + n) - W \in 0 .. W - 1
        BY <1>5, <2>2
      <3>2. t + n = (k + 1) * W + ((u + n) - W) /\ k + 1 \in Int
        BY <1>4, <1>5
      <3> QED  BY <1>6, <3>1, <3>2
    <2> QED  BY <1>5, <2>1, <2>2
  <1>8. (u - n) % W = (t - n) % W
    <2>1. CASE n <= u
      <3>1. (u - n) % W = u - n /\ u - n \in 0 .. W - 1
        BY <1>5, <2>1
      <3>2. t - n = k * W + (u - n)
        BY <1>4, <1>5
      <3> QED  BY <1>6, <3>1, <3>2
    <2>2. CASE n > u
      <3>1. (u - n) % W = (u - n) + W /\ (u - n) + W \in 0 .. W - 1
        BY <1>5, <2>2
      <3>2. t - n = (k - 1) * W + ((u - n) + W) /\ k - 1 \in Int
        BY <1>4, <1>5
      <3> QED  BY <1>6, <3>1, <3>2
    <2> QED  BY <1>5, <2>1, <2>2
  <1> QED  BY <1>1, <1>3, <1>7, <1>8, Zenon DEF Plus, Minus

LEMMA UsedIsTotalNext == ASSUME used' = Total(cache') % Word PROVE UsedIsSum'
  BY DEF UsedIsSum, Total, SizesOf, ValidIn, ValidSlots, Valid

LEMMA CacheTypes ==
  ASSUME SInv
  PROVE  cache \in [Slots -> EntryRecords] /\ used \in 0 .. Word - 1 /\ ValidSlots = ValidIn(cache)
  BY DEF SInv, StreamerTypeOK, ValidSlots, Valid, ValidIn

LEMMA SizeType ==
  ASSUME NEW e \in EntryRecords
  PROVE  e.size \in 0 .. Word - 1
  BY DEF EntryRecords

\* An eviction gives back what the entry was charged with.
LEMMA UsedEvict ==
  ASSUME SInv, UsedIsSum, Evict
  PROVE  UsedIsSum'
  <1>1. PICK i \in Slots : IsVictim(i) /\ cache' = [cache EXCEPT ![i] = Empty] /\ used' = UsedAfterEvict(i)
    BY DEF Evict
  <1>2. cache \in [Slots -> EntryRecords] /\ i \in ValidIn(cache)
    BY <1>1, CacheTypes DEF IsVictim, VisibleSlots
  <1>3. cache' \in [Slots -> EntryRecords]
    <2>1. Empty \in EntryRecords
      BY StreamerAssumption DEF Empty, EntryRecords
    <2> QED  BY <1>1, <1>2, <2>1
  <1>4. ValidIn(cache') = ValidIn(cache) \ {i}
    BY <1>1, <1>2 DEF ValidIn, Empty
  <1>5. \A j \in ValidIn(cache') : cache'[j].size = cache[j].size
    BY <1>1, <1>2, <1>4 DEF ValidIn
  <1>6. Total(cache) = cache[i].size + Total(cache')
    BY <1>2, <1>3, <1>4, <1>5, TotalLess
  <1>7. Total(cache) \in Int /\ Total(cache') \in Int
    BY <1>2, <1>3, TotalFacts
  <1>8. cache[i].size \in 0 .. Word - 1
    BY <1>1, <1>2, SizeType
  <1>9. used = Total(cache) % Word
    BY UsedIsTotal
  <1>10. used' = (Total(cache) - cache[i].size) % Word
    <2>1. used' = Minus(used, cache[i].size)
      BY <1>1 DEF UsedAfterEvict
    <2>2. Minus(Total(cache) % Word, cache[i].size) = (Total(cache) - cache[i].size) % Word
      BY <1>7, <1>8, Wrapped
    <2> QED  BY <1>9, <2>1, <2>2, Zenon
  <1>11. Total(cache) - cache[i].size = Total(cache')
    BY <1>6, <1>7, <1>8
  <1> QED  BY <1>10, <1>11, UsedIsTotalNext

\* A read charges what it enters.
LEMMA UsedRead ==
  ASSUME SInv, UsedIsSum, Read
  PROVE  UsedIsSum'
  <1>1. PICK n \in ReadResults :
          IF n # 0 /\ count < MaxRegions /\ ValidSlots # Slots
          THEN /\ \E i \in Slots \ ValidSlots :
                    cache' = [cache EXCEPT ![i] =
                                [name |-> req.name, size |-> n, stamp |-> clock]]
               /\ count' = count + 1
               /\ used' = Plus(used, n)
          ELSE UNCHANGED <<cache, count, used>>
    BY DEF Read
  <1>2. /\ cache \in [Slots -> EntryRecords] /\ ValidSlots = ValidIn(cache)
        /\ clock \in 0 .. MaxClock
        /\ req \in [name : Stored, size : Sizes]
    BY CacheTypes DEF SInv, StreamerTypeOK, Read
  <1>3. used = Total(cache) % Word
    BY UsedIsTotal
  <1>4. CASE UNCHANGED <<cache, count, used>>
    <2>1. used' = used /\ cache' = cache
      BY <1>4
    <2>2. used' = Total(cache') % Word
      BY <1>3, <2>1, Zenon
    <2> QED  BY <2>2, UsedIsTotalNext
  <1>5. CASE n # 0 /\ count < MaxRegions /\ ValidSlots # Slots
    <2>1. PICK i \in Slots \ ValidSlots :
            cache' = [cache EXCEPT ![i] = [name |-> req.name, size |-> n, stamp |-> clock]]
      BY <1>1, <1>5
    <2>2. n \in 0 .. Word - 1
      <3>1. req.size \in 1 .. Word - 1
        BY <1>2, StreamerAssumption
      <3> QED  BY <1>1, <3>1, StreamerAssumption DEF ReadResults, FailedPread
    <2>3. cache' \in [Slots -> EntryRecords] /\ cache'[i].size = n
      <3>1. [name |-> req.name, size |-> n, stamp |-> clock] \in EntryRecords
        BY <1>2, <2>2 DEF EntryRecords
      <3> QED  BY <1>2, <2>1, <3>1
    <2>4. req.name # NoName
      BY <1>2, NameFacts
    <2>5. ValidIn(cache) = ValidIn(cache') \ {i} /\ i \in ValidIn(cache')
      BY <1>2, <2>1, <2>4 DEF ValidIn
    <2>6. \A j \in ValidIn(cache) : cache[j].size = cache'[j].size
      BY <1>2, <2>1, <2>5 DEF ValidIn
    <2>7. Total(cache') = cache'[i].size + Total(cache)
      BY <1>2, <2>3, <2>5, <2>6, TotalLess
    <2>8. Total(cache) \in Int
      BY <1>2, TotalFacts
    <2>9. Total(cache) + n = Total(cache')
      BY <2>2, <2>3, <2>7, <2>8
    <2>10. used' = Plus(used, n)
      BY <1>1, <1>5
    <2>11. Plus(Total(cache) % Word, n) = (Total(cache) + n) % Word
      BY <2>2, <2>8, Wrapped
    <2>12. used' = Total(cache') % Word
      BY <1>3, <2>9, <2>10, <2>11, Zenon
    <2> QED  BY <2>12, UsedIsTotalNext
  <1> QED  BY <1>1, <1>4, <1>5

\* cache_used_bytes is the sum of the sizes of all valid entries, those that
\* no scan sees any more included, and up to the wraps of its word: an eviction
\* gives back just what the entry was charged with, a failed pread's -1 too.
THEOREM ChargeIsSum == StreamerSpec => []UsedIsSum
  <1>1. StreamerInit => UsedIsSum
    <2> SUFFICES ASSUME StreamerInit PROVE UsedIsSum
      OBVIOUS
    <2>1. ValidIn(cache) = {}
      BY DEF StreamerInit, ValidIn, Empty
    <2>2. PICK f : f = SizesOf(cache)
      OBVIOUS
    <2>3. SumFunctionOnSet(f, {}) = 0
      BY FS_EmptySet, SumPicked
    <2>4. Total(cache) = 0
      BY <2>1, <2>2, <2>3, Zenon DEF Total
    <2>5. used = 0 /\ 0 % Word = 0
      BY StreamerAssumption DEF StreamerInit
    <2> QED  BY <2>4, <2>5, UsedIsTotal
  <1>2. SInv /\ UsedIsSum /\ [StreamerNext]_streamerVars => UsedIsSum'
    <2> SUFFICES ASSUME SInv, UsedIsSum, [StreamerNext]_streamerVars PROVE UsedIsSum'
      OBVIOUS
    <2>1. CASE MakeRoom \/ EvictLru
      BY <2>1, UsedEvict DEF MakeRoom, EvictLru
    <2>2. CASE Read
      BY <2>2, UsedRead
    <2>3. ASSUME NEW n \in Names, Hit(n) PROVE UsedIsSum'
      <3>1. SInv'
        BY NextSInv DEF StreamerNext
      <3>2. cache \in [Slots -> EntryRecords] /\ cache' \in [Slots -> EntryRecords]
        BY <3>1, CacheTypes DEF SInv, StreamerTypeOK
      <3>3. PICK i \in Slots : cache' = [cache EXCEPT ![i].stamp = clock]
        BY <2>3 DEF Hit
      <3>4. used' = used
        BY <2>3 DEF Hit
      <3>5. \A j \in Slots : cache'[j].name = cache[j].name /\ cache'[j].size = cache[j].size
        BY <3>2, <3>3 DEF EntryRecords
      <3>6. Total(cache') = Total(cache)
        BY <3>2, <3>5, TotalSame
      <3>7. used = Total(cache) % Word
        BY UsedIsTotal
      <3>8. used' = Total(cache') % Word
        BY <3>4, <3>6, <3>7, Zenon
      <3> QED  BY <3>8, UsedIsTotalNext
    <2>4. CASE UNCHANGED <<cache, used>>
      <3>1. used' = used /\ cache' = cache
        BY <2>4
      <3>2. used = Total(cache) % Word
        BY UsedIsTotal
      <3>3. used' = Total(cache') % Word
        BY <3>1, <3>2, Zenon
      <3> QED  BY <3>3, UsedIsTotalNext
    <2>5. (\E n \in Names, size \in Sizes : Miss(n, size)) \/ Tick \/ UNCHANGED streamerVars
            => UNCHANGED <<cache, used>>
      BY DEF Miss, Tick, streamerVars
    <2> QED  BY <2>1, <2>2, <2>3, <2>4, <2>5 DEF StreamerNext
  <1> QED
    BY <1>1, <1>2, SInvHolds, PTL DEF StreamerSpec
-----------------------------------------------------------------------------
(* Room.                                                                   *)

\* An entry is charged with at most the size that was asked for, or with a
\* failed pread's -1.
ReadSizes(m) == \A i \in Slots : cache[i].size \in 0 .. m \/ cache[i].size = FailedPread

LEMMA StepReadSizes ==
  ASSUME NEW m \in Nat, \A size \in Sizes : size <= m, SInv, ReadSizes(m),
         [StreamerNext]_streamerVars
  PROVE  ReadSizes(m)'
  <1>1. /\ cache \in [Slots -> EntryRecords]
        /\ req # NoReq => req \in [name : Stored, size : Sizes]
    BY DEF SInv, StreamerTypeOK
  <1>2. CASE MakeRoom \/ EvictLru
    <2>1. PICK i \in Slots : cache' = [cache EXCEPT ![i] = Empty]
      BY <1>2 DEF MakeRoom, EvictLru, Evict
    <2>2. Empty.size = 0
      BY DEF Empty
    <2> QED  BY <1>1, <2>1, <2>2 DEF ReadSizes, FailedPread
  <1>3. CASE Read
    <2>1. PICK n \in ReadResults :
            \/ cache' = cache
            \/ \E i \in Slots : cache' = [cache EXCEPT ![i] =
                                            [name |-> req.name, size |-> n, stamp |-> clock]]
      BY <1>3 DEF Read
    <2>2. n \in 0 .. m \/ n = FailedPread
      <3>1. req.size \in Sizes
        BY <1>1, <1>3 DEF Read
      <3>2. req.size \in Nat /\ req.size <= m
        <4>1. req.size \in 1 .. Word - 1
          BY <3>1, StreamerAssumption, Zenon
        <4>2. req.size <= m
          BY <3>1, Zenon
        <4> QED  BY <4>1, <4>2, StreamerAssumption
      <3> QED  BY <2>1, <3>2 DEF ReadResults
    <2> QED  BY <1>1, <2>1, <2>2 DEF ReadSizes, FailedPread
  <1>4. ASSUME NEW n \in Names, Hit(n) PROVE ReadSizes(m)'
    <2>1. PICK i \in Slots : cache' = [cache EXCEPT ![i].stamp = clock]
      BY <1>4 DEF Hit
    <2>2. \A j \in Slots : cache'[j].size = cache[j].size
      BY <1>1, <2>1 DEF EntryRecords
    <2> QED  BY <2>2 DEF ReadSizes, FailedPread
  <1>5. CASE cache' = cache
    BY <1>5 DEF ReadSizes, FailedPread
  <1>6. (\E n \in Names, size \in Sizes : Miss(n, size)) \/ Tick \/ UNCHANGED streamerVars
          => cache' = cache
    BY DEF Miss, Tick, streamerVars
  <1> QED  BY <1>2, <1>3, <1>4, <1>5, <1>6 DEF StreamerNext

\* Without a failed read in the cache, nothing has wrapped.
LEMMA NothingWrapped ==
  ASSUME NEW m \in Nat, SInv, UsedIsSum, ReadSizes(m), MaxRegions * m < Word,
         \A i \in ValidSlots : cache[i].size # FailedPread
  PROVE  used \in 0 .. MaxRegions * m
  <1>1. PICK S : S = ValidIn(cache)
    OBVIOUS
  <1>2. PICK f : f = SizesOf(cache)
    OBVIOUS
  <1>3. cache \in [Slots -> EntryRecords] /\ S = ValidSlots /\ S \subseteq Slots
    BY <1>1, CacheTypes, TotalFacts
  <1>4. IsFiniteSet(S) /\ \A i \in S : f[i] \in 0 .. m
    <2>1. IsFiniteSet(S) /\ \A i \in S : f[i] = cache[i].size
      BY <1>1, <1>2, <1>3, TotalFacts
    <2> QED  BY <1>3, <2>1 DEF ReadSizes
  <1>5. SumFunctionOnSet(f, S) \in 0 .. Cardinality(S) * m
    BY <1>4, SumBound
  <1>6. PICK n \in 0 .. MaxRegions : n = Cardinality(S)
    BY <1>3, ValidFinite
  <1>7. n * m <= MaxRegions * m /\ n * m \in Nat /\ MaxRegions * m \in Nat
    <2>1. PICK d \in Nat : MaxRegions = n + d
      <3>1. MaxRegions - n \in Nat /\ MaxRegions = n + (MaxRegions - n)
        BY <1>6, StreamerAssumption
      <3> QED  BY <3>1
    <2>2. (n + d) * m = n * m + d * m /\ n * m \in Nat /\ d * m \in Nat
      BY <1>6
    <2> QED  BY <2>1, <2>2
  <1>8. Total(cache) = SumFunctionOnSet(f, S)
    BY <1>1, <1>2, Zenon DEF Total
  <1>9. PICK t \in 0 .. MaxRegions * m : t = Total(cache)
    BY <1>5, <1>6, <1>7, <1>8
  <1>10. t % Word = t
    BY <1>7, <1>9, StreamerAssumption
  <1>11. used = t % Word
    BY <1>9, UsedIsTotal
  <1> QED  BY <1>9, <1>10, <1>11

\* ct_streamer_read keeps the budget whenever an eviction could have made
\* room, as long as no read has failed whose region is still cached.  What is
\* asked for is the size of a part of a file: all the cache holds and one more
\* are far below 2^64.
THEOREM BudgetIsKept ==
  ASSUME NEW m \in Nat, \A size \in Sizes : size <= m, MaxRegions * m + m < Word
  PROVE  StreamerSpec => RoomIsMade
  <1> DEFINE A == count' > count =>
                    \/ used' <= CacheBytes
                    \/ VisibleSlots = {}
                    \/ \E i \in Slots : cache'[i].size = FailedPread
  <1>1. StreamerInit => ReadSizes(m)
    BY DEF StreamerInit, ReadSizes, Empty
  <1>2. SInv /\ ReadSizes(m) /\ [StreamerNext]_streamerVars => ReadSizes(m)'
    BY StepReadSizes
  <1>3. SInv /\ UsedIsSum /\ ReadSizes(m) /\ [StreamerNext]_streamerVars => [A]_streamerVars
    <2> SUFFICES ASSUME SInv, UsedIsSum, ReadSizes(m), StreamerNext, count' > count,
                        ~ (used' <= CacheBytes), VisibleSlots # {},
                        \A i \in Slots : cache'[i].size # FailedPread
                 PROVE  FALSE
      OBVIOUS
    <2>1. count \in Nat /\ used \in 0 .. Word - 1 /\ cache \in [Slots -> EntryRecords]
          /\ count = Cardinality(ValidSlots)
      BY DEF SInv, StreamerTypeOK, CountIsValid
    <2>2. Read
      <3>1. count' = count - 1 \/ count' = count \/ Read
        BY DEF StreamerNext, Hit, Miss, MakeRoom, EvictLru, Evict, CountAfterEvict, Tick
      <3> QED  BY <2>1, <3>1
    <2>3. PICK n \in ReadResults :
            /\ \E i \in Slots \ ValidSlots :
                 cache' = [cache EXCEPT ![i] =
                             [name |-> req.name, size |-> n, stamp |-> clock]]
            /\ used' = Plus(used, n)
      BY <2>1, <2>2 DEF Read
    <2>4. PICK i \in Slots \ ValidSlots :
            cache' = [cache EXCEPT ![i] = [name |-> req.name, size |-> n, stamp |-> clock]]
      BY <2>3
    <2>5. n # FailedPread
      <3>1. cache'[i].size = n
        BY <2>1, <2>4
      <3> QED  BY <3>1
    <2>6. \A j \in ValidSlots : cache[j].size # FailedPread
      <3>1. \A j \in ValidSlots : j \in Slots /\ cache'[j] = cache[j]
        BY <2>1, <2>4 DEF ValidSlots
      <3> QED  BY <3>1
    <2>7. MaxRegions * m \in Nat /\ MaxRegions * m < Word
      BY StreamerAssumption
    <2>8. used \in 0 .. MaxRegions * m
      BY <2>6, <2>7, NothingWrapped
    <2>9. req.size \in Nat /\ req.size <= m /\ n \in 0 .. req.size
      <3>1. req.size \in Sizes
        BY <2>2 DEF Read, SInv, StreamerTypeOK
      <3>2. req.size \in Nat /\ req.size <= m
        <4>1. req.size \in 1 .. Word - 1
          BY <3>1, StreamerAssumption, Zenon
        <4>2. req.size <= m
          BY <3>1, Zenon
        <4> QED  BY <4>1, <4>2, StreamerAssumption
      <3> QED  BY <2>3, <2>5, <3>2 DEF ReadResults
    <2>10. Plus(used, req.size) = used + req.size /\ Plus(used, n) = used + n
      <3>1. used + req.size \in 0 .. Word - 1 /\ used + n \in 0 .. Word - 1
        BY <2>7, <2>8, <2>9, StreamerAssumption
      <3> QED  BY <3>1, StreamerAssumption DEF Plus
    <2>11. ~ NeedsRoom
      <3>1. ValidSlots # {}
        BY DEF VisibleSlots
      <3>2. count # 0
        BY <2>1, <3>1, ValidFinite, FS_EmptySet
      <3> QED  BY <2>2, <3>2 DEF Read, RoomMade
    <2>12. CacheBytes \in Nat
      BY StreamerAssumption
    <2> QED  BY <2>3, <2>7, <2>8, <2>9, <2>10, <2>11, <2>12 DEF NeedsRoom
  <1> QED
    BY <1>1, <1>2, <1>3, SInvHolds, ChargeIsSum, PTL DEF StreamerSpec, RoomIsMade

-------------------------------------------------------------------------------
(* Sequences.                                                                 *)

Associates(a, b, c) == (a \o b) \o c = a \o (b \o c)

LEMMA ConcatAssociates ==
  ASSUME NEW S, NEW a \in Seq(S), NEW b \in Seq(S), NEW c \in Seq(S)
  PROVE  Associates(a, b, c)
  BY ConcatAssociative DEF Associates

-------------------------------------------------------------------------------
(* Sequences of sequences.                                                    *)

\* The sequences of seqs joined one after the other.
Joins(fl, seqs) ==
  fl = [i \in 1..Len(seqs) |-> IF i = 1 THEN seqs[i] ELSE fl[i - 1] \o seqs[i]]

LEMMA JoinsTyped ==
  ASSUME NEW S, NEW seqs \in Seq(Seq(S)), NEW fl, Joins(fl, seqs)
  PROVE  \A i \in 1..Len(seqs) : fl[i] \in Seq(S)
  <1>1. PICK n \in Nat : n = Len(seqs)
    OBVIOUS
  <1>2. \A i \in 1..n : seqs[i] \in Seq(S)
    BY <1>1
  <1>3. \A i \in 1..n : fl[i] = IF i = 1 THEN seqs[i] ELSE fl[i - 1] \o seqs[i]
    BY <1>1 DEF Joins
  <1> DEFINE T == {i \in 0..n : i = 0 \/ fl[i] \in Seq(S)}
  <1>4. 0 \in T
    OBVIOUS
  <1>5. ASSUME NEW i \in 0..n - 1, i \in T PROVE i + 1 \in T
    <2>1. i + 1 \in 1..n /\ seqs[i + 1] \in Seq(S)
      BY <1>2
    <2>2. CASE i = 0
      BY <1>3, <2>1, <2>2
    <2>3. CASE i # 0
      <3>1. fl[i] \in Seq(S) /\ i + 1 # 1 /\ (i + 1) - 1 = i
        BY <1>5, <2>3
      <3>2. fl[i + 1] = fl[i] \o seqs[i + 1]
        BY <1>3, <2>1, <3>1
      <3>3. fl[i + 1] \in Seq(S)
        BY <2>1, <3>1, <3>2, ConcatProperties
      <3> QED
        BY <2>1, <3>3
    <2> QED
      BY <2>2, <2>3
  <1>6. \A i \in 0..n : i \in T
    <2> HIDE DEF T
    <2>1. \A i \in 0..n - 1 : i \in T => i + 1 \in T
      BY <1>5
    <2> QED
      BY <1>4, <2>1, InductionUpTo
  <1> QED
    BY <1>1, <1>6

LEMMA JoinsExists ==
  ASSUME NEW S, NEW seqs \in Seq(Seq(S)), seqs # <<>>
  PROVE  \E fl : Joins(fl, seqs)
  <1>1. PICK n \in Nat : Len(seqs) = n + 1
    <2>1. Len(seqs) - 1 \in Nat /\ Len(seqs) = (Len(seqs) - 1) + 1
      OBVIOUS
    <2> QED
      BY <2>1
  <1>2. \A i \in 1..n + 1 : seqs[i] \in Seq(S)
    BY <1>1
  <1> DEFINE X == Seq(S)
             step == [i \in 1..n |-> [x \in X |-> x \o seqs[i + 1]]]
  <1>3. AreSteps(step, X, n) /\ seqs[1] \in X
    <2>1. ASSUME NEW i \in 1..n, NEW x \in X PROVE x \o seqs[i + 1] \in X
      <3>1. seqs[i + 1] \in Seq(S)
        BY <1>2
      <3> QED
        BY <3>1, ConcatProperties
    <2>2. step \in [1..n -> [X -> X]]
      BY <2>1
    <2> QED
      BY <1>2, <2>2 DEF AreSteps
  <1>4. PICK r : Follows(r, X, seqs[1], step, n)
    <2> HIDE DEF X, step
    <2> QED
      BY <1>3, RecursiveValues
  <1>5. r \in [0..n -> X] /\ r[0] = seqs[1]
    BY <1>4 DEF Follows
  <1>6. ASSUME NEW i \in 1..n PROVE r[i] = r[i - 1] \o seqs[i + 1]
    <2>1. r[i] = step[i][r[i - 1]]
      <3> HIDE DEF step, X
      <3> QED
        BY <1>4 DEF Follows
    <2>2. r[i - 1] \in X
      <3> HIDE DEF X
      <3> QED
        BY <1>5
    <2> HIDE DEF X
    <2> QED
      BY <2>1, <2>2
  <1> DEFINE fl == [i \in 1..n + 1 |-> r[i - 1]]
  <1>7. \A i \in 1..n + 1 : fl[i] = IF i = 1 THEN seqs[i] ELSE fl[i - 1] \o seqs[i]
    <2> TAKE i \in 1..n + 1
    <2>1. CASE i = 1
      BY <1>5, <2>1
    <2>2. CASE i # 1
      <3>1. i - 1 \in 1..n /\ i - 1 \in 1..n + 1 /\ (i - 1) + 1 = i
        BY <2>2
      <3>2. r[i - 1] = r[(i - 1) - 1] \o seqs[i]
        BY <1>6, <3>1
      <3>3. fl[i] = r[i - 1] /\ fl[i - 1] = r[(i - 1) - 1]
        BY <3>1
      <3> QED
        BY <2>2, <3>2, <3>3
    <2> QED
      BY <2>1, <2>2
  <1>8. fl = [i \in 1..n + 1 |-> fl[i]]
    OBVIOUS
  <1> HIDE DEF fl
  <1>9. Joins(fl, seqs)
    <2>1. fl = [i \in 1..n + 1 |-> IF i = 1 THEN seqs[i] ELSE fl[i - 1] \o seqs[i]]
      BY <1>7, <1>8
    <2> QED
      BY <1>1, <2>1 DEF Joins
  <1> QED
    BY <1>9

LEMMA FlattenJoins ==
  ASSUME NEW S, NEW seqs \in Seq(Seq(S)), seqs # <<>>
  PROVE  \E fl : Joins(fl, seqs) /\ FlattenSeq(seqs) = fl[Len(seqs)]
  <1>1. PICK fl : fl = CHOOSE x : Joins(x, seqs)
    OBVIOUS
  <1>2. Joins(fl, seqs)
    BY <1>1, JoinsExists
  <1>3. FlattenSeq(seqs) = (CHOOSE x : Joins(x, seqs))[Len(seqs)]
    BY DEF FlattenSeq, Joins
  <1> QED
    BY <1>1, <1>2, <1>3

LEMMA FlattenEmpty == FlattenSeq(<<>>) = <<>>
  <1>1. Len(<<>>) = 0
    OBVIOUS
  <1>2. PICK none : none = <<>>
    OBVIOUS
  <1>3. FlattenSeq(none) = none
    BY <1>1, <1>2, Zenon DEF FlattenSeq
  <1> QED
    BY <1>2, <1>3, Zenon

LEMMA FlattenTyped ==
  ASSUME NEW S, NEW seqs \in Seq(Seq(S))
  PROVE  FlattenSeq(seqs) \in Seq(S)
  <1>1. CASE seqs = <<>>
    BY <1>1, FlattenEmpty, EmptySeq, Zenon
  <1>2. CASE seqs # <<>>
    <2>1. PICK fl : Joins(fl, seqs) /\ FlattenSeq(seqs) = fl[Len(seqs)]
      BY <1>2, FlattenJoins
    <2>2. Len(seqs) \in 1..Len(seqs)
      <3>1. Len(seqs) \in Nat \ {0}
        BY <1>2, EmptySeq, Zenon
      <3> QED
        BY <3>1
    <2>3. fl[Len(seqs)] \in Seq(S)
      BY <2>1, <2>2, JoinsTyped, Zenon
    <2> QED
      BY <2>1, <2>3, Zenon
  <1> QED
    BY <1>1, <1>2

\* One sequence more is joined at the end.
LEMMA FlattenAppend ==
  ASSUME NEW S, NEW seqs \in Seq(Seq(S)), NEW x \in Seq(S)
  PROVE  FlattenSeq(Append(seqs, x)) = FlattenSeq(seqs) \o x
  <1>1. PICK n \in Nat : n = Len(seqs)
    <2>1. Len(seqs) \in Nat
      BY LenProperties, Zenon
    <2> QED
      BY <2>1, Zenon
  <1>2. PICK more : more = Append(seqs, x)
    OBVIOUS
  <1>3. /\ more \in Seq(Seq(S)) /\ Len(more) = n + 1 /\ more # <<>> /\ more[n + 1] = x
        /\ \A i \in 1..n : more[i] = seqs[i]
    <2>1. /\ more \in Seq(Seq(S)) /\ Len(more) = n + 1 /\ more[n + 1] = x
          /\ \A i \in 1..n : more[i] = seqs[i]
      <3>1. /\ Append(seqs, x) \in Seq(Seq(S))
            /\ Len(Append(seqs, x)) = Len(seqs) + 1
            /\ \A i \in 1..Len(seqs) : Append(seqs, x)[i] = seqs[i]
            /\ Append(seqs, x)[Len(seqs) + 1] = x
        BY AppendProperties
      <3> QED
        BY <1>1, <1>2, <3>1, Zenon
    <2>2. more # <<>>
      BY <2>1
    <2> QED
      BY <2>1, <2>2, Zenon
  <1>4. PICK fl : Joins(fl, more) /\ FlattenSeq(more) = fl[n + 1]
    BY <1>3, FlattenJoins, Zenon
  <1>5. \A i \in 1..n + 1 : fl[i] = IF i = 1 THEN more[i] ELSE fl[i - 1] \o more[i]
    BY <1>3, <1>4 DEF Joins
  <1>6. CASE n = 0
    <2>1. seqs = <<>>
      <3>1. seqs # <<>> => Len(seqs) \in Nat \ {0}
        BY EmptySeq, Zenon
      <3> QED
        BY <1>1, <1>6, <3>1
    <2>2. FlattenSeq(seqs) = <<>>
      BY <2>1, FlattenEmpty, Zenon
    <2>3. fl[n + 1] = x
      BY <1>3, <1>5, <1>6
    <2>4. <<>> \o x = x
      BY ConcatEmptySeq, Zenon
    <2> QED
      BY <1>2, <1>4, <2>2, <2>3, <2>4, Zenon
  <1>7. CASE n # 0
    <2>1. PICK gl : Joins(gl, seqs) /\ FlattenSeq(seqs) = gl[n]
      <3>1. seqs # <<>>
        BY <1>1, <1>7
      <3> QED
        BY <1>1, <3>1, FlattenJoins, Zenon
    <2>2. \A i \in 1..n : gl[i] = IF i = 1 THEN seqs[i] ELSE gl[i - 1] \o seqs[i]
      BY <1>1, <2>1 DEF Joins
    <2> DEFINE T == {i \in 0..n : i = 0 \/ fl[i] = gl[i]}
    <2>3. 0 \in T
      OBVIOUS
    <2>4. ASSUME NEW i \in 0..n - 1, i \in T PROVE i + 1 \in T
      <3>1. i + 1 \in 1..n /\ i + 1 \in 1..n + 1 /\ (i + 1) - 1 = i
        OBVIOUS
      <3>2. more[i + 1] = seqs[i + 1]
        BY <1>3, <3>1
      <3>3. CASE i = 0
        <4>1. i + 1 = 1
          BY <3>3
        <4>2. fl[i + 1] = more[i + 1] /\ gl[i + 1] = seqs[i + 1]
          BY <1>5, <2>2, <3>1, <4>1
        <4> QED
          BY <3>1, <3>2, <4>2
      <3>4. CASE i # 0
        <4>1. fl[i] = gl[i] /\ i + 1 # 1
          BY <2>4, <3>4
        <4>2. fl[i + 1] = fl[i] \o more[i + 1] /\ gl[i + 1] = gl[i] \o seqs[i + 1]
          BY <1>5, <2>2, <3>1, <4>1
        <4>3. fl[i + 1] = gl[i + 1]
          BY <3>2, <4>1, <4>2, Zenon
        <4> QED
          BY <3>1, <4>3
      <3> QED
        BY <3>3, <3>4
    <2>5. n \in T
      <3> HIDE DEF T
      <3>1. \A i \in 0..n - 1 : i \in T => i + 1 \in T
        BY <2>4
      <3>2. n \in 0..n
        OBVIOUS
      <3> QED
        BY <2>3, <3>1, <3>2, InductionUpTo
    <2>6. fl[n] = gl[n]
      BY <1>7, <2>5
    <2>7. n + 1 \in 1..n + 1 /\ n + 1 # 1 /\ (n + 1) - 1 = n
      BY <1>7
    <2>8. fl[n + 1] = fl[n] \o x
      BY <1>3, <1>5, <2>7
    <2> QED
      BY <1>2, <1>4, <2>1, <2>6, <2>8, Zenon
  <1> QED
    BY <1>6, <1>7

-------------------------------------------------------------------------------
(* Records.                                                                   *)

\* The counted string s of n cells.
CountedAs(c, s, n) ==
  /\ c \in Seq(Nat) /\ Len(c) = 1 + n /\ c[1] = n
  /\ \A i \in 1..n : c[1 + i] = s[i]

\* The n cells of a with the m cells of b behind them.
Behind(c, a, n, b, m) ==
  /\ c \in Seq(Nat) /\ Len(c) = n + m
  /\ \A i \in 1..n : c[i] = a[i]
  /\ \A i \in 1..m : c[n + i] = b[i]

LEMMA CellsBehind ==
  ASSUME NEW a \in Seq(Nat), NEW b \in Seq(Nat)
  PROVE  Behind(a \o b, a, Len(a), b, Len(b))
  <1>1. PICK n, m \in Nat : n = Len(a) /\ m = Len(b)
    <2>1. Len(a) \in Nat /\ Len(b) \in Nat
      BY LenProperties, Zenon
    <2> QED
      BY <2>1, Zenon
  <1>2. PICK c : c = a \o b
    OBVIOUS
  <1>3. /\ c \in Seq(Nat) /\ Len(c) = n + m
        /\ \A j \in 1..n + m : c[j] = IF j <= n THEN a[j] ELSE b[j - n]
    BY <1>1, <1>2, ConcatProperties, Zenon
  <1>4. ASSUME NEW i \in 1..n PROVE c[i] = a[i]
    <2>1. i \in 1..n + m /\ i <= n
      OBVIOUS
    <2> QED
      BY <1>3, <2>1, Zenon
  <1>5. ASSUME NEW i \in 1..m PROVE c[n + i] = b[i]
    <2>1. n + i \in 1..n + m /\ ~ (n + i <= n) /\ (n + i) - n = i
      OBVIOUS
    <2> QED
      BY <1>3, <2>1, Zenon
  <1> QED
    BY <1>1, <1>2, <1>3, <1>4, <1>5, Zenon DEF Behind

LEMMA OneCell == ASSUME NEW S, NEW x \in S PROVE <<x>> \in Seq(S) /\ Len(<<x>>) = 1 /\ <<x>>[1] = x
  OBVIOUS

LEMMA CountedCells ==
  ASSUME NEW s \in Seq(Nat)
  PROVE  CountedAs(Counted(s), s, Len(s))
  <1>1. PICK n \in Nat : n = Len(s)
    <2>1. Len(s) \in Nat
      BY LenProperties, Zenon
    <2> QED
      BY <2>1, Zenon
  <1>2. <<n>> \in Seq(Nat) /\ Len(<<n>>) = 1 /\ <<n>>[1] = n
    BY OneCell
  <1>3. PICK c : c = Counted(s)
    OBVIOUS
  <1>4. Behind(c, <<n>>, 1, s, n)
    BY <1>1, <1>2, <1>3, CellsBehind, Zenon DEF Counted
  <1>5. /\ c \in Seq(Nat) /\ Len(c) = 1 + n /\ c[1] = n
        /\ \A i \in 1..n : c[1 + i] = s[i]
    BY <1>2, <1>4 DEF Behind
  <1> QED
    BY <1>1, <1>3, <1>5, Zenon DEF CountedAs

\* Where the fields of a record are, with strings of x, y and z cells.
RecordCells(r, e, x, y, z) ==
  /\ r \in Seq(Nat)
  /\ Len(r) = 6 + x + y + z
  /\ r[1] = e.type /\ r[2] = e.id /\ r[3] = e.entity
  /\ r[4] = x
  /\ \A i \in 1..x : r[4 + i] = e.desc[i]
  /\ r[5 + x] = y
  /\ \A i \in 1..y : r[5 + x + i] = e.span[i]
  /\ r[6 + x + y] = z
  /\ \A i \in 1..z : r[6 + x + y + i] = e.payload[i]

\* Three fields with three counted strings behind them.
LEMMA FieldsAndStrings ==
  ASSUME NEW x \in Nat, NEW y \in Nat, NEW z \in Nat,
         NEW a, NEW d, NEW s, NEW p, NEW b, NEW c, NEW r, NEW e,
         a[1] = e.type /\ a[2] = e.id /\ a[3] = e.entity,
         CountedAs(d, e.desc, x), CountedAs(s, e.span, y), CountedAs(p, e.payload, z),
         Behind(b, a, 3, d, 1 + x), Behind(c, b, 4 + x, s, 1 + y),
         Behind(r, c, 5 + x + y, p, 1 + z)
  PROVE  RecordCells(r, e, x, y, z)
  <1>1. /\ \A i \in 1..3 : b[i] = a[i]
        /\ \A i \in 1..1 + x : b[3 + i] = d[i]
    BY DEF Behind
  <1>2. /\ \A i \in 1..4 + x : c[i] = b[i]
        /\ \A i \in 1..1 + y : c[4 + x + i] = s[i]
    BY DEF Behind
  <1>3. /\ r \in Seq(Nat) /\ Len(r) = (5 + x + y) + (1 + z)
        /\ \A i \in 1..5 + x + y : r[i] = c[i]
        /\ \A i \in 1..1 + z : r[5 + x + y + i] = p[i]
    BY DEF Behind
  <1>4. /\ d[1] = x /\ \A i \in 1..x : d[1 + i] = e.desc[i]
        /\ s[1] = y /\ \A i \in 1..y : s[1 + i] = e.span[i]
        /\ p[1] = z /\ \A i \in 1..z : p[1 + i] = e.payload[i]
    BY DEF CountedAs
  <1>5. ASSUME NEW i \in 1..3 PROVE r[i] = a[i]
    <2>1. i \in 1..4 + x /\ i \in 1..5 + x + y
      OBVIOUS
    <2> QED
      BY <1>1, <1>2, <1>3, <2>1, Zenon
  <1>6. ASSUME NEW i \in 1..1 + x PROVE r[3 + i] = d[i]
    <2>1. 3 + i \in 1..4 + x /\ 3 + i \in 1..5 + x + y
      OBVIOUS
    <2> QED
      BY <1>1, <1>2, <1>3, <2>1, Zenon
  <1>7. ASSUME NEW i \in 1..1 + y PROVE r[4 + x + i] = s[i]
    <2>1. 4 + x + i \in 1..5 + x + y
      OBVIOUS
    <2> QED
      BY <1>2, <1>3, <2>1, Zenon
  <1>8. r[1] = e.type /\ r[2] = e.id /\ r[3] = e.entity
    BY <1>5
  <1>9. r[4] = x
    <2>1. 1 \in 1..1 + x /\ 3 + 1 = 4
      OBVIOUS
    <2>2. r[3 + 1] = d[1]
      BY <1>6, <2>1, Zenon
    <2> QED
      BY <1>4, <2>1, <2>2
  <1>10. ASSUME NEW i \in 1..x PROVE r[4 + i] = e.desc[i]
    <2>1. 1 + i \in 1..1 + x /\ 3 + (1 + i) = 4 + i
      OBVIOUS
    <2>2. r[3 + (1 + i)] = d[1 + i]
      BY <1>6, <2>1, Zenon
    <2> QED
      BY <1>4, <2>1, <2>2, Zenon
  <1>11. r[5 + x] = y
    <2>1. 1 \in 1..1 + y /\ 4 + x + 1 = 5 + x
      OBVIOUS
    <2>2. r[4 + x + 1] = s[1]
      BY <1>7, <2>1, Zenon
    <2> QED
      BY <1>4, <2>1, <2>2, Zenon
  <1>12. ASSUME NEW i \in 1..y PROVE r[5 + x + i] = e.span[i]
    <2>1. 1 + i \in 1..1 + y /\ 4 + x + (1 + i) = 5 + x + i
      OBVIOUS
    <2>2. r[4 + x + (1 + i)] = s[1 + i]
      BY <1>7, <2>1, Zenon
    <2> QED
      BY <1>4, <2>1, <2>2, Zenon
  <1>13. r[6 + x + y] = z
    <2>1. 1 \in 1..1 + z /\ 5 + x + y + 1 = 6 + x + y
      OBVIOUS
    <2>2. r[5 + x + y + 1] = p[1]
      BY <1>3, <2>1, Zenon
    <2> QED
      BY <1>4, <2>1, <2>2, Zenon
  <1>14. ASSUME NEW i \in 1..z PROVE r[6 + x + y + i] = e.payload[i]
    <2>1. 1 + i \in 1..1 + z /\ 5 + x + y + (1 + i) = 6 + x + y + i
      OBVIOUS
    <2>2. r[5 + x + y + (1 + i)] = p[1 + i]
      BY <1>3, <2>1, Zenon
    <2> QED
      BY <1>4, <2>1, <2>2, Zenon
  <1>15. Len(r) = 6 + x + y + z
    BY <1>3
  <1> QED
    BY <1>3, <1>8, <1>9, <1>10, <1>11, <1>12, <1>13, <1>14, <1>15, Zenon DEF RecordCells

LEMMA RecordIsCells ==
  ASSUME NEW e \in EventRecords
  PROVE  RecordCells(Record(e), e, Len(e.desc), Len(e.span), Len(e.payload))
  <1>1. /\ e.type \in Nat /\ e.id \in Nat /\ e.entity \in Nat
        /\ e.desc \in Seq(Nat) /\ e.span \in Seq(Nat) /\ e.payload \in Seq(Nat)
    BY DEF EventRecords
  <1>2. PICK x, y, z \in Nat : x = Len(e.desc) /\ y = Len(e.span) /\ z = Len(e.payload)
    <2>1. Len(e.desc) \in Nat /\ Len(e.span) \in Nat /\ Len(e.payload) \in Nat
      BY <1>1, LenProperties, Zenon
    <2> QED
      BY <2>1, Zenon
  <1>3. PICK d, s, p : d = Counted(e.desc) /\ s = Counted(e.span) /\ p = Counted(e.payload)
    OBVIOUS
  <1>4. CountedAs(d, e.desc, x) /\ CountedAs(s, e.span, y) /\ CountedAs(p, e.payload, z)
    BY <1>1, <1>2, <1>3, CountedCells, Zenon
  <1>5. /\ d \in Seq(Nat) /\ s \in Seq(Nat) /\ p \in Seq(Nat)
        /\ Len(d) = 1 + x /\ Len(s) = 1 + y /\ Len(p) = 1 + z
    BY <1>4, Zenon DEF CountedAs
  <1>6. PICK a : a = <<e.type, e.id, e.entity>>
    OBVIOUS
  <1>7. a \in Seq(Nat) /\ Len(a) = 3 /\ a[1] = e.type /\ a[2] = e.id /\ a[3] = e.entity
    BY <1>1, <1>6
  <1>8. PICK b : b = a \o d
    OBVIOUS
  <1>9. Behind(b, a, 3, d, 1 + x)
    BY <1>5, <1>7, <1>8, CellsBehind, Zenon
  <1>10. b \in Seq(Nat) /\ Len(b) = 4 + x
    BY <1>9 DEF Behind
  <1>11. PICK c : c = b \o s
    OBVIOUS
  <1>12. Behind(c, b, 4 + x, s, 1 + y)
    BY <1>5, <1>10, <1>11, CellsBehind, Zenon
  <1>13. c \in Seq(Nat) /\ Len(c) = 5 + x + y
    BY <1>12 DEF Behind
  <1>14. PICK r : r = c \o p
    OBVIOUS
  <1>15. Behind(r, c, 5 + x + y, p, 1 + z)
    BY <1>5, <1>13, <1>14, CellsBehind, Zenon
  <1>16. RecordCells(r, e, x, y, z)
    BY <1>4, <1>7, <1>9, <1>12, <1>15, FieldsAndStrings, Zenon
  <1>17. r = Record(e)
    BY <1>3, <1>6, <1>8, <1>11, <1>14, Zenon DEF Record
  <1> QED
    BY <1>2, <1>16, <1>17, Zenon

-------------------------------------------------------------------------------
(* What is behind what.                                                       *)

\* f is the beginning of g.
Starts(f, g) ==
  /\ Len(f) \in Nat /\ Len(g) \in Nat /\ Len(f) <= Len(g)
  /\ \A i \in 1..Len(f) : g[i] = f[i]

LEMMA StartsItself == ASSUME NEW f, Len(f) \in Nat PROVE Starts(f, f)
  BY DEF Starts

LEMMA StartsAlso ==
  ASSUME NEW f, NEW g, NEW h, Starts(f, g), Starts(g, h) PROVE Starts(f, h)
  BY DEF Starts

\* Of two beginnings, the shorter one is the beginning of the longer one.
LEMMA ShorterStarts ==
  ASSUME NEW f, NEW g, NEW h, Starts(f, h), Starts(g, h), Len(f) <= Len(g)
  PROVE  Starts(f, g)
  BY DEF Starts

LEMMA SameLengthStarts ==
  ASSUME NEW S, NEW f \in Seq(S), NEW g \in Seq(S), Starts(f, g), Len(f) = Len(g)
  PROVE  f = g
  <1>1. \A i \in 1..Len(f) : f[i] = g[i]
    BY DEF Starts
  <1> QED
    BY <1>1, SeqEqual, Zenon

LEMMA StartsMore ==
  ASSUME NEW S, NEW a \in Seq(S), NEW b \in Seq(S) PROVE Starts(a, a \o b)
  <1>1. PICK n, m \in Nat : n = Len(a) /\ m = Len(b)
    <2>1. Len(a) \in Nat /\ Len(b) \in Nat
      BY LenProperties, Zenon
    <2> QED
      BY <2>1, Zenon
  <1>2. PICK c : c = a \o b
    OBVIOUS
  <1>3. /\ c \in Seq(S) /\ Len(c) = n + m
        /\ \A j \in 1..n + m : c[j] = IF j <= n THEN a[j] ELSE b[j - n]
    BY <1>1, <1>2, ConcatProperties, Zenon
  <1>4. ASSUME NEW i \in 1..n PROVE c[i] = a[i]
    <2>1. i \in 1..n + m /\ i <= n
      OBVIOUS
    <2> QED
      BY <1>3, <2>1, Zenon
  <1>5. n + m \in Nat /\ n <= n + m
    OBVIOUS
  <1> QED
    BY <1>1, <1>2, <1>3, <1>4, <1>5, Zenon DEF Starts

\* The n cells of f behind the first m.
Part(d, S, f, m, n) ==
  d \in Seq(S) /\ Len(d) = n /\ \A i \in 1..n : d[i] = f[m + i]

LEMMA PartCells ==
  ASSUME NEW S, NEW f \in Seq(S), NEW m \in Nat, NEW n \in Nat, m + n <= Len(f)
  PROVE  Part(SubSeq(f, m + 1, m + n), S, f, m, n)
  <1>1. ASSUME NEW i \in m + 1..m + n PROVE f[i] \in S
    <2>1. PICK k \in Nat : k = Len(f)
      <3>1. Len(f) \in Nat
        BY LenProperties, Zenon
      <3> QED
        BY <3>1, Zenon
    <2>2. i \in 1..k
      BY <2>1
    <2> QED
      BY <2>1, <2>2, ElementOfSeq, Zenon
  <1>2. m + 1 \in Int /\ m + n \in Int
    OBVIOUS
  <1>3. PICK a, k, l : a = SubSeq(f, k, l) /\ k = m + 1 /\ l = m + n
    OBVIOUS
  <1>4. /\ a \in Seq(S) /\ Len(a) = (IF k <= l THEN l - k + 1 ELSE 0)
        /\ \A i \in 1..l - k + 1 : a[i] = f[k + i - 1]
    BY <1>1, <1>2, <1>3, SubSeqProperties
  <1>5. Len(a) = n
    BY <1>3, <1>4
  <1>6. ASSUME NEW i \in 1..n PROVE a[i] = f[m + i]
    <2>1. i \in 1..l - k + 1 /\ k + i - 1 = m + i
      BY <1>3
    <2> QED
      BY <1>4, <2>1, Zenon
  <1> QED
    BY <1>3, <1>4, <1>5, <1>6, Zenon DEF Part

LEMMA FirstCells ==
  ASSUME NEW S, NEW f \in Seq(S), NEW n \in Nat, n <= Len(f)
  PROVE  /\ SubSeq(f, 1, n) \in Seq(S) /\ Len(SubSeq(f, 1, n)) = n
         /\ \A i \in 1..n : SubSeq(f, 1, n)[i] = f[i]
  <1>1. 0 \in Nat /\ 0 + 1 = 1 /\ 0 + n = n /\ \A i \in 1..n : 0 + i = i
    OBVIOUS
  <1>2. Part(SubSeq(f, 0 + 1, 0 + n), S, f, 0, n)
    BY <1>1, PartCells, Zenon
  <1> QED
    BY <1>1, <1>2, Zenon DEF Part

LEMMA StartsIsPrefix ==
  ASSUME NEW S, NEW f \in Seq(S), NEW g \in Seq(S), Starts(f, g)
  PROVE  IsPrefix(f, g)
  <1>1. PICK n, m \in Nat : n = Len(f) /\ m = Len(g)
    BY DEF Starts
  <1>2. n <= m /\ (\A i \in 1..n : g[i] = f[i]) /\ (\A i \in 1..n : f[i] \in S)
    <2>1. \A i \in 1..n : f[i] \in S
      BY <1>1, ElementOfSeq, Zenon
    <2> QED
      BY <1>1, <2>1 DEF Starts
  <1>3. PICK a, b : a = SubSeq(f, 1, n) /\ b = SubSeq(g, 1, n)
    OBVIOUS
  <1>4. a \in Seq(S) /\ Len(a) = n /\ \A i \in 1..n : a[i] = f[i]
    <2>1. n <= Len(f)
      BY <1>1
    <2> QED
      BY <1>3, <2>1, FirstCells, Zenon
  <1>5. b \in Seq(S) /\ Len(b) = n /\ \A i \in 1..n : b[i] = g[i]
    BY <1>1, <1>2, <1>3, FirstCells, Zenon
  <1>6. Len(a) = Len(b) /\ \A i \in 1..Len(a) : a[i] = b[i]
    BY <1>2, <1>4, <1>5, Zenon
  <1>7. a = b
    BY <1>4, <1>5, <1>6, SeqEqual, Zenon
  <1> QED
    BY <1>1, <1>2, <1>3, <1>7, Zenon DEF IsPrefix

-------------------------------------------------------------------------------
(* The records of a log.                                                      *)

LEMMA RecordTyped ==
  ASSUME NEW e \in EventRecords
  PROVE  /\ Record(e) \in Seq(Nat) /\ Len(Record(e)) \in Nat
         /\ Len(Record(e)) >= 6
  <1>1. PICK x, y, z \in Nat : x = Len(e.desc) /\ y = Len(e.span) /\ z = Len(e.payload)
    <2>1. e.desc \in Seq(Nat) /\ e.span \in Seq(Nat) /\ e.payload \in Seq(Nat)
      BY DEF EventRecords
    <2>2. Len(e.desc) \in Nat /\ Len(e.span) \in Nat /\ Len(e.payload) \in Nat
      BY <2>1, LenProperties, Zenon
    <2> QED
      BY <2>2, Zenon
  <1>2. PICK r : r = Record(e)
    OBVIOUS
  <1>3. r \in Seq(Nat) /\ Len(r) = 6 + x + y + z
    BY <1>1, <1>2, RecordIsCells, Zenon DEF RecordCells
  <1>4. Len(r) \in Nat /\ Len(r) >= 6
    BY <1>3
  <1> QED
    BY <1>2, <1>3, <1>4, Zenon

\* The records of es, one by one.
Each(es) == [i \in 1..Len(es) |-> Record(es[i])]

LEMMA EachTyped ==
  ASSUME NEW es \in Seq(EventRecords)
  PROVE  Each(es) \in Seq(Seq(Nat)) /\ Len(Each(es)) = Len(es)
  <1>1. PICK n \in Nat : n = Len(es)
    <2>1. Len(es) \in Nat
      BY LenProperties, Zenon
    <2> QED
      BY <2>1, Zenon
  <1>2. ASSUME NEW i \in 1..n PROVE Record(es[i]) \in Seq(Nat)
    <2>1. es[i] \in EventRecords
      BY <1>1, ElementOfSeq, Zenon
    <2> QED
      BY <2>1, RecordTyped, Zenon
  <1> DEFINE h == [i \in 1..n |-> Record(es[i])]
  <1>3. h \in [1..n -> Seq(Nat)]
    BY <1>2
  <1>4. h \in Seq(Seq(Nat)) /\ Len(h) = n
    <2> HIDE DEF h
    <2> QED
      BY <1>3
  <1>5. h = Each(es)
    BY <1>1, Zenon DEF Each
  <1> QED
    BY <1>1, <1>4, <1>5, Zenon

LEMMA RecordsFlat ==
  ASSUME NEW es \in Seq(EventRecords) PROVE Records(es) = FlattenSeq(Each(es))
  <1>1. DOMAIN es = 1..Len(es)
    BY LenProperties, Zenon
  <1> QED
    BY <1>1, Zenon DEF Records, Each

LEMMA RecordsTyped ==
  ASSUME NEW es \in Seq(EventRecords)
  PROVE  Records(es) \in Seq(Nat) /\ Len(Records(es)) \in Nat
  <1>1. Records(es) \in Seq(Nat)
    BY RecordsFlat, EachTyped, FlattenTyped, Zenon
  <1> QED
    BY <1>1, LenProperties, Zenon

LEMMA NoRecords == Records(<<>>) = <<>>
  <1>1. <<>> \in Seq(EventRecords) /\ Len(<<>>) = 0
    OBVIOUS
  <1>2. Each(<<>>) \in Seq(Seq(Nat)) /\ Len(Each(<<>>)) = 0
    BY <1>1, EachTyped, Zenon
  <1>3. Each(<<>>) = <<>>
    <2>1. Each(<<>>) # <<>> => Len(Each(<<>>)) \in Nat \ {0}
      BY <1>2, EmptySeq, Zenon
    <2> QED
      BY <1>2, <2>1
  <1> QED
    BY <1>1, <1>3, RecordsFlat, FlattenEmpty, Zenon

LEMMA RecordsAppend ==
  ASSUME NEW es \in Seq(EventRecords), NEW e \in EventRecords
  PROVE  Records(Append(es, e)) = Records(es) \o Record(e)
  <1>1. PICK n \in Nat : n = Len(es)
    <2>1. Len(es) \in Nat
      BY LenProperties, Zenon
    <2> QED
      BY <2>1, Zenon
  <1>2. PICK fs : fs = Append(es, e)
    OBVIOUS
  <1>3. /\ fs \in Seq(EventRecords) /\ Len(fs) = n + 1 /\ fs[n + 1] = e
        /\ \A i \in 1..n : fs[i] = es[i]
    BY <1>1, <1>2, AppendProperties
  <1>4. PICK a : a = Each(es)
    OBVIOUS
  <1>5. PICK b : b = Append(a, Record(e))
    OBVIOUS
  <1>6. Record(e) \in Seq(Nat) /\ a \in Seq(Seq(Nat)) /\ Len(a) = n
    BY <1>1, <1>4, RecordTyped, EachTyped, Zenon
  <1>7. \A i \in 1..n : a[i] = Record(es[i])
    BY <1>1, <1>4 DEF Each
  <1>8. /\ b \in Seq(Seq(Nat)) /\ Len(b) = n + 1 /\ b[n + 1] = Record(e)
        /\ \A i \in 1..n : b[i] = a[i]
    BY <1>5, <1>6, AppendProperties
  <1>9. PICK c : c = Each(fs)
    OBVIOUS
  <1>10. /\ c \in Seq(Seq(Nat)) /\ Len(c) = n + 1
         /\ \A i \in 1..n + 1 : c[i] = Record(fs[i])
    <2>1. c \in Seq(Seq(Nat)) /\ Len(c) = n + 1
      BY <1>3, <1>9, EachTyped, Zenon
    <2> QED
      BY <1>3, <1>9, <2>1 DEF Each
  <1>11. \A i \in 1..n + 1 : b[i] = c[i]
    <2> TAKE i \in 1..n + 1
    <2>1. i \in 1..n \/ i = n + 1
      OBVIOUS
    <2>2. CASE i \in 1..n
      BY <1>3, <1>7, <1>8, <1>10, <2>2, Zenon
    <2>3. CASE i = n + 1
      BY <1>3, <1>8, <1>10, <2>3, Zenon
    <2> QED
      BY <2>1, <2>2, <2>3, Zenon
  <1>12. b = c
    <2>1. Len(b) = Len(c) /\ \A i \in 1..Len(b) : b[i] = c[i]
      BY <1>8, <1>10, <1>11, Zenon
    <2> QED
      BY <1>8, <1>10, <2>1, SeqEqual, Zenon
  <1>13. FlattenSeq(b) = FlattenSeq(a) \o Record(e)
    BY <1>5, <1>6, FlattenAppend, Zenon
  <1> QED
    BY <1>2, <1>3, <1>4, <1>9, <1>12, <1>13, RecordsFlat, Zenon

\* The records of the first i events.
Saved(es, i) == Records(SubSeq(es, 1, i))

LEMMA FirstEvents ==
  ASSUME NEW S, NEW es \in Seq(S), NEW i \in 0..Len(es)
  PROVE  SubSeq(es, 1, i) \in Seq(S) /\ Len(SubSeq(es, 1, i)) = i
  <1>1. i \in Nat /\ i <= Len(es)
    OBVIOUS
  <1> QED
    BY <1>1, FirstCells, Zenon

LEMMA OneEventMore ==
  ASSUME NEW S, NEW es \in Seq(S), NEW i \in 1..Len(es)
  PROVE  SubSeq(es, 1, i) = Append(SubSeq(es, 1, i - 1), es[i])
  <1>1. 1 \in 1..Len(es) /\ i \in 1..Len(es) /\ i - 1 \in 0..Len(es)
    <2>1. PICK n \in Nat : n = Len(es)
      <3>1. Len(es) \in Nat
        BY LenProperties, Zenon
      <3> QED
        BY <3>1, Zenon
    <2> QED
      BY <2>1
  <1>2. SubSeq(es, 1, i) = SubSeq(es, 1, i - 1) \o <<es[i]>>
    BY <1>1, SubSeqRecursiveSecond, Zenon
  <1>3. es[i] \in S /\ SubSeq(es, 1, i - 1) \in Seq(S)
    BY <1>1, ElementOfSeq, FirstEvents, Zenon
  <1>4. Append(SubSeq(es, 1, i - 1), es[i]) = SubSeq(es, 1, i - 1) \o <<es[i]>>
    BY <1>3, AppendIsConcat
  <1> QED
    BY <1>2, <1>4, Zenon

LEMMA SavedTyped ==
  ASSUME NEW es \in Seq(EventRecords), NEW i \in 0..Len(es)
  PROVE  Saved(es, i) \in Seq(Nat) /\ Len(Saved(es, i)) \in Nat
  BY FirstEvents, RecordsTyped, Zenon DEF Saved

LEMMA SavedMore ==
  ASSUME NEW es \in Seq(EventRecords), NEW i \in 1..Len(es)
  PROVE  Saved(es, i) = Saved(es, i - 1) \o Record(es[i])
  <1>1. i - 1 \in 0..Len(es)
    OBVIOUS
  <1>2. es[i] \in EventRecords /\ SubSeq(es, 1, i - 1) \in Seq(EventRecords)
    BY <1>1, ElementOfSeq, FirstEvents, Zenon
  <1> QED
    BY <1>2, OneEventMore, RecordsAppend, Zenon DEF Saved

LEMMA SavedAll ==
  ASSUME NEW es \in Seq(EventRecords) PROVE Saved(es, Len(es)) = Records(es)
  BY SubSeqFull, Zenon DEF Saved

LEMMA SavedNone ==
  ASSUME NEW es \in Seq(EventRecords) PROVE Saved(es, 0) = <<>>
  <1>1. SubSeq(es, 1, 0) = <<>>
    BY SubSeqEmpty
  <1> QED
    BY <1>1, NoRecords, Zenon DEF Saved

\* The records of the first events are the beginning of the records of all.
LEMMA SavedStarts ==
  ASSUME NEW es \in Seq(EventRecords), NEW i \in 0..Len(es)
  PROVE  Starts(Saved(es, i), Records(es))
  <1>1. PICK n \in Nat : n = Len(es)
    <2>1. Len(es) \in Nat
      BY LenProperties, Zenon
    <2> QED
      BY <2>1, Zenon
  <1> DEFINE T == {k \in 0..n : n - k \in 0..n => Starts(Saved(es, n - k), Records(es))}
  <1>2. \A k \in 0..n : n - k \in 0..n /\ n - (n - k) = k
    OBVIOUS
  <1>3. 0 \in T
    <2>1. Saved(es, n) = Records(es) /\ Len(Records(es)) \in Nat
      BY <1>1, SavedAll, RecordsTyped, Zenon
    <2>2. Starts(Records(es), Records(es))
      BY <2>1, StartsItself, Zenon
    <2>3. n - 0 = n /\ 0 \in 0..n
      OBVIOUS
    <2> QED
      BY <2>1, <2>2, <2>3, Zenon
  <1>4. ASSUME NEW k \in 0..n - 1, k \in T PROVE k + 1 \in T
    <2>1. PICK j \in 1..n : j = n - k /\ n - (k + 1) = j - 1 /\ k + 1 \in 0..n /\ j - 1 \in 0..n
      <3>1. n - k \in 1..n /\ n - (k + 1) = (n - k) - 1 /\ k + 1 \in 0..n /\ (n - k) - 1 \in 0..n
        OBVIOUS
      <3> QED
        BY <3>1, Zenon
    <2>2. Starts(Saved(es, j), Records(es))
      <3>1. n - k \in 0..n
        OBVIOUS
      <3> QED
        BY <1>4, <2>1, <3>1, Zenon
    <2>3. Saved(es, j) = Saved(es, j - 1) \o Record(es[j])
      BY <1>1, <2>1, SavedMore, Zenon
    <2>4. Saved(es, j - 1) \in Seq(Nat) /\ Record(es[j]) \in Seq(Nat)
      BY <1>1, <2>1, SavedTyped, ElementOfSeq, RecordTyped, Zenon
    <2>5. Starts(Saved(es, j - 1), Saved(es, j))
      BY <2>3, <2>4, StartsMore, Zenon
    <2>6. Starts(Saved(es, j - 1), Records(es))
      BY <2>2, <2>5, StartsAlso, Zenon
    <2> QED
      BY <2>1, <2>6, Zenon
  <1>5. \A k \in 0..n : k \in T
    <2> HIDE DEF T
    <2>1. \A k \in 0..n - 1 : k \in T => k + 1 \in T
      BY <1>4
    <2> QED
      BY <1>3, <2>1, InductionUpTo
  <1>6. n - i \in 0..n /\ n - (n - i) = i /\ i \in 0..n
    BY <1>1
  <1> QED
    BY <1>5, <1>6, Zenon

-------------------------------------------------------------------------------
(* Reading a record.                                                          *)

LEMMA LesserOfTwo ==
  ASSUME NEW a \in Int, NEW b \in Int
  PROVE  Min({a, b}) = IF a <= b THEN a ELSE b
  <1>1. PICK m : m = IF a <= b THEN a ELSE b
    OBVIOUS
  <1>2. m \in {a, b} /\ \A y \in {a, b} : m <= y
    BY <1>1
  <1>3. \A x \in {a, b} : (\A y \in {a, b} : x <= y) => x = m
    BY <1>1
  <1> QED
    BY <1>1, <1>2, <1>3, Zenon DEF Min

\* The record of e is at p in f.
RecordAt(f, p, e) ==
  /\ p \in Nat \ {0} /\ p - 1 + Len(Record(e)) <= Len(f)
  /\ \A i \in 1..Len(Record(e)) : f[p - 1 + i] = Record(e)[i]

\* The string s of n cells, behind its length, at q.
StringAt(f, q, s, n) ==
  /\ q \in Nat /\ s \in Seq(Nat) /\ n \in Nat /\ n = Len(s)
  /\ f[q] = n /\ q + n <= Len(f)
  /\ \A i \in 1..n : f[q + i] = s[i]

LEMMA DeliveredWhole ==
  ASSUME NEW f \in Seq(Nat), NEW q, NEW s, NEW n, StringAt(f, q, s, n)
  PROVE  Delivered(f, q) = s
  <1>0. /\ q \in Nat /\ s \in Seq(Nat) /\ n \in Nat /\ n = Len(s)
        /\ f[q] = n /\ q + n <= Len(f)
        /\ \A i \in 1..n : f[q + i] = s[i]
    BY Zenon DEF StringAt
  <1>1. PICK m \in Nat : m = Len(f)
    <2>1. Len(f) \in Nat
      BY LenProperties, Zenon
    <2> QED
      BY <2>1, Zenon
  <1>2. Min({q + n, m}) = q + n
    <2>1. q + n \in Int /\ m \in Int /\ q + n <= m
      BY <1>0, <1>1
    <2> QED
      BY <2>1, LesserOfTwo, Zenon
  <1>3. Delivered(f, q) = SubSeq(f, q + 1, q + n)
    BY <1>0, <1>1, <1>2, Zenon DEF Delivered
  <1>4. PICK d : d = SubSeq(f, q + 1, q + n)
    OBVIOUS
  <1>5. d \in Seq(Nat) /\ Len(d) = n /\ \A i \in 1..n : d[i] = f[q + i]
    <2>1. q \in Nat /\ n \in Nat /\ q + n <= Len(f)
      BY <1>0, Zenon
    <2>2. Part(SubSeq(f, q + 1, q + n), Nat, f, q, n)
      BY <2>1, PartCells, Zenon
    <2> QED
      BY <1>4, <2>2, Zenon DEF Part
  <1>6. Len(d) = Len(s) /\ \A i \in 1..Len(d) : d[i] = s[i]
    BY <1>0, <1>5, Zenon
  <1>7. d = s
    BY <1>0, <1>5, <1>6, SeqEqual, Zenon
  <1> QED
    BY <1>3, <1>4, <1>7, Zenon

\* A parser that stands at a record reads the event, whole, and goes on behind it.
LEMMA RecordRead ==
  ASSUME NEW f \in Seq(Nat), NEW p, NEW e \in EventRecords, RecordAt(f, p, e)
  PROVE  /\ Complete(f, p) /\ EventAt(f, p) = e
         /\ NextRecord(f, p) = p + Len(Record(e))
         /\ After(f, PayloadAt(f, p)) = p + Len(Record(e))
  <1>1. PICK x, y, z \in Nat : x = Len(e.desc) /\ y = Len(e.span) /\ z = Len(e.payload)
    <2>1. e.desc \in Seq(Nat) /\ e.span \in Seq(Nat) /\ e.payload \in Seq(Nat)
      BY DEF EventRecords
    <2>2. Len(e.desc) \in Nat /\ Len(e.span) \in Nat /\ Len(e.payload) \in Nat
      BY <2>1, LenProperties, Zenon
    <2> QED
      BY <2>2, Zenon
  <1>2. PICK n \in Nat : n = Len(f)
    <2>1. Len(f) \in Nat
      BY LenProperties, Zenon
    <2> QED
      BY <2>1, Zenon
  <1>3. PICK r : r = Record(e)
    OBVIOUS
  <1>4. RecordCells(r, e, x, y, z)
    BY <1>1, <1>3, RecordIsCells, Zenon
  <1>5. Len(r) = 6 + x + y + z
    BY <1>4, Zenon DEF RecordCells
  <1>6. /\ p \in Nat \ {0} /\ p + 5 + x + y + z <= n
        /\ \A i \in 1..6 + x + y + z : f[p - 1 + i] = r[i]
    BY <1>2, <1>3, <1>5 DEF RecordAt
  <1>7. ASSUME NEW i, NEW j, j \in 1..6 + x + y + z, p - 1 + j = i PROVE f[i] = r[j]
    BY <1>6, <1>7, Zenon
  <1>8. f[p] = e.type /\ f[p + 1] = e.id /\ f[p + 2] = e.entity
    <2>1. /\ 1 \in 1..6 + x + y + z /\ p - 1 + 1 = p
          /\ 2 \in 1..6 + x + y + z /\ p - 1 + 2 = p + 1
          /\ 3 \in 1..6 + x + y + z /\ p - 1 + 3 = p + 2
      BY <1>6
    <2>2. f[p] = r[1] /\ f[p + 1] = r[2] /\ f[p + 2] = r[3]
      BY <1>7, <2>1, Zenon
    <2> QED
      BY <1>4, <2>2, Zenon DEF RecordCells
  <1>9. f[p + 3] = x
    <2>1. 4 \in 1..6 + x + y + z /\ p - 1 + 4 = p + 3
      BY <1>6
    <2>2. f[p + 3] = r[4]
      BY <1>7, <2>1, Zenon
    <2> QED
      BY <1>4, <2>2, Zenon DEF RecordCells
  <1>10. \A i \in 1..x : f[p + 3 + i] = e.desc[i]
    <2> TAKE i \in 1..x
    <2>1. 4 + i \in 1..6 + x + y + z /\ p - 1 + (4 + i) = p + 3 + i
      BY <1>6
    <2>2. f[p + 3 + i] = r[4 + i]
      BY <1>7, <2>1, Zenon
    <2> QED
      BY <1>4, <2>2, Zenon DEF RecordCells
  <1>11. f[p + 4 + x] = y
    <2>1. 5 + x \in 1..6 + x + y + z /\ p - 1 + (5 + x) = p + 4 + x
      BY <1>6
    <2>2. f[p + 4 + x] = r[5 + x]
      BY <1>7, <2>1, Zenon
    <2> QED
      BY <1>4, <2>2, Zenon DEF RecordCells
  <1>12. \A i \in 1..y : f[p + 4 + x + i] = e.span[i]
    <2> TAKE i \in 1..y
    <2>1. 5 + x + i \in 1..6 + x + y + z /\ p - 1 + (5 + x + i) = p + 4 + x + i
      BY <1>6
    <2>2. f[p + 4 + x + i] = r[5 + x + i]
      BY <1>7, <2>1, Zenon
    <2> QED
      BY <1>4, <2>2, Zenon DEF RecordCells
  <1>13. f[p + 5 + x + y] = z
    <2>1. 6 + x + y \in 1..6 + x + y + z /\ p - 1 + (6 + x + y) = p + 5 + x + y
      BY <1>6
    <2>2. f[p + 5 + x + y] = r[6 + x + y]
      BY <1>7, <2>1, Zenon
    <2> QED
      BY <1>4, <2>2, Zenon DEF RecordCells
  <1>14. \A i \in 1..z : f[p + 5 + x + y + i] = e.payload[i]
    <2> TAKE i \in 1..z
    <2>1. 6 + x + y + i \in 1..6 + x + y + z /\ p - 1 + (6 + x + y + i) = p + 5 + x + y + i
      BY <1>6
    <2>2. f[p + 5 + x + y + i] = r[6 + x + y + i]
      BY <1>7, <2>1, Zenon
    <2> QED
      BY <1>4, <2>2, Zenon DEF RecordCells
  <1>15. /\ DescAt(p) = p + 3 /\ SpanAt(f, p) = p + 4 + x
         /\ PayloadAt(f, p) = p + 5 + x + y
         /\ After(f, PayloadAt(f, p)) = p + 6 + x + y + z
    <2>1. DescAt(p) = p + 3
      BY DEF DescAt
    <2>2. SpanAt(f, p) = (p + 3) + 1 + x
      BY <1>9, <2>1, Zenon DEF SpanAt, After
    <2>3. (p + 3) + 1 + x = p + 4 + x
      BY <1>6
    <2>4. PayloadAt(f, p) = (p + 4 + x) + 1 + y
      BY <1>11, <2>2, <2>3, Zenon DEF PayloadAt, After
    <2>5. (p + 4 + x) + 1 + y = p + 5 + x + y
      BY <1>6
    <2>6. After(f, PayloadAt(f, p)) = (p + 5 + x + y) + 1 + z
      BY <1>13, <2>4, <2>5, Zenon DEF After
    <2>7. (p + 5 + x + y) + 1 + z = p + 6 + x + y + z
      BY <1>6
    <2> QED
      BY <2>1, <2>2, <2>3, <2>4, <2>5, <2>6, <2>7, Zenon
  <1>16. Complete(f, p)
    <2>1. /\ p + 3 <= n /\ p + 4 + x <= n /\ p + 5 + x + y <= n
          /\ p + 6 + x + y + z <= n + 1
      BY <1>6
    <2> QED
      BY <1>2, <1>15, <2>1, Zenon DEF Complete, Readable
  <1>17. EventAt(f, p) = e
    <2>1. /\ e.desc \in Seq(Nat) /\ e.span \in Seq(Nat) /\ e.payload \in Seq(Nat)
          /\ e = [type |-> e.type, id |-> e.id, entity |-> e.entity,
                  desc |-> e.desc, span |-> e.span, payload |-> e.payload]
      BY DEF EventRecords
    <2>2. /\ p + 3 \in Nat /\ p + 3 + x <= n
          /\ p + 4 + x \in Nat /\ p + 4 + x + y <= n
          /\ p + 5 + x + y \in Nat /\ p + 5 + x + y + z <= n
      BY <1>6
    <2>3. Delivered(f, p + 3) = e.desc
      <3>1. StringAt(f, p + 3, e.desc, x)
        BY <1>1, <1>2, <1>9, <1>10, <2>1, <2>2, Zenon DEF StringAt
      <3> QED
        BY <3>1, DeliveredWhole, Zenon
    <2>4. Delivered(f, p + 4 + x) = e.span
      <3>1. StringAt(f, p + 4 + x, e.span, y)
        BY <1>1, <1>2, <1>11, <1>12, <2>1, <2>2, Zenon DEF StringAt
      <3> QED
        BY <3>1, DeliveredWhole, Zenon
    <2>5. Delivered(f, p + 5 + x + y) = e.payload
      <3>1. StringAt(f, p + 5 + x + y, e.payload, z)
        BY <1>1, <1>2, <1>13, <1>14, <2>1, <2>2, Zenon DEF StringAt
      <3> QED
        BY <3>1, DeliveredWhole, Zenon
    <2>6. EventAt(f, p) = [type |-> e.type, id |-> e.id, entity |-> e.entity,
                  desc |-> e.desc, span |-> e.span, payload |-> e.payload]
      BY <1>8, <1>15, <2>3, <2>4, <2>5, Zenon DEF EventAt
    <2> QED
      BY <2>1, <2>6, Zenon
  <1>18. p + Len(r) = p + 6 + x + y + z
    BY <1>5, <1>6
  <1>19. NextRecord(f, p) = p + 6 + x + y + z
    <2>1. p + 6 + x + y + z \in Int /\ n + 1 \in Int /\ p + 6 + x + y + z <= n + 1
      BY <1>6
    <2> QED
      BY <1>2, <1>15, <2>1, LesserOfTwo, Zenon DEF NextRecord
  <1> QED
    BY <1>3, <1>15, <1>16, <1>17, <1>18, <1>19, Zenon

\* In a file that starts with the records of es, each record is behind those
\* before it.
LEMMA RecordsInPlace ==
  ASSUME NEW es \in Seq(EventRecords), NEW f \in Seq(Nat), Starts(Records(es), f),
         NEW i \in 1..Len(es)
  PROVE  /\ RecordAt(f, Len(Saved(es, i - 1)) + 1, es[i])
         /\ Len(Saved(es, i)) = Len(Saved(es, i - 1)) + Len(Record(es[i]))
  <1>1. i - 1 \in 0..Len(es) /\ i \in 0..Len(es)
    OBVIOUS
  <1>2. PICK a, r, b : a = Saved(es, i - 1) /\ r = Record(es[i]) /\ b = Saved(es, i)
    OBVIOUS
  <1>3. a \in Seq(Nat) /\ r \in Seq(Nat) /\ b = a \o r
    BY <1>1, <1>2, SavedTyped, SavedMore, ElementOfSeq, RecordTyped, Zenon
  <1>4. PICK n, m \in Nat : n = Len(a) /\ m = Len(r)
    <2>1. Len(a) \in Nat /\ Len(r) \in Nat
      BY <1>3, LenProperties, Zenon
    <2> QED
      BY <2>1, Zenon
  <1>5. Len(b) = n + m /\ \A j \in 1..m : b[n + j] = r[j]
    BY <1>3, <1>4, CellsBehind, Zenon DEF Behind
  <1>6. Starts(b, f)
    BY <1>1, <1>2, SavedStarts, StartsAlso, Zenon
  <1>7. n + m <= Len(f) /\ \A j \in 1..n + m : f[j] = b[j]
    BY <1>5, <1>6, Zenon DEF Starts
  <1>8. ASSUME NEW j \in 1..m PROVE f[(n + 1) - 1 + j] = r[j]
    <2>1. n + j \in 1..n + m /\ (n + 1) - 1 + j = n + j
      OBVIOUS
    <2> QED
      BY <1>5, <1>7, <2>1, Zenon
  <1>9. n + 1 \in Nat \ {0} /\ (n + 1) - 1 + m <= Len(f)
    BY <1>7
  <1> QED
    BY <1>2, <1>4, <1>5, <1>8, <1>9, Zenon DEF RecordAt

-------------------------------------------------------------------------------
(* What a parser finds.                                                       *)

LEMMA DeliveredTyped ==
  ASSUME NEW f \in Seq(Nat), NEW q \in 1..Len(f)
  PROVE  Delivered(f, q) \in Seq(Nat)
  <1>1. PICK n \in Nat : n = Len(f)
    <2>1. Len(f) \in Nat
      BY LenProperties, Zenon
    <2> QED
      BY <2>1, Zenon
  <1>2. PICK c \in Nat : c = f[q]
    <2>1. f[q] \in Nat
      BY ElementOfSeq, Zenon
    <2> QED
      BY <2>1, Zenon
  <1>3. PICK m : m = Min({q + c, n})
    OBVIOUS
  <1>4. m \in q..n
    <2>1. q + c \in Int /\ n \in Int
      BY <1>1
    <2>2. m = IF q + c <= n THEN q + c ELSE n
      BY <1>3, <2>1, LesserOfTwo, Zenon
    <2> QED
      BY <1>1, <2>2
  <1>5. q \in Nat /\ m - q \in Nat /\ q + (m - q) = m /\ m <= Len(f)
    BY <1>1, <1>4
  <1>6. SubSeq(f, q + 1, q + (m - q)) \in Seq(Nat)
    BY <1>5, PartCells, Zenon DEF Part
  <1>7. Delivered(f, q) = SubSeq(f, q + 1, m)
    BY <1>1, <1>2, <1>3, Zenon DEF Delivered
  <1> QED
    BY <1>5, <1>6, <1>7, Zenon

\* A string all of whose cells are there is delivered in full.
LEMMA DeliveredString ==
  ASSUME NEW f \in Seq(Nat), NEW q \in 1..Len(f), q + f[q] <= Len(f)
  PROVE  StringAt(f, q, Delivered(f, q), f[q])
  <1>1. PICK n \in Nat : n = Len(f)
    <2>1. Len(f) \in Nat
      BY LenProperties, Zenon
    <2> QED
      BY <2>1, Zenon
  <1>2. PICK c \in Nat : c = f[q]
    <2>1. f[q] \in Nat
      BY ElementOfSeq, Zenon
    <2> QED
      BY <2>1, Zenon
  <1>3. q \in Nat /\ q + c <= n /\ q + c \in Int /\ n \in Int
    BY <1>1, <1>2
  <1>4. Min({q + c, n}) = q + c
    BY <1>3, LesserOfTwo, Zenon
  <1>5. PICK d : d = SubSeq(f, q + 1, q + c)
    OBVIOUS
  <1>6. d \in Seq(Nat) /\ Len(d) = c /\ \A i \in 1..c : d[i] = f[q + i]
    <2>1. q + c <= Len(f)
      BY <1>1, <1>3, Zenon
    <2>2. Part(d, Nat, f, q, c)
      BY <1>3, <1>5, <2>1, PartCells, Zenon
    <2> QED
      BY <2>2, Zenon DEF Part
  <1>7. Delivered(f, q) = d
    BY <1>1, <1>2, <1>4, <1>5, Zenon DEF Delivered
  <1> QED
    BY <1>1, <1>2, <1>3, <1>6, <1>7, Zenon DEF StringAt

\* The cells the lengths of a readable record are in.
Lengths(f, p, q, r) ==
  /\ q = DescAt(p) /\ SpanAt(f, p) = q + 1 + f[q]
  /\ r = SpanAt(f, p) /\ PayloadAt(f, p) = r + 1 + f[r]
  /\ q \in 1..Len(f) /\ r \in 1..Len(f) /\ PayloadAt(f, p) \in 1..Len(f)
  /\ f[q] \in Nat /\ f[r] \in Nat /\ f[PayloadAt(f, p)] \in Nat
  /\ q = p + 3 /\ q < r /\ r < PayloadAt(f, p)
  /\ After(f, PayloadAt(f, p)) = PayloadAt(f, p) + 1 + f[PayloadAt(f, p)]

LEMMA ReadableLengths ==
  ASSUME NEW f \in Seq(Nat), NEW p \in 1..Len(f), Readable(f, p)
  PROVE  Lengths(f, p, DescAt(p), SpanAt(f, p))
  <1>1. PICK n \in Nat : n = Len(f)
    <2>1. Len(f) \in Nat
      BY LenProperties, Zenon
    <2> QED
      BY <2>1, Zenon
  <1>2. PICK q, r, s : q = DescAt(p) /\ r = SpanAt(f, p) /\ s = PayloadAt(f, p)
    OBVIOUS
  <1>3. q = p + 3 /\ r = q + 1 + f[q] /\ s = r + 1 + f[r] /\ After(f, s) = s + 1 + f[s]
    BY <1>2 DEF DescAt, SpanAt, PayloadAt, After
  <1>4. q <= n /\ r <= n /\ s <= n
    BY <1>1, <1>2, Zenon DEF Readable
  <1>5. p \in 1..n
    BY <1>1, Zenon
  <1>6. q \in 1..n
    <2>1. q = p + 3 /\ q <= n
      BY <1>3, <1>4, Zenon
    <2> QED
      BY <1>5, <2>1
  <1>7. PICK x \in Nat : x = f[q]
    <2>1. f[q] \in Nat
      BY <1>1, <1>6, ElementOfSeq, Zenon
    <2> QED
      BY <2>1, Zenon
  <1>8. r \in 1..n /\ q < r
    <2>1. r = q + 1 + x /\ r <= n
      BY <1>3, <1>4, <1>7, Zenon
    <2> QED
      BY <1>6, <2>1
  <1>9. PICK y \in Nat : y = f[r]
    <2>1. f[r] \in Nat
      BY <1>1, <1>8, ElementOfSeq, Zenon
    <2> QED
      BY <2>1, Zenon
  <1>10. s \in 1..n /\ r < s
    <2>1. s = r + 1 + y /\ s <= n
      BY <1>3, <1>4, <1>9, Zenon
    <2> QED
      BY <1>8, <2>1
  <1>11. f[s] \in Nat
    BY <1>1, <1>10, ElementOfSeq, Zenon
  <1> QED
    BY <1>1, <1>2, <1>3, <1>6, <1>7, <1>8, <1>9, <1>10, <1>11, Zenon DEF Lengths

LEMMA ReadableIsEvent ==
  ASSUME NEW f \in Seq(Nat), NEW p \in 1..Len(f), Readable(f, p)
  PROVE  EventAt(f, p) \in EventRecords /\ NextRecord(f, p) \in p + 1..Len(f) + 1
  <1>1. PICK n \in Nat : n = Len(f)
    <2>1. Len(f) \in Nat
      BY LenProperties, Zenon
    <2> QED
      BY <2>1, Zenon
  <1>2. PICK q, r, s : q = DescAt(p) /\ r = SpanAt(f, p) /\ s = PayloadAt(f, p)
    OBVIOUS
  <1>3. /\ q \in 1..n /\ r \in 1..n /\ s \in 1..n /\ f[s] \in Nat
        /\ q = p + 3 /\ q < r /\ r < s /\ After(f, s) = s + 1 + f[s]
    BY <1>1, <1>2, ReadableLengths, Zenon DEF Lengths
  <1>4. p \in 1..n /\ p + 1 \in 1..n /\ p + 2 \in 1..n
    BY <1>1, <1>3
  <1>5. f[p] \in Nat /\ f[p + 1] \in Nat /\ f[p + 2] \in Nat
    BY <1>1, <1>4, ElementOfSeq, Zenon
  <1>6. Delivered(f, q) \in Seq(Nat) /\ Delivered(f, r) \in Seq(Nat) /\ Delivered(f, s) \in Seq(Nat)
    BY <1>1, <1>3, DeliveredTyped, Zenon
  <1>7. EventAt(f, p) \in EventRecords
    <2>1. EventAt(f, p) = [type |-> f[p], id |-> f[p + 1], entity |-> f[p + 2],
                          desc |-> Delivered(f, q), span |-> Delivered(f, r),
                          payload |-> Delivered(f, s)]
      BY <1>2, Zenon DEF EventAt
    <2> HIDE DEF EventRecords
    <2>2. PICK d, e, g : d = Delivered(f, q) /\ e = Delivered(f, r) /\ g = Delivered(f, s)
      OBVIOUS
    <2>3. d \in Seq(Nat) /\ e \in Seq(Nat) /\ g \in Seq(Nat)
      BY <1>6, <2>2, Zenon
    <2>4. [type |-> f[p], id |-> f[p + 1], entity |-> f[p + 2],
           desc |-> d, span |-> e, payload |-> g] \in EventRecords
      BY <1>5, <2>3 DEF EventRecords
    <2> QED
      BY <2>1, <2>2, <2>4, Zenon
  <1>8. NextRecord(f, p) \in p + 1..n + 1
    <2>1. PICK a : a = After(f, s)
      OBVIOUS
    <2>2. a \in Int /\ n + 1 \in Int /\ a > p
      BY <1>3, <2>1
    <2>3. NextRecord(f, p) = Min({a, n + 1})
      BY <1>1, <1>2, <2>1, Zenon DEF NextRecord
    <2>4. NextRecord(f, p) = IF a <= n + 1 THEN a ELSE n + 1
      BY <2>2, <2>3, LesserOfTwo, Zenon
    <2> QED
      BY <1>4, <2>2, <2>4
  <1> QED
    BY <1>1, <1>7, <1>8, Zenon

\* What was read to its last byte is read the same in every longer file.
LEMMA CompleteStays ==
  ASSUME NEW f \in Seq(Nat), NEW g \in Seq(Nat), Starts(f, g),
         NEW p \in 1..Len(f), Complete(f, p)
  PROVE  /\ Readable(g, p) /\ EventAt(g, p) = EventAt(f, p)
         /\ NextRecord(g, p) = NextRecord(f, p)
  <1>1. PICK n, m \in Nat : n = Len(f) /\ m = Len(g) /\ n <= m
    BY DEF Starts
  <1>2. Readable(f, p) /\ After(f, PayloadAt(f, p)) <= n + 1
    BY <1>1, Zenon DEF Complete
  <1>3. PICK q, r, s : q = DescAt(p) /\ r = SpanAt(f, p) /\ s = PayloadAt(f, p)
    OBVIOUS
  <1>4. /\ q \in 1..n /\ r \in 1..n /\ s \in 1..n
        /\ f[q] \in Nat /\ f[r] \in Nat /\ f[s] \in Nat
        /\ q = p + 3 /\ q < r /\ r < s
        /\ r = q + 1 + f[q] /\ s = r + 1 + f[r]
        /\ After(f, s) = s + 1 + f[s]
    BY <1>1, <1>2, <1>3, ReadableLengths, Zenon DEF Lengths
  <1>5. \A i \in 1..n : g[i] = f[i]
    BY <1>1, Zenon DEF Starts
  <1>14. /\ q \in 1..n /\ r \in 1..n /\ s \in 1..n /\ p \in 1..n
         /\ q = p + 3 /\ q < r /\ r < s
    BY <1>1, <1>4, Zenon
  <1>15. PICK x, y, z, a \in Nat : /\ x = f[q] /\ y = f[r] /\ z = f[s] /\ a = After(f, s)
                                   /\ r = q + 1 + x /\ s = r + 1 + y /\ a = s + 1 + z
                                   /\ a <= n + 1
    <2>1. PICK x, y, z \in Nat : x = f[q] /\ y = f[r] /\ z = f[s]
      BY <1>4, Zenon
    <2>2. r = q + 1 + x /\ s = r + 1 + y /\ After(f, s) = s + 1 + z
      BY <1>4, <2>1, Zenon
    <2>3. s + 1 + z \in Nat
      BY <1>14
    <2>4. After(f, s) <= n + 1
      BY <1>2, <1>3, Zenon
    <2>5. PICK a \in Nat : a = After(f, s)
      BY <2>2, <2>3, Zenon
    <2>6. a = s + 1 + z /\ a <= n + 1
      BY <2>2, <2>4, <2>5, Zenon
    <2> QED
      BY <2>1, <2>2, <2>5, <2>6, Zenon
  <1>6. g[q] = f[q] /\ g[r] = f[r] /\ g[s] = f[s]
    BY <1>4, <1>5, Zenon
  <1>7. SpanAt(g, p) = r /\ PayloadAt(g, p) = s /\ After(g, s) = After(f, s)
    <2>1. SpanAt(g, p) = r
      BY <1>3, <1>6, Zenon DEF SpanAt, After
    <2>2. PayloadAt(g, p) = s
      BY <1>3, <1>6, <2>1, Zenon DEF PayloadAt, After
    <2> QED
      BY <1>6, <2>1, <2>2, Zenon DEF After
  <1>8. Readable(g, p)
    <2>1. q <= m /\ r <= m /\ s <= m
      <3>1. n <= m
        BY <1>1, Zenon
      <3> QED
        BY <1>14, <3>1
    <2> QED
      BY <1>1, <1>3, <1>7, <2>1, Zenon DEF Readable
  <1>9. p \in 1..n /\ p + 1 \in 1..n /\ p + 2 \in 1..n
    BY <1>14
  <1>10. ASSUME NEW k \in 1..n, f[k] \in Nat, k + f[k] <= n
         PROVE  Delivered(g, k) = Delivered(f, k)
    <2>1. StringAt(f, k, Delivered(f, k), f[k])
      BY <1>1, <1>10, DeliveredString, Zenon
    <2>2. PICK d, c : d = Delivered(f, k) /\ c = f[k]
      OBVIOUS
    <2>3. /\ k \in Nat /\ d \in Seq(Nat) /\ c \in Nat /\ c = Len(d) /\ k + c <= n
          /\ \A i \in 1..c : f[k + i] = d[i]
      BY <1>1, <2>1, <2>2, Zenon DEF StringAt
    <2>4. \A i \in 1..c : g[k + i] = d[i]
      <3> TAKE i \in 1..c
      <3>1. k + i \in 1..n
        BY <2>3
      <3> QED
        BY <1>5, <2>3, <3>1, Zenon
    <2>5. g[k] = c /\ k + c <= Len(g)
      <3>1. g[k] = c
        BY <1>5, <2>2, Zenon
      <3>2. n <= m /\ k + c <= n
        BY <1>1, <2>3, Zenon
      <3>3. k + c <= m
        BY <2>3, <3>2
      <3> QED
        BY <1>1, <3>1, <3>3, Zenon
    <2>6. StringAt(g, k, d, c)
      BY <2>3, <2>4, <2>5, Zenon DEF StringAt
    <2> QED
      BY <2>2, <2>6, DeliveredWhole, Zenon
  <1>11. /\ Delivered(g, q) = Delivered(f, q) /\ Delivered(g, r) = Delivered(f, r)
         /\ Delivered(g, s) = Delivered(f, s)
    <2>1. q + x <= n /\ r + y <= n /\ s + z <= n
      <3>1. r = q + 1 + x /\ s = r + 1 + y /\ a = s + 1 + z /\ a <= n + 1
        BY <1>15, Zenon
      <3>2. q \in Nat /\ r \in Nat /\ s \in Nat
        BY <1>14
      <3> QED
        BY <3>1, <3>2
    <2> QED
      BY <1>4, <1>10, <1>15, <2>1, Zenon
  <1>12. EventAt(g, p) = EventAt(f, p)
    BY <1>3, <1>5, <1>7, <1>9, <1>11, Zenon DEF EventAt
  <1>13. NextRecord(g, p) = NextRecord(f, p)
    <2>1. n <= m /\ a <= n + 1
      BY <1>1, <1>15, Zenon
    <2>2. a \in Int /\ n + 1 \in Int /\ m + 1 \in Int /\ a <= n + 1 /\ a <= m + 1
      BY <2>1
    <2>3. NextRecord(f, p) = Min({a, n + 1}) /\ NextRecord(g, p) = Min({a, m + 1})
      BY <1>1, <1>3, <1>7, <1>15, Zenon DEF NextRecord
    <2> QED
      BY <2>2, <2>3, LesserOfTwo, Zenon
  <1> QED
    BY <1>8, <1>12, <1>13, Zenon

-------------------------------------------------------------------------------
(* The loop of a replay.                                                      *)

\* The events h[p] that a replay hands over from every position p.
IsWalk(h, f, at) ==
  h = [p \in 1..Len(f) + 1 |->
         IF p \in at THEN <<EventAt(f, p)>> \o h[NextRecord(f, p)] ELSE <<>>]

Walked(h, f, at) ==
  \A p \in 1..Len(f) + 1 :
     /\ h[p] \in Seq(EventRecords)
     /\ h[p] = IF p \in at THEN <<EventAt(f, p)>> \o h[NextRecord(f, p)] ELSE <<>>

\* The positions where a parser may go on.
Stops(f, at) == at \in SUBSET (1..Len(f)) /\ \A p \in at : Readable(f, p)

LEMMA WalkValues ==
  ASSUME NEW f \in Seq(Nat), NEW at, Stops(f, at)
  PROVE  \E h : Walked(h, f, at) /\ Walk(f, at) = h[1]
  <1>1. PICK n \in Nat : n = Len(f)
    <2>1. Len(f) \in Nat
      BY LenProperties, Zenon
    <2> QED
      BY <2>1, Zenon
  <1> DEFINE V == Seq(EventRecords)
             next == [p \in at |-> NextRecord(f, p)]
             make == [p \in at |-> [x \in V |-> <<EventAt(f, p)>> \o x]]
  <1>2. at \in SUBSET (1..n) /\ \A p \in at : Readable(f, p)
    BY <1>1, Zenon DEF Stops
  <1>3. \A p \in at : EventAt(f, p) \in EventRecords /\ NextRecord(f, p) \in p + 1..n + 1
    <2> TAKE p \in at
    <2>1. p \in 1..n /\ Readable(f, p)
      BY <1>2
    <2> QED
      BY <1>1, <2>1, ReadableIsEvent, Zenon
  <1>4. Onward(next, at, n)
    <2>1. \A p \in at : NextRecord(f, p) \in 1..n + 1 /\ NextRecord(f, p) > p
      BY <1>2, <1>3
    <2> QED
      BY <1>2, <2>1 DEF Onward
  <1>5. Makes(make, at, V)
    <2>1. ASSUME NEW p \in at, NEW x \in V PROVE <<EventAt(f, p)>> \o x \in V
      <3>1. <<EventAt(f, p)>> \in V
        BY <1>3, OneCell, Zenon
      <3> QED
        BY <3>1, ConcatProperties, Zenon
    <2> HIDE DEF V
    <2> QED
      BY <2>1 DEF Makes
  <1>6. PICK none \in V : none = <<>>
    BY EmptySeq, Zenon
  <1>7. PICK h : Advances(h, V, none, at, next, make, n)
    <2> HIDE DEF V, next, make
    <2> QED
      BY <1>4, <1>5, <1>6, ForwardRecursion, Zenon
  <1>8. /\ h \in [1..n + 1 -> V]
        /\ \A p \in 1..n + 1 : h[p] = IF p \in at THEN make[p][h[next[p]]] ELSE none
    <2> HIDE DEF V, next, make
    <2> QED
      BY <1>7, Zenon DEF Advances
  <1>9. IsWalk(h, f, at)
    <2>1. ASSUME NEW p \in 1..n + 1
          PROVE  h[p] = IF p \in at THEN <<EventAt(f, p)>> \o h[NextRecord(f, p)] ELSE <<>>
      <3>1. CASE p \in at
        <4>1. next[p] \in 1..n + 1
          <5> HIDE DEF next
          <5> QED
            BY <1>4, <3>1 DEF Onward
        <4>2. h[next[p]] \in V
          <5> HIDE DEF V, next, make
          <5> QED
            BY <1>8, <4>1
        <4>3. h[p] = make[p][h[next[p]]]
          BY <1>8, <3>1, Zenon
        <4>4. make[p][h[next[p]]] = <<EventAt(f, p)>> \o h[NextRecord(f, p)]
          BY <3>1, <4>2, Zenon
        <4> QED
          BY <3>1, <4>3, <4>4, Zenon
      <3>2. CASE p \notin at
        BY <1>6, <1>8, <3>2, Zenon
      <3> QED
        BY <3>1, <3>2, Zenon
    <2>2. h = [p \in 1..n + 1 |-> h[p]]
      <3> HIDE DEF V, next, make
      <3> QED
        BY <1>8
    <2>3. h = [p \in 1..n + 1 |->
                 IF p \in at THEN <<EventAt(f, p)>> \o h[NextRecord(f, p)] ELSE <<>>]
      BY <2>1, <2>2, Zenon
    <2> QED
      BY <1>1, <2>3, Zenon DEF IsWalk
  <1>10. PICK w : w = CHOOSE x : IsWalk(x, f, at)
    OBVIOUS
  <1>11. IsWalk(w, f, at)
    BY <1>9, <1>10, Zenon
  <1>12. Walk(f, at) = w[1]
    BY <1>10, Zenon DEF Walk, IsWalk
  <1>13. \A p \in 1..n + 1 :
            w[p] = IF p \in at THEN <<EventAt(f, p)>> \o w[NextRecord(f, p)] ELSE <<>>
    BY <1>1, <1>11, Zenon DEF IsWalk
  <1>14. \A p \in 1..n + 1 : w[p] \in V
    <2> DEFINE Good == {p \in 1..n + 1 : w[p] \in V}
    <2>1. ASSUME NEW p \in 1..n + 1, p \in at => next[p] \in Good PROVE p \in Good
      <3>1. CASE p \in at
        <4>1. w[NextRecord(f, p)] \in V
          BY <2>1, <3>1, Zenon
        <4>2. <<EventAt(f, p)>> \in V
          BY <1>3, <3>1, OneCell, Zenon
        <4>3. <<EventAt(f, p)>> \o w[NextRecord(f, p)] \in V
          BY <4>1, <4>2, ConcatProperties
        <4>4. w[p] = <<EventAt(f, p)>> \o w[NextRecord(f, p)]
          BY <1>13, <3>1, Zenon
        <4> QED
          BY <4>3, <4>4, Zenon
      <3>2. CASE p \notin at
        <4>1. w[p] = <<>>
          BY <1>13, <3>2, Zenon
        <4> QED
          BY <1>6, <4>1, Zenon
      <3> QED
        BY <3>1, <3>2, Zenon
    <2>2. \A p \in 1..n + 1 : p \in Good
      <3> HIDE DEF Good, next, V
      <3> QED
        BY <1>4, <2>1, ForwardInduction, Zenon
    <2> QED
      BY <2>2, Zenon
  <1>15. Walked(w, f, at)
    BY <1>1, <1>13, <1>14, Zenon DEF Walked
  <1> QED
    BY <1>12, <1>15, Zenon

\* What a parser does where the records of es are.
LEMMA RecordPassed ==
  ASSUME NEW es \in Seq(EventRecords), NEW f \in Seq(Nat), Starts(Records(es), f),
         NEW i \in 1..Len(es), NEW p, p = Len(Saved(es, i - 1)) + 1
  PROVE  /\ p \in 1..Len(f) /\ Complete(f, p) /\ EventAt(f, p) = es[i]
         /\ NextRecord(f, p) = Len(Saved(es, i)) + 1
         /\ Len(Saved(es, i)) <= Len(f)
  <1>1. RecordAt(f, p, es[i]) /\ es[i] \in EventRecords
    BY RecordsInPlace, ElementOfSeq, Zenon
  <1>2. PICK n, m, l \in Nat : n = Len(f) /\ m = Len(Record(es[i])) /\ l = Len(Saved(es, i - 1))
    <2>1. i - 1 \in 0..Len(es)
      OBVIOUS
    <2>2. Len(f) \in Nat /\ Len(Record(es[i])) \in Nat /\ Len(Saved(es, i - 1)) \in Nat
      BY <1>1, <2>1, LenProperties, RecordTyped, SavedTyped, Zenon
    <2> QED
      BY <2>2, Zenon
  <1>3. m >= 6 /\ p = l + 1 /\ p - 1 + m <= n
    BY <1>1, <1>2, RecordTyped, Zenon DEF RecordAt
  <1>4. /\ Complete(f, p) /\ EventAt(f, p) = es[i] /\ NextRecord(f, p) = p + m
    BY <1>1, <1>2, RecordRead, Zenon
  <1>5. Len(Saved(es, i)) = l + m
    BY <1>2, RecordsInPlace, Zenon
  <1>6. p \in 1..n /\ p + m = (l + m) + 1 /\ l + m <= n
    BY <1>3
  <1> QED
    BY <1>2, <1>4, <1>5, <1>6, Zenon

LEMMA ReplayPassesRecords ==
  ASSUME NEW es \in Seq(EventRecords), NEW f \in Seq(Nat), Starts(Records(es), f),
         NEW at, \A p \in 1..Len(f) : Complete(f, p) => p \in at,
         NEW h, Walked(h, f, at)
  PROVE  /\ Len(Records(es)) + 1 \in 1..Len(f) + 1
         /\ h[Len(Records(es)) + 1] \in Seq(EventRecords)
         /\ h[1] = es \o h[Len(Records(es)) + 1]
  <1>1. PICK k, n \in Nat : k = Len(es) /\ n = Len(f)
    <2>1. Len(es) \in Nat /\ Len(f) \in Nat
      BY LenProperties, Zenon
    <2> QED
      BY <2>1, Zenon
  <1>2. \A p \in 1..n + 1 :
           /\ h[p] \in Seq(EventRecords)
           /\ p \in at => h[p] = <<EventAt(f, p)>> \o h[NextRecord(f, p)]
    BY <1>1, Zenon DEF Walked
  <1> DEFINE Behold(i) == Len(Saved(es, i)) + 1
             T == {i \in 0..k : /\ Behold(i) \in 1..n + 1
                                /\ h[1] = SubSeq(es, 1, i) \o h[Behold(i)]}
  <1>3. 0 \in T
    <2>1. Saved(es, 0) = <<>> /\ Len(<<>>) = 0 /\ 0 + 1 = 1 /\ 1 \in 1..n + 1 /\ 0 \in 0..k
      BY SavedNone
    <2>2. SubSeq(es, 1, 0) = <<>>
      BY SubSeqEmpty
    <2>3. <<>> \o h[1] = h[1]
      BY <1>2, <2>1, ConcatEmptySeq, Zenon
    <2> QED
      BY <2>1, <2>2, <2>3, Zenon
  <1>4. ASSUME NEW i \in 0..k - 1, i \in T PROVE i + 1 \in T
    <2>1. PICK j \in 1..k : j = i + 1 /\ j - 1 = i /\ j \in 0..k
      <3>1. i + 1 \in 1..k /\ (i + 1) - 1 = i /\ i + 1 \in 0..k
        OBVIOUS
      <3> QED
        BY <3>1, Zenon
    <2>2. PICK p : p = Len(Saved(es, j - 1)) + 1
      OBVIOUS
    <2>3. /\ p \in 1..n /\ Complete(f, p) /\ EventAt(f, p) = es[j]
          /\ NextRecord(f, p) = Behold(j) /\ Len(Saved(es, j)) <= n
      BY <1>1, <2>1, <2>2, RecordPassed, Zenon
    <2>4. p \in at /\ p \in 1..n + 1
      <3>1. p \in 1..n + 1
        BY <2>3
      <3> QED
        BY <1>1, <2>3, <3>1, Zenon
    <2>5. h[p] = <<es[j]>> \o h[Behold(j)]
      BY <1>2, <2>3, <2>4, Zenon
    <2>6. Behold(j) \in 1..n + 1
      <3>1. PICK l \in Nat : l = Len(Saved(es, j))
        <4>1. Len(Saved(es, j)) \in Nat
          BY <1>1, <2>1, SavedTyped, Zenon
        <4> QED
          BY <4>1, Zenon
      <3>2. l <= n
        BY <2>3, <3>1, Zenon
      <3>3. l + 1 \in 1..n + 1
        BY <3>2
      <3> QED
        BY <3>1, <3>3, Zenon
    <2>7. h[1] = SubSeq(es, 1, j - 1) \o h[p]
      BY <1>4, <2>1, <2>2, Zenon
    <2>8. PICK a, b, c : a = SubSeq(es, 1, j - 1) /\ b = <<es[j]>> /\ c = h[Behold(j)]
      OBVIOUS
    <2>9. a \in Seq(EventRecords) /\ b \in Seq(EventRecords) /\ c \in Seq(EventRecords)
      <3>1. j - 1 \in 0..k
        OBVIOUS
      <3>2. es[j] \in EventRecords
        BY <1>1, ElementOfSeq, Zenon
      <3> QED
        BY <1>1, <1>2, <2>6, <2>8, <3>1, <3>2, FirstEvents, OneCell, Zenon
    <2>10. SubSeq(es, 1, j) = a \o b
      <3>1. SubSeq(es, 1, j) = Append(a, es[j])
        BY <1>1, <2>8, OneEventMore, Zenon
      <3>2. es[j] \in EventRecords
        BY <1>1, ElementOfSeq, Zenon
      <3>3. Append(a, es[j]) = a \o b
        BY <2>8, <2>9, <3>2, AppendIsConcat
      <3> QED
        BY <3>1, <3>3, Zenon
    <2>11. (a \o b) \o c = a \o (b \o c)
      <3>1. Associates(a, b, c)
        BY <2>9, ConcatAssociates, Zenon
      <3> QED
        BY <3>1, Zenon DEF Associates
    <2>12. h[1] = SubSeq(es, 1, j) \o h[Behold(j)]
      BY <2>5, <2>7, <2>8, <2>10, <2>11, Zenon
    <2>13. j \in T
      BY <2>1, <2>6, <2>12, Zenon
    <2> QED
      BY <2>1, <2>13, Zenon
  <1>5. k \in T
    <2> HIDE DEF T
    <2>1. (\A i \in 0..k - 1 : i \in T => i + 1 \in T) /\ k \in 0..k
      BY <1>4
    <2> QED
      BY <1>3, <2>1, InductionUpTo, Zenon
  <1>6. Saved(es, k) = Records(es) /\ SubSeq(es, 1, k) = es
    BY <1>1, SavedAll, SubSeqFull, Zenon
  <1> QED
    BY <1>1, <1>2, <1>5, <1>6, Zenon

\* A replay hands over the events whose records a file starts with, in order, and
\* nothing else when there is nothing else.
LEMMA ReplayOfRecords ==
  ASSUME NEW es \in Seq(EventRecords), NEW f \in Seq(Nat), Starts(Records(es), f)
  PROVE  /\ IsPrefix(es, Replay(f))
         /\ f = Records(es) => Replay(f) = es
  <1>1. PICK at : at = {p \in 1..Len(f) : Readable(f, p)}
    OBVIOUS
  <1>2. Stops(f, at) /\ \A p \in 1..Len(f) : Complete(f, p) => p \in at
    <2>1. \A p \in 1..Len(f) : Complete(f, p) => Readable(f, p)
      BY Zenon DEF Complete
    <2>2. at \in SUBSET (1..Len(f)) /\ \A p \in at : Readable(f, p)
      BY <1>1, Zenon
    <2> QED
      BY <1>1, <2>1, <2>2, Zenon DEF Stops
  <1>3. PICK h : Walked(h, f, at) /\ Replay(f) = h[1]
    BY <1>1, <1>2, WalkValues, Zenon DEF Replay
  <1>4. PICK q : q = Len(Records(es)) + 1
    OBVIOUS
  <1>5. q \in 1..Len(f) + 1 /\ h[q] \in Seq(EventRecords) /\ h[1] = es \o h[q]
    BY <1>2, <1>3, <1>4, ReplayPassesRecords, Zenon
  <1>6. IsPrefix(es, Replay(f))
    <2>1. Starts(es, es \o h[q])
      BY <1>5, StartsMore, Zenon
    <2>2. es \o h[q] \in Seq(EventRecords)
      BY <1>5, ConcatProperties
    <2> QED
      BY <1>3, <1>5, <2>1, <2>2, StartsIsPrefix, Zenon
  <1>7. ASSUME f = Records(es) PROVE Replay(f) = es
    <2>1. q \notin 1..Len(f)
      <3>1. PICK n \in Nat : n = Len(f)
        <4>1. Len(f) \in Nat
          BY LenProperties, Zenon
        <4> QED
          BY <4>1, Zenon
      <3>2. q = n + 1
        BY <1>4, <1>7, <3>1, Zenon
      <3>3. q \notin 1..n
        BY <3>2
      <3> QED
        BY <3>1, <3>3, Zenon
    <2>2. q \notin at
      BY <1>1, <2>1, Zenon
    <2>3. h[q] = <<>>
      BY <1>3, <1>5, <2>2, Zenon DEF Walked
    <2>4. es \o <<>> = es
      BY ConcatEmptySeq, Zenon
    <2> QED
      BY <1>3, <1>5, <2>3, <2>4, Zenon
  <1> QED
    BY <1>6, <1>7, Zenon

-------------------------------------------------------------------------------
(* The same events from a longer file.                                        *)

LEMMA StartsBehind ==
  ASSUME NEW S, NEW x \in Seq(S), NEW a \in Seq(S), NEW b \in Seq(S), Starts(a, b)
  PROVE  Starts(x \o a, x \o b)
  <1>1. PICK k, n, m \in Nat : k = Len(x) /\ n = Len(a) /\ m = Len(b)
    <2>1. Len(x) \in Nat /\ Len(a) \in Nat /\ Len(b) \in Nat
      BY LenProperties, Zenon
    <2> QED
      BY <2>1, Zenon
  <1>2. n <= m /\ \A i \in 1..n : b[i] = a[i]
    BY <1>1, Zenon DEF Starts
  <1>3. PICK c, d : c = x \o a /\ d = x \o b
    OBVIOUS
  <1>4. /\ Len(c) = k + n
        /\ \A j \in 1..k + n : c[j] = IF j <= k THEN x[j] ELSE a[j - k]
    BY <1>1, <1>3, ConcatProperties, Zenon
  <1>5. /\ Len(d) = k + m
        /\ \A j \in 1..k + m : d[j] = IF j <= k THEN x[j] ELSE b[j - k]
    BY <1>1, <1>3, ConcatProperties, Zenon
  <1>6. ASSUME NEW j \in 1..k + n PROVE d[j] = c[j]
    <2>1. j \in 1..k + m /\ (j <= k \/ j - k \in 1..n)
      BY <1>2
    <2>2. CASE j <= k
      BY <1>4, <1>5, <2>1, <2>2, Zenon
    <2>3. CASE ~ (j <= k)
      BY <1>2, <1>4, <1>5, <2>1, <2>3, Zenon
    <2> QED
      BY <2>2, <2>3, Zenon
  <1>7. k + n \in Nat /\ k + m \in Nat /\ k + n <= k + m
    BY <1>2
  <1> QED
    BY <1>3, <1>4, <1>5, <1>6, <1>7, Zenon DEF Starts

LEMMA LongerReplay ==
  ASSUME NEW f \in Seq(Nat), NEW g \in Seq(Nat), Starts(f, g)
  PROVE  IsPrefix(CompleteReplay(f), Replay(g))
  <1>1. PICK n, m \in Nat : n = Len(f) /\ m = Len(g) /\ n <= m
    BY DEF Starts
  <1>2. PICK at : at = {p \in 1..Len(f) : Complete(f, p)}
    OBVIOUS
  <1>3. PICK also : also = {p \in 1..Len(g) : Readable(g, p)}
    OBVIOUS
  <1>4. Stops(f, at)
    BY <1>2, Zenon DEF Stops, Complete
  <1>5. Stops(g, also)
    BY <1>3, Zenon DEF Stops
  <1>6. PICK c : Walked(c, f, at) /\ CompleteReplay(f) = c[1]
    BY <1>2, <1>4, WalkValues, Zenon DEF CompleteReplay
  <1>7. PICK h : Walked(h, g, also) /\ Replay(g) = h[1]
    BY <1>3, <1>5, WalkValues, Zenon DEF Replay
  <1>8. \A p \in 1..n + 1 : p \in 1..m + 1
    BY <1>1
  <1>9. \A p \in 1..n + 1 : c[p] \in Seq(EventRecords) /\ h[p] \in Seq(EventRecords)
    BY <1>1, <1>6, <1>7, <1>8, Zenon DEF Walked
  <1> DEFINE next == [p \in at |-> NextRecord(f, p)]
             Good == {p \in 1..n + 1 : Starts(c[p], h[p])}
  <1>10. \A p \in at : p \in 1..n /\ Complete(f, p) /\ Readable(f, p)
    BY <1>1, <1>2, Zenon DEF Complete
  <1>11. \A p \in at : EventAt(f, p) \in EventRecords /\ NextRecord(f, p) \in p + 1..n + 1
    BY <1>1, <1>10, ReadableIsEvent, Zenon
  <1>12. Onward(next, at, n)
    <2>1. \A p \in at : NextRecord(f, p) \in 1..n + 1 /\ NextRecord(f, p) > p
      BY <1>10, <1>11
    <2> QED
      BY <1>10, <2>1 DEF Onward
  <1>13. ASSUME NEW p \in 1..n + 1, p \in at => next[p] \in Good PROVE p \in Good
    <2>1. CASE p \in at
      <3>1. PICK q \in Good : q = NextRecord(f, p)
        BY <1>13, <2>1, Zenon
      <3>2. /\ Readable(g, p) /\ EventAt(g, p) = EventAt(f, p)
            /\ NextRecord(g, p) = NextRecord(f, p)
        BY <1>1, <1>10, <2>1, CompleteStays, Zenon
      <3>3. p \in also
        <4>1. p \in 1..m
          BY <1>1, <1>10, <2>1
        <4> QED
          BY <1>1, <1>3, <3>2, <4>1, Zenon
      <3>4. PICK x : x = <<EventAt(f, p)>>
        OBVIOUS
      <3>5. c[p] = x \o c[q] /\ h[p] = x \o h[q]
        BY <1>1, <1>6, <1>7, <1>8, <2>1, <3>1, <3>2, <3>3, <3>4, Zenon DEF Walked
      <3>6. x \in Seq(EventRecords) /\ c[q] \in Seq(EventRecords) /\ h[q] \in Seq(EventRecords)
        BY <1>9, <1>11, <2>1, <3>4, OneCell, Zenon
      <3>7. Starts(x \o c[q], x \o h[q])
        BY <3>6, StartsBehind, Zenon
      <3> QED
        BY <3>5, <3>7, Zenon
    <2>2. CASE p \notin at
      <3>1. c[p] = <<>> /\ Len(<<>>) = 0
        <4>1. Len(<<>>) = 0
          OBVIOUS
        <4> QED
          BY <1>1, <1>6, <2>2, <4>1, Zenon DEF Walked
      <3>2. PICK l \in Nat : l = Len(h[p])
        <4>1. Len(h[p]) \in Nat
          BY <1>9, LenProperties, Zenon
        <4> QED
          BY <4>1, Zenon
      <3>3. 0 \in Nat /\ 0 <= l /\ \A i \in 1..0 : FALSE
        OBVIOUS
      <3>4. Starts(c[p], h[p])
        BY <3>1, <3>2, <3>3, Zenon DEF Starts
      <3> QED
        BY <3>4, Zenon
    <2> QED
      BY <2>1, <2>2, Zenon
  <1>14. \A p \in 1..n + 1 : p \in Good
    <2> HIDE DEF Good, next
    <2> QED
      BY <1>12, <1>13, ForwardInduction, Zenon
  <1>15. 1 \in 1..n + 1
    OBVIOUS
  <1> QED
    BY <1>6, <1>7, <1>9, <1>14, <1>15, StartsIsPrefix, Zenon

-------------------------------------------------------------------------------
(* Counting.                                                                  *)

IsTally(c, f, t) ==
  c = [p \in 1..Len(f) + 1 |->
         IF p <= Len(f) THEN (IF f[p] = t THEN 1 ELSE 0) + c[Skip(f, p)] ELSE 0]

Tallied(c, f, t) ==
  \A p \in 1..Len(f) + 1 :
     /\ c[p] \in Nat
     /\ c[p] = IF p <= Len(f) THEN (IF f[p] = t THEN 1 ELSE 0) + c[Skip(f, p)] ELSE 0

LEMMA TallyValues ==
  ASSUME NEW f \in Seq(Nat), NEW t
  PROVE  \E c : Tallied(c, f, t) /\ TypeCount(f, t) = c[1]
  <1>1. PICK n \in Nat : n = Len(f)
    <2>1. Len(f) \in Nat
      BY LenProperties, Zenon
    <2> QED
      BY <2>1, Zenon
  <1> DEFINE One(p) == IF f[p] = t THEN 1 ELSE 0
             next == [p \in 1..n |-> Skip(f, p)]
             make == [p \in 1..n |-> [x \in Nat |-> One(p) + x]]
  <1>2. \A p \in 1..n : Skip(f, p) \in p + 1..n + 1
    <2> TAKE p \in 1..n
    <2>1. CASE Readable(f, p)
      BY <1>1, <2>1, ReadableIsEvent, Zenon DEF Skip
    <2>2. CASE ~Readable(f, p)
      <3>1. Skip(f, p) = n + 1
        BY <1>1, <2>2, Zenon DEF Skip
      <3>2. n + 1 \in p + 1..n + 1
        OBVIOUS
      <3> QED
        BY <3>1, <3>2, Zenon
    <2> QED
      BY <2>1, <2>2, Zenon
  <1>3. Onward(next, 1..n, n)
    <2>1. \A p \in 1..n : Skip(f, p) \in 1..n + 1 /\ Skip(f, p) > p
      BY <1>2
    <2> QED
      BY <2>1 DEF Onward
  <1>4. \A p \in 1..n : One(p) \in Nat
    OBVIOUS
  <1>5. Makes(make, 1..n, Nat)
    <2>1. ASSUME NEW p \in 1..n, NEW x \in Nat PROVE One(p) + x \in Nat
      BY <1>4
    <2> HIDE DEF One
    <2> QED
      BY <2>1 DEF Makes
  <1>6. 0 \in Nat
    OBVIOUS
  <1>7. PICK h : Advances(h, Nat, 0, 1..n, next, make, n)
    <2> HIDE DEF next, make
    <2> QED
      BY <1>3, <1>5, <1>6, ForwardRecursion, Zenon
  <1>8. /\ h \in [1..n + 1 -> Nat]
        /\ \A p \in 1..n + 1 : h[p] = IF p \in 1..n THEN make[p][h[next[p]]] ELSE 0
    <2> HIDE DEF next, make
    <2> QED
      BY <1>7, Zenon DEF Advances
  <1>9. \A p \in 1..n + 1 : p <= n <=> p \in 1..n
    OBVIOUS
  <1>10. IsTally(h, f, t)
    <2>1. ASSUME NEW p \in 1..n + 1
          PROVE  h[p] = IF p <= n THEN One(p) + h[Skip(f, p)] ELSE 0
      <3>1. CASE p \in 1..n
        <4>1. next[p] \in 1..n + 1
          <5> HIDE DEF next
          <5> QED
            BY <1>3, <3>1 DEF Onward
        <4>2. h[next[p]] \in Nat
          <5> HIDE DEF next, make
          <5> QED
            BY <1>8, <4>1
        <4>3. h[p] = make[p][h[next[p]]]
          BY <1>8, <3>1, Zenon
        <4>4. make[p][h[next[p]]] = One(p) + h[Skip(f, p)]
          BY <3>1, <4>2, Zenon
        <4> QED
          BY <1>9, <3>1, <4>3, <4>4, Zenon
      <3>2. CASE p \notin 1..n
        BY <1>8, <1>9, <3>2, Zenon
      <3> QED
        BY <3>1, <3>2, Zenon
    <2>2. h = [p \in 1..n + 1 |-> h[p]]
      <3> HIDE DEF next, make
      <3> QED
        BY <1>8
    <2>3. h = [p \in 1..n + 1 |-> IF p <= n THEN One(p) + h[Skip(f, p)] ELSE 0]
      BY <2>1, <2>2, Zenon
    <2> QED
      BY <1>1, <2>3, Zenon DEF IsTally
  <1>11. PICK w : w = CHOOSE x : IsTally(x, f, t)
    OBVIOUS
  <1>12. IsTally(w, f, t)
    BY <1>10, <1>11, Zenon
  <1>13. TypeCount(f, t) = w[1]
    BY <1>11, Zenon DEF TypeCount, IsTally
  <1>14. \A p \in 1..n + 1 : w[p] = IF p <= n THEN One(p) + w[Skip(f, p)] ELSE 0
    BY <1>1, <1>12, Zenon DEF IsTally
  <1> DEFINE Good == {p \in 1..n + 1 : w[p] \in Nat}
  <1>15. ASSUME NEW p \in 1..n + 1, p \in 1..n => next[p] \in Good PROVE p \in Good
    <2>1. CASE p \in 1..n
      <3>1. w[Skip(f, p)] \in Nat
        BY <1>15, <2>1, Zenon
      <3>2. w[p] = One(p) + w[Skip(f, p)]
        BY <1>9, <1>14, <2>1, Zenon
      <3>3. One(p) + w[Skip(f, p)] \in Nat
        <4> HIDE DEF One
        <4> QED
          BY <1>4, <2>1, <3>1
      <3> QED
        BY <3>2, <3>3, Zenon
    <2>2. CASE p \notin 1..n
      BY <1>6, <1>9, <1>14, <2>2, Zenon
    <2> QED
      BY <2>1, <2>2, Zenon
  <1>16. \A p \in 1..n + 1 : p \in Good
    <2> HIDE DEF Good, next
    <2> QED
      BY <1>3, <1>15, ForwardInduction, Zenon
  <1>17. Tallied(w, f, t)
    BY <1>1, <1>14, <1>16, Zenon DEF Tallied
  <1> QED
    BY <1>13, <1>17, Zenon

\* What is counted of a type in the records of es is what es has of it.
LEMMA CountOfRecords ==
  ASSUME NEW es \in Seq(EventRecords), NEW t
  PROVE  TypeCount(Records(es), t) = Cardinality({i \in DOMAIN es : es[i].type = t})
  <1>1. PICK f \in Seq(Nat) : f = Records(es)
    BY RecordsTyped, Zenon
  <1>2. Starts(Records(es), f)
    BY <1>1, RecordsTyped, StartsItself, Zenon
  <1>3. PICK k, n \in Nat : k = Len(es) /\ n = Len(f)
    <2>1. Len(es) \in Nat /\ Len(f) \in Nat
      BY LenProperties, Zenon
    <2> QED
      BY <2>1, Zenon
  <1>4. PICK c : Tallied(c, f, t) /\ TypeCount(f, t) = c[1]
    BY TallyValues, Zenon
  <1> DEFINE One(p) == IF f[p] = t THEN 1 ELSE 0
             Has(i) == {j \in 1..i : es[j].type = t}
             Behold(i) == Len(Saved(es, i)) + 1
             T == {i \in 0..k : /\ IsFiniteSet(Has(i)) /\ Cardinality(Has(i)) \in Nat
                                /\ c[1] = Cardinality(Has(i)) + c[Behold(i)]}
  <1>5. \A p \in 1..n + 1 :
           c[p] \in Nat /\ c[p] = IF p <= n THEN One(p) + c[Skip(f, p)] ELSE 0
    BY <1>3, <1>4, Zenon DEF Tallied
  <1>6. 0 \in T
    <2>1. Has(0) = {}
      OBVIOUS
    <2>2. IsFiniteSet({}) /\ Cardinality({}) = 0
      BY FS_EmptySet
    <2>3. Saved(es, 0) = <<>> /\ Len(<<>>) = 0 /\ 0 + 1 = 1 /\ 1 \in 1..n + 1
      BY SavedNone
    <2>4. c[1] = 0 + c[1] /\ 0 \in Nat /\ 0 \in 0..k
      BY <1>5, <2>3
    <2> HIDE DEF Has
    <2> QED
      BY <2>1, <2>2, <2>3, <2>4, Zenon
  <1>7. ASSUME NEW i \in 0..k - 1, i \in T PROVE i + 1 \in T
    <2>1. PICK j \in 1..k : j = i + 1 /\ j - 1 = i /\ j \in 0..k
      <3>1. i + 1 \in 1..k /\ (i + 1) - 1 = i /\ i + 1 \in 0..k
        OBVIOUS
      <3> QED
        BY <3>1, Zenon
    <2>2. PICK p : p = Len(Saved(es, j - 1)) + 1
      OBVIOUS
    <2>3. /\ p \in 1..n /\ Complete(f, p) /\ EventAt(f, p) = es[j]
          /\ NextRecord(f, p) = Behold(j)
      BY <1>2, <1>3, <2>1, <2>2, RecordPassed, Zenon
    <2>4. f[p] = es[j].type
      <3>1. EventAt(f, p).type = f[p]
        BY DEF EventAt
      <3> QED
        BY <2>3, <3>1, Zenon
    <2>5. Skip(f, p) = Behold(j)
      BY <2>3, Zenon DEF Skip, Complete
    <2>6. c[p] = One(p) + c[Behold(j)]
      <3>1. p \in 1..n + 1 /\ p <= n
        BY <2>3
      <3> QED
        BY <1>5, <2>5, <3>1, Zenon
    <2>7. Behold(j) \in 1..n + 1
      <3>1. NextRecord(f, p) \in p + 1..n + 1
        BY <1>3, <2>3, ReadableIsEvent, Zenon DEF Complete
      <3>2. NextRecord(f, p) \in 1..n + 1
        BY <2>3, <3>1
      <3> QED
        BY <2>3, <3>2, Zenon
    <2>8. c[Behold(j)] \in Nat
      BY <1>5, <2>7, Zenon
    <2>9. /\ IsFiniteSet(Has(i)) /\ Cardinality(Has(i)) \in Nat
          /\ c[1] = Cardinality(Has(i)) + c[p]
      BY <1>7, <2>1, <2>2, Zenon
    <2>10. j \notin Has(i)
      BY <2>1
    <2>11. Has(j) = IF es[j].type = t THEN Has(i) \cup {j} ELSE Has(i)
      <3>1. \A l : l \in 1..j <=> l \in 1..i \/ l = j
        BY <2>1
      <3> QED
        BY <3>1
    <2>12. /\ IsFiniteSet(Has(j)) /\ Cardinality(Has(j)) = Cardinality(Has(i)) + One(p)
      <3> HIDE DEF Has
      <3>1. CASE es[j].type = t
        <4>1. One(p) = 1 /\ Has(j) = Has(i) \cup {j}
          BY <2>4, <2>11, <3>1, Zenon
        <4>2. /\ IsFiniteSet(Has(i) \cup {j})
              /\ Cardinality(Has(i) \cup {j}) = Cardinality(Has(i)) + 1
          BY <2>9, <2>10, FS_AddElement
        <4> QED
          BY <4>1, <4>2, Zenon
      <3>2. CASE es[j].type # t
        <4>1. One(p) = 0 /\ Has(j) = Has(i)
          BY <2>4, <2>11, <3>2, Zenon
        <4>2. Cardinality(Has(i)) = Cardinality(Has(i)) + 0
          BY <2>9
        <4> QED
          BY <2>9, <4>1, <4>2, Zenon
      <3> QED
        BY <3>1, <3>2, Zenon
    <2>13. Cardinality(Has(j)) \in Nat /\ c[1] = Cardinality(Has(j)) + c[Behold(j)]
      <3>1. One(p) \in Nat
        OBVIOUS
      <3>2. PICK a, b, d, e \in Nat : /\ a = Cardinality(Has(i)) /\ b = One(p)
                                      /\ d = c[Behold(j)] /\ e = a + b
        <4>1. Cardinality(Has(i)) + One(p) \in Nat
          <5> HIDE DEF One, Has
          <5> QED
            BY <2>9, <3>1
        <4> HIDE DEF One, Has
        <4> QED
          BY <2>8, <2>9, <3>1, <4>1, Zenon
      <3>3. a + (b + d) = e + d
        <4>1. e = a + b
          BY <3>2, Zenon
        <4> QED
          BY <4>1
      <3> HIDE DEF One, Has
      <3> QED
        BY <2>6, <2>9, <2>12, <3>2, <3>3, Zenon
    <2>14. j \in T
      <3> HIDE DEF Has
      <3> QED
        BY <2>1, <2>12, <2>13, Zenon
    <2> QED
      BY <2>1, <2>14, Zenon
  <1>8. k \in T
    <2> HIDE DEF T
    <2>1. (\A i \in 0..k - 1 : i \in T => i + 1 \in T) /\ k \in 0..k
      BY <1>7
    <2> QED
      BY <1>6, <2>1, InductionUpTo, Zenon
  <1>9. c[Behold(k)] = 0
    <2>1. Behold(k) = n + 1
      BY <1>1, <1>3, SavedAll, Zenon
    <2>2. n + 1 \in 1..n + 1 /\ ~ (n + 1 <= n)
      OBVIOUS
    <2> QED
      BY <1>5, <2>1, <2>2, Zenon
  <1>10. c[1] = Cardinality(Has(k))
    <2>1. c[1] = Cardinality(Has(k)) + 0 /\ Cardinality(Has(k)) \in Nat
      BY <1>8, <1>9, Zenon
    <2> HIDE DEF Has
    <2> QED
      BY <2>1
  <1>11. Has(k) = {i \in DOMAIN es : es[i].type = t}
    <2>1. DOMAIN es = 1..k
      BY <1>3, LenProperties, Zenon
    <2> QED
      BY <2>1, Zenon
  <1> QED
    BY <1>1, <1>4, <1>10, <1>11, Zenon

-------------------------------------------------------------------------------
(* The store.                                                                 *)

\* As long as nothing was torn, the cells of the file and of the buffer are the
\* records of the log and nothing else; after that, the file still starts with
\* the records of the log.
StoreInv ==
  /\ EventStoreTypeOK
  /\ ~torn => file \o buf = Records(log)
  /\ torn => Starts(Records(log), file)

LEMMA EventsAreRecords == Seq(Events) \subseteq Seq(EventRecords)
  BY EventsAssumption, SeqMonotonic, Zenon

LEMMA LargestUpTo ==
  ASSUME NEW n \in Nat, NEW S \in SUBSET (0..n), S # {}
  PROVE  Max(S) \in S
  <1> DEFINE T == {k \in 0..n : n - k \in S}
  <1>1. T \in SUBSET Nat /\ T # {}
    <2>1. PICK x \in S : TRUE
      OBVIOUS
    <2>2. n - x \in 0..n /\ n - (n - x) = x
      OBVIOUS
    <2>3. n - x \in T
      BY <2>1, <2>2, Zenon
    <2>4. T \in SUBSET Nat
      OBVIOUS
    <2> HIDE DEF T
    <2> QED
      BY <2>3, <2>4, Zenon
  <1>2. PICK k \in T : \A l \in T : k <= l
    <2> HIDE DEF T
    <2> QED
      BY <1>1, LeastNat
  <1>3. PICK m \in S : m = n - k /\ k \in 0..n
    BY <1>2
  <1>4. \A y \in S : m >= y
    <2> TAKE y \in S
    <2>1. y \in 0..n /\ n - y \in 0..n /\ n - (n - y) = y
      OBVIOUS
    <2>2. n - y \in T
      BY <2>1, Zenon
    <2>3. k <= n - y
      BY <1>2, <2>2, Zenon
    <2> HIDE DEF T
    <2> QED
      BY <1>3, <2>1, <2>3
  <1> QED
    BY <1>3, <1>4, Zenon DEF Max

\* What remains of the log is a part of it, and its records are not longer than
\* the file.
LEMMA RemainingIsSaved ==
  ASSUME NEW f \in Seq(Nat), log \in Seq(EventRecords)
  PROVE  \E n \in 0..Len(log) : /\ Remaining(f) = SubSeq(log, 1, n)
                                /\ Len(Saved(log, n)) <= Len(f)
  <1>1. PICK k, m \in Nat : k = Len(log) /\ m = Len(f)
    <2>1. Len(log) \in Nat /\ Len(f) \in Nat
      BY LenProperties, Zenon
    <2> QED
      BY <2>1, Zenon
  <1>2. PICK whole : whole = {n \in 0..k : Len(Records(SubSeq(log, 1, n))) <= Len(f)}
    OBVIOUS
  <1>3. whole \in SUBSET (0..k)
    BY <1>2, Zenon
  <1>4. 0 \in whole
    <2>1. Saved(log, 0) = <<>> /\ Len(<<>>) = 0
      BY SavedNone
    <2>2. 0 <= m /\ 0 \in 0..k
      OBVIOUS
    <2>3. Len(Records(SubSeq(log, 1, 0))) <= Len(f)
      BY <1>1, <2>1, <2>2, Zenon DEF Saved
    <2> QED
      BY <1>2, <2>2, <2>3, Zenon
  <1>5. Max(whole) \in whole
    BY <1>3, <1>4, LargestUpTo, Zenon
  <1>6. Remaining(f) = SubSeq(log, 1, Max(whole))
    BY <1>1, <1>2, Zenon DEF Remaining
  <1> QED
    BY <1>1, <1>2, <1>5, <1>6, Zenon DEF Saved

\* The records of what remains are the beginning of the file, when the file and
\* the records of the log are beginnings of the same cells.
LEMMA RemainingStarts ==
  ASSUME log \in Seq(Events), NEW f \in Seq(Nat),
         Starts(f, Records(log)) \/ Starts(Records(log), f)
  PROVE  /\ Remaining(f) \in Seq(Events)
         /\ Starts(Records(Remaining(f)), f)
  <1>1. log \in Seq(EventRecords)
    BY EventsAreRecords, Zenon
  <1>2. PICK n \in 0..Len(log) : /\ Remaining(f) = SubSeq(log, 1, n)
                                 /\ Len(Saved(log, n)) <= Len(f)
    BY <1>1, RemainingIsSaved, Zenon
  <1>3. Remaining(f) \in Seq(Events)
    BY <1>2, FirstEvents, Zenon
  <1>4. Starts(Saved(log, n), Records(log))
    BY <1>1, SavedStarts, Zenon
  <1>5. Starts(Saved(log, n), f)
    BY <1>2, <1>4, ShorterStarts, StartsAlso, Zenon
  <1> QED
    BY <1>2, <1>3, <1>5, Zenon DEF Saved

LEMMA StoreStarts == Init => StoreInv
  <1> SUFFICES ASSUME Init PROVE StoreInv
    OBVIOUS
  <1>1. file = <<>> /\ buf = <<>> /\ log = <<>> /\ open = FALSE /\ torn = FALSE
    BY DEF Init
  <1>2. <<>> \in Seq(Nat) /\ <<>> \in Seq(Events) /\ <<>> \o <<>> = <<>>
    BY EmptySeq, ConcatEmptySeq, Zenon
  <1>3. EventStoreTypeOK
    BY <1>1, <1>2, Zenon DEF EventStoreTypeOK
  <1> QED
    BY <1>1, <1>2, <1>3, NoRecords, Zenon DEF StoreInv

\* The cells that have not moved.
LEMMA SpillKeeps ==
  ASSUME NEW a \in Seq(Nat), NEW b \in Seq(Nat), NEW n \in 1..Len(b)
  PROVE  /\ a \o SubSeq(b, 1, n) \in Seq(Nat) /\ SubSeq(b, n + 1, Len(b)) \in Seq(Nat)
         /\ Starts(a, a \o SubSeq(b, 1, n))
         /\ (a \o SubSeq(b, 1, n)) \o SubSeq(b, n + 1, Len(b)) = a \o b
  <1>1. PICK m \in Nat : m = Len(b)
    <2>1. Len(b) \in Nat
      BY LenProperties, Zenon
    <2> QED
      BY <2>1, Zenon
  <1>2. /\ n \in Nat /\ n <= m /\ m - n \in Nat /\ n + (m - n) = m
        /\ 1 \in 1..m + 1 /\ n \in 1 - 1..m /\ m \in n..m
    BY <1>1
  <1>3. PICK c, d : c = SubSeq(b, 1, n) /\ d = SubSeq(b, n + 1, Len(b))
    OBVIOUS
  <1>4. c \in Seq(Nat)
    BY <1>1, <1>2, <1>3, FirstCells, Zenon
  <1>5. d \in Seq(Nat)
    <2>1. SubSeq(b, n + 1, n + (m - n)) \in Seq(Nat)
      <3>1. n + (m - n) <= Len(b)
        BY <1>1, <1>2
      <3> QED
        BY <1>2, <3>1, PartCells, Zenon DEF Part
    <2> QED
      BY <1>1, <1>2, <1>3, <2>1, Zenon
  <1>6. c \o d = b
    <2>1. SubSeq(b, 1, n) \o SubSeq(b, n + 1, m) = SubSeq(b, 1, m)
      BY <1>1, <1>2, ConcatAdjacentSubSeq
    <2> QED
      BY <1>1, <1>3, <2>1, SubSeqFull, Zenon
  <1>7. (a \o c) \o d = a \o (c \o d)
    <2>1. Associates(a, c, d)
      BY <1>4, <1>5, ConcatAssociates, Zenon
    <2> QED
      BY <2>1, Zenon DEF Associates
  <1>8. a \o c \in Seq(Nat)
    BY <1>4, ConcatProperties
  <1>9. Starts(a, a \o c)
    BY <1>4, StartsMore, Zenon
  <1> QED
    BY <1>3, <1>5, <1>6, <1>7, <1>8, <1>9, Zenon

\* The part of a buffer that was written before the rest was lost.
LEMMA LostCells ==
  ASSUME NEW a \in Seq(Nat), NEW b \in Seq(Nat), NEW n \in 0..Len(b)
  PROVE  /\ a \o SubSeq(b, 1, n) \in Seq(Nat)
         /\ Starts(a, a \o SubSeq(b, 1, n))
         /\ Starts(a \o SubSeq(b, 1, n), a \o b)
  <1>1. CASE n = 0
    <2>1. SubSeq(b, 1, 0) = <<>>
      BY SubSeqEmpty
    <2>2. a \o <<>> = a /\ Len(a) \in Nat
      BY ConcatEmptySeq, LenProperties, Zenon
    <2>3. Starts(a, a) /\ Starts(a, a \o b)
      BY <2>2, StartsItself, StartsMore, Zenon
    <2> QED
      BY <1>1, <2>1, <2>2, <2>3, Zenon
  <1>2. CASE n # 0
    <2>1. n \in 1..Len(b)
      BY <1>2
    <2>2. PICK c, d : c = a \o SubSeq(b, 1, n) /\ d = SubSeq(b, n + 1, Len(b))
      OBVIOUS
    <2>3. c \in Seq(Nat) /\ d \in Seq(Nat) /\ Starts(a, c) /\ c \o d = a \o b
      BY <2>1, <2>2, SpillKeeps, Zenon
    <2>4. Starts(c, a \o b)
      BY <2>3, StartsMore, Zenon
    <2> QED
      BY <2>2, <2>3, <2>4, Zenon
  <1> QED
    BY <1>1, <1>2, Zenon

LEMMA LoseKeeps ==
  ASSUME StoreInv, NEW n \in 0..Len(buf), Lose(n), open' \in BOOLEAN
  PROVE  StoreInv' /\ Starts(file, file')
  <1>1. /\ ~torn /\ file' = file \o SubSeq(buf, 1, n) /\ buf' = <<>>
        /\ log' = Remaining(file') /\ torn' = (file' # Records(log'))
    BY Zenon DEF Lose
  <1>2. file \in Seq(Nat) /\ buf \in Seq(Nat) /\ log \in Seq(Events)
    BY Zenon DEF StoreInv, EventStoreTypeOK
  <1>3. file \o buf = Records(log)
    BY <1>1, Zenon DEF StoreInv
  <1>4. /\ file' \in Seq(Nat) /\ Starts(file, file') /\ Starts(file', Records(log))
    BY <1>1, <1>2, <1>3, LostCells, Zenon
  <1>5. log' \in Seq(Events) /\ Starts(Records(log'), file')
    BY <1>1, <1>2, <1>4, RemainingStarts, Zenon
  <1>6. <<>> \in Seq(Nat) /\ file' \o <<>> = file'
    BY <1>4, EmptySeq, ConcatEmptySeq, Zenon
  <1>7. torn' \in BOOLEAN
    BY <1>1
  <1>8. ~torn' => file' \o buf' = Records(log')
    BY <1>1, <1>6, Zenon
  <1> QED
    BY <1>1, <1>4, <1>5, <1>6, <1>7, <1>8, Zenon DEF StoreInv, EventStoreTypeOK

\* A step keeps the invariant, and takes no cell from the file.
LEMMA StoreSteps ==
  StoreInv /\ [Next]_esVars => StoreInv' /\ Starts(file, file')
  <1> SUFFICES ASSUME StoreInv, [Next]_esVars PROVE StoreInv' /\ Starts(file, file')
    OBVIOUS
  <1>1. /\ file \in Seq(Nat) /\ buf \in Seq(Nat) /\ log \in Seq(Events)
        /\ open \in BOOLEAN /\ torn \in BOOLEAN
    BY Zenon DEF StoreInv, EventStoreTypeOK
  <1>2. ~torn => file \o buf = Records(log)
    BY Zenon DEF StoreInv
  <1>3. torn => Starts(Records(log), file)
    BY Zenon DEF StoreInv
  <1>4. Starts(file, file)
    BY <1>1, LenProperties, StartsItself, Zenon
  <1>5. <<>> \in Seq(Nat)
    BY EmptySeq, Zenon
  <1>6. ASSUME file' = file, buf' = buf, log' = log, torn' = torn, open' \in BOOLEAN
        PROVE  StoreInv' /\ Starts(file, file')
    BY <1>1, <1>2, <1>3, <1>4, <1>6, Zenon DEF StoreInv, EventStoreTypeOK
  <1>7. ASSUME file' = file \o buf, buf' = <<>>, log' = log, torn' = torn, open' \in BOOLEAN
        PROVE  StoreInv' /\ Starts(file, file')
    <2>1. file' \in Seq(Nat)
      BY <1>1, <1>7, ConcatProperties
    <2>2. file' \o <<>> = file'
      BY <2>1, ConcatEmptySeq, Zenon
    <2>3. Starts(file, file')
      BY <1>1, <1>7, StartsMore, Zenon
    <2>4. torn => Starts(Records(log), file')
      BY <1>3, <2>3, StartsAlso, Zenon
    <2> QED
      BY <1>1, <1>2, <1>5, <1>7, <2>1, <2>2, <2>3, <2>4, Zenon DEF StoreInv, EventStoreTypeOK
  <1>8. CASE UNCHANGED esVars
    BY <1>1, <1>6, <1>8, Zenon DEF esVars
  <1>9. CASE Create
    <2>1. file' = file /\ buf' = buf /\ log' = log /\ torn' = torn /\ open' \in BOOLEAN
      BY <1>9 DEF Create, Opened
    <2> QED
      BY <1>6, <2>1, Zenon
  <1>10. ASSUME NEW e \in Events, AppendEvent(e) PROVE StoreInv' /\ Starts(file, file')
    <2>1. /\ buf' = buf \o Record(e) /\ log' = (IF torn THEN log ELSE Append(log, e))
          /\ file' = file /\ open' = open /\ torn' = torn
      BY <1>10, Zenon DEF AppendEvent
    <2>2. e \in EventRecords /\ log \in Seq(EventRecords)
      BY <1>1, EventsAssumption, EventsAreRecords, Zenon
    <2>3. Record(e) \in Seq(Nat)
      BY <2>2, RecordTyped, Zenon
    <2>4. buf' \in Seq(Nat)
      BY <1>1, <2>1, <2>3, ConcatProperties
    <2>5. log' \in Seq(Events)
      BY <1>1, <2>1, AppendProperties
    <2>6. ASSUME ~torn PROVE file' \o buf' = Records(log')
      <3>1. PICK r \in Seq(Nat) : r = Record(e)
        BY <2>3, Zenon
      <3>2. file \o (buf \o r) = (file \o buf) \o r
        <4>1. Associates(file, buf, r)
          BY <1>1, ConcatAssociates, Zenon
        <4> QED
          BY <4>1, Zenon DEF Associates
      <3>3. Records(log') = Records(log) \o r
        BY <2>1, <2>2, <2>6, <3>1, RecordsAppend, Zenon
      <3> QED
        BY <1>2, <2>1, <2>6, <3>1, <3>2, <3>3, Zenon
    <2>7. torn => log' = log
      BY <2>1, Zenon
    <2> QED
      BY <1>1, <1>3, <1>4, <2>1, <2>4, <2>5, <2>6, <2>7, Zenon DEF StoreInv, EventStoreTypeOK
  <1>11. ASSUME NEW n \in 1..Len(buf), Spill(n) PROVE StoreInv' /\ Starts(file, file')
    <2>1. /\ file' = file \o SubSeq(buf, 1, n) /\ buf' = SubSeq(buf, n + 1, Len(buf))
          /\ open' = open /\ log' = log /\ torn' = torn
      BY <1>11, Zenon DEF Spill
    <2>2. /\ file' \in Seq(Nat) /\ buf' \in Seq(Nat) /\ Starts(file, file')
          /\ file' \o buf' = file \o buf
      BY <1>1, <2>1, SpillKeeps, Zenon
    <2>3. torn => Starts(Records(log), file')
      BY <1>3, <2>2, StartsAlso, Zenon
    <2> QED
      BY <1>1, <1>2, <2>1, <2>2, <2>3, Zenon DEF StoreInv, EventStoreTypeOK
  <1>12. CASE Flush
    BY <1>1, <1>7, <1>12, Zenon DEF Flush
  <1>13. ASSUME NEW n \in 0..Len(buf), FlushFails(n) PROVE StoreInv' /\ Starts(file, file')
    <2>1. Lose(n) /\ open' \in BOOLEAN
      BY <1>1, <1>13, Zenon DEF FlushFails
    <2> QED
      BY <2>1, LoseKeeps, Zenon
  <1>14. CASE Crash
    <2>1. Lose(0) /\ open' \in BOOLEAN
      BY <1>14 DEF Crash
    <2>2. 0 \in 0..Len(buf)
      <3>1. PICK m \in Nat : m = Len(buf)
        <4>1. Len(buf) \in Nat
          BY <1>1, LenProperties, Zenon
        <4> QED
          BY <4>1, Zenon
      <3>2. 0 \in 0..m
        OBVIOUS
      <3> QED
        BY <3>1, <3>2, Zenon
    <2> QED
      BY <2>1, <2>2, LoseKeeps, Zenon
  <1>15. CASE Destroy
    <2>1. file' = file \o buf /\ buf' = <<>> /\ log' = log /\ torn' = torn /\ open' \in BOOLEAN
      BY <1>15 DEF Destroy
    <2> QED
      BY <1>7, <2>1, Zenon
  <1> QED
    BY <1>8, <1>9, <1>10, <1>11, <1>12, <1>13, <1>14, <1>15, Zenon DEF Next

\* In every reachable state: what was appended is what is replayed and counted, and
\* what is saved comes first.
LEMMA StoreIsReplayed == StoreInv => EventStoreInv
  <1> SUFFICES ASSUME StoreInv PROVE EventStoreInv
    OBVIOUS
  <1>1. EventStoreTypeOK
    BY Zenon DEF StoreInv
  <1>2. file \in Seq(Nat) /\ buf \in Seq(Nat) /\ log \in Seq(Events)
    BY <1>1, Zenon DEF EventStoreTypeOK
  <1>3. log \in Seq(EventRecords)
    BY <1>2, EventsAreRecords, Zenon
  <1>4. Records(log) \in Seq(Nat) /\ Starts(Records(log), Records(log))
    BY <1>3, RecordsTyped, StartsItself, Zenon
  <1>5. AppendedIsReplayed
    <2> SUFFICES ASSUME ~torn PROVE Replay(file \o buf) = log
      BY Zenon DEF AppendedIsReplayed
    <2>1. file \o buf = Records(log)
      BY Zenon DEF StoreInv
    <2> QED
      BY <1>3, <1>4, <2>1, ReplayOfRecords, Zenon
  <1>6. CountAgreesWithReplay
    <2> SUFFICES ASSUME ~torn, NEW t \in EventTypes
                 PROVE  TypeCount(file \o buf, t) = Cardinality({i \in DOMAIN log : log[i].type = t})
      BY Zenon DEF CountAgreesWithReplay
    <2>1. file \o buf = Records(log)
      BY Zenon DEF StoreInv
    <2> QED
      BY <1>3, <2>1, CountOfRecords, Zenon
  <1>7. SavedComesFirst
    <2>1. Starts(file, Records(log)) \/ Starts(Records(log), file)
      <3>1. CASE ~torn
        <4>1. file \o buf = Records(log)
          BY <3>1, Zenon DEF StoreInv
        <4>2. Starts(file, file \o buf)
          BY <1>2, StartsMore, Zenon
        <4> QED
          BY <4>1, <4>2, Zenon
      <3>2. CASE torn
        BY <3>2, Zenon DEF StoreInv
      <3> QED
        BY <3>1, <3>2, Zenon
    <2>2. Remaining(file) \in Seq(Events) /\ Starts(Records(Remaining(file)), file)
      BY <1>2, <2>1, RemainingStarts, Zenon
    <2>3. Remaining(file) \in Seq(EventRecords)
      BY <2>2, EventsAreRecords, Zenon
    <2>4. IsPrefix(Remaining(file), Replay(file))
      BY <1>2, <2>2, <2>3, ReplayOfRecords, Zenon
    <2> QED
      BY <2>4, Zenon DEF SavedComesFirst
  <1> QED
    BY <1>1, <1>5, <1>6, <1>7, Zenon DEF EventStoreInv

\* What event_store_append wrote is what event_store_replay hands over and what
\* event_store_count counts, for any events and over any stores that are opened,
\* flushed and closed, until part of a record is lost; what was saved before that
\* is still replayed first, whatever is appended behind the tear.
THEOREM EventStoreIsReplayed == EventStoreSpec => []EventStoreInv
  <1>1. StoreInv /\ [Next]_esVars => StoreInv'
    BY StoreSteps
  <1> QED
    BY <1>1, StoreStarts, StoreIsReplayed, PTL DEF EventStoreSpec

\* event_store_replay is deterministic: an event that a replay has handed over in
\* full is handed over by every later one, in the same place, since the file only
\* grows and a parser that stands at a cell of the shorter file stands there in
\* the longer one too, torn records included.
THEOREM ReplayKeepsItsPlace == EventStoreSpec => ReplayIsStable
  <1>1. StoreInv /\ [Next]_esVars => StoreInv'
    BY StoreSteps
  <1>2. StoreInv /\ [Next]_esVars => [IsPrefix(CompleteReplay(file), Replay(file'))]_esVars
    <2> SUFFICES ASSUME StoreInv, [Next]_esVars
                 PROVE  IsPrefix(CompleteReplay(file), Replay(file'))
      OBVIOUS
    <2>1. StoreInv' /\ Starts(file, file')
      BY StoreSteps
    <2>2. file \in Seq(Nat) /\ file' \in Seq(Nat)
      BY <2>1, Zenon DEF StoreInv, EventStoreTypeOK
    <2> QED
      BY <2>1, <2>2, LongerReplay, Zenon
  <1> QED
    BY <1>1, <1>2, StoreStarts, PTL DEF EventStoreSpec, ReplayIsStable

================================================================================
