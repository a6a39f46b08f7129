-------------------------------- MODULE Streamer --------------------------------
(***************************************************************************)
(* The SSD streamer of src/streaming/streaming.c: an array of cached       *)
(* regions that evictions leave with holes, the number of valid entries    *)
(* and the bytes they are charged with.                                    *)
(*                                                                         *)
(* A name stands for a weight name and an offset; an entry keeps at most   *)
(* 63 characters of it, so Trunc maps a longer name to what is stored for  *)
(* it.  No data is kept in the entries, neither here nor in the code.      *)
(* ct_streamer_read is a sequence of steps, one per round of its eviction  *)
(* loop: the clock may move between them.                                  *)
(***************************************************************************)
EXTENDS Integers, FiniteSetsExt

CONSTANTS
  Names,       \* the regions callers read
  Trunc,       \* what an entry keeps of a name
  NoName,      \* name of an entry that is not valid
  Sizes,       \* sizes that are requested
  MaxRegions,  \* max_cached_regions
  CacheBytes,  \* cache_bytes
  Word,        \* cache_used_bytes and sizes are uint64_t: they wrap at 2^64
  MaxClock     \* bound on now_ms

Stored == {Trunc[n] : n \in Names}
Slots == 0 .. MaxRegions - 1

ASSUME StreamerAssumption ==
  /\ NoName \notin Names \cup Stored
  /\ MaxRegions \in Nat \ {0}
  /\ Word \in Nat \ {0}
  /\ Sizes \subseteq 1 .. Word - 1
  /\ CacheBytes \in 0 .. Word - 1
  /\ MaxClock \in Nat

VARIABLES
  cache,  \* the entries: [name, size, stamp: last_access_ms]
  count,  \* cache_count
  used,   \* cache_used_bytes
  req,    \* the read under way: [name, size], or NoReq
  clock   \* now_ms

streamerVars == <<cache, count, used, req, clock>>

EntryRecords == [name : Stored \cup {NoName}, size : 0 .. Word - 1, stamp : 0 .. MaxClock]
Empty == [name |-> NoName, size |-> 0, stamp |-> 0]
NoReq == [name |-> NoName, size |-> 0]

StreamerTypeOK ==
  /\ cache \in [Slots -> EntryRecords]
  /\ count \in 0 .. MaxRegions
  /\ used \in 0 .. Word - 1
  /\ req \in [name : Stored, size : Sizes] \cup {NoReq}
  /\ clock \in 0 .. MaxClock

\* uint64_t arithmetic.
Plus(x, y) == (x + y) % Word
Minus(x, y) == (x - y) % Word

Valid(i) == cache[i].name # NoName
ValidSlots == {i \in Slots : Valid(i)}

\* What find_cache, find_lru and ct_streamer_is_cached look at.
VisibleSlots == {i \in ValidSlots : i < count}
-----------------------------------------------------------------------------
(* Eviction.                                                               *)

\* find_lru: the first visible entry of the least stamp.
IsVictim(i) ==
  /\ i \in VisibleSlots
  /\ \A j \in VisibleSlots :
       cache[i].stamp < cache[j].stamp \/ (cache[i].stamp = cache[j].stamp /\ i <= j)

CountAfterEvictKept == count
CountAfterEvict == count - 1
UsedAfterEvictKept(i) == used
UsedAfterEvict(i) == Minus(used, cache[i].size)

\* ct_streamer_evict_lru.
Evict ==
  /\ \E i \in Slots :
       /\ IsVictim(i)
       /\ cache' = [cache EXCEPT ![i] = Empty]
       /\ used' = UsedAfterEvict(i)
  /\ count' = CountAfterEvict
  /\ UNCHANGED <<req, clock>>
-----------------------------------------------------------------------------
StreamerInit ==
  /\ cache = [i \in Slots |-> Empty]
  /\ count = 0
  /\ used = 0
  /\ req = NoReq
  /\ clock = 0

\* The first visible entry with a name; a cut name is never the one asked for.
IsFound(n, i) ==
  /\ i \in VisibleSlots
  /\ cache[i].name = n
  /\ \A j \in VisibleSlots : cache[j].name = n => i <= j

\* ct_streamer_read finds the region: only its stamp changes.
Hit(n) ==
  /\ req = NoReq
  /\ \E i \in Slots :
       IsFound(n, i) /\ cache' = [cache EXCEPT ![i].stamp = clock]
  /\ UNCHANGED <<count, used, req, clock>>

\* ct_streamer_read with cache = true, or ct_streamer_prefetch, does not.
Miss(n, size) ==
  /\ req = NoReq
  /\ \A i \in Slots : ~ IsFound(n, i)
  /\ req' = [name |-> Trunc[n], size |-> size]
  /\ UNCHANGED <<cache, count, used, clock>>

NeedsRoomLate == used > CacheBytes
NeedsRoom == Plus(used, req.size) > CacheBytes

\* A round of the eviction loop.
MakeRoom ==
  /\ req # NoReq
  /\ NeedsRoom
  /\ Evict

\* The loop is over: it fits, or nothing is left to evict (that it finds).
RoomMadeNoBreak == ~ NeedsRoom \/ count = 0
RoomMade == ~ NeedsRoom \/ count = 0 \/ VisibleSlots = {}

\* What platform_read returns: nothing, a part or all; and on POSIX a failed
\* pread's -1, which is no error but a size of 2^64 - 1.
FailedPread == Word - 1
ReadResults == 0 .. req.size \cup {FailedPread}

\* The region is read, and entered into the first slot that is not valid.
Read ==
  /\ req # NoReq
  /\ RoomMade
  /\ \E n \in ReadResults :
       IF n # 0 /\ count < MaxRegions /\ ValidSlots # Slots
       THEN /\ \E i \in Slots \ ValidSlots :
                 /\ \A j \in Slots \ ValidSlots : i <= j
                 /\ cache' = [cache EXCEPT ![i] =
                                [name |-> req.name, size |-> n, stamp |-> clock]]
            /\ count' = count + 1
            /\ used' = Plus(used, n)
       ELSE UNCHANGED <<cache, count, used>>
  /\ req' = NoReq
  /\ UNCHANGED clock

\* A caller of ct_streamer_evict_lru.
EvictLru == req = NoReq /\ Evict

\* Time passes; accesses may fall into one millisecond.
Tick ==
  /\ clock' = IF clock < MaxClock THEN clock + 1 ELSE clock
  /\ UNCHANGED <<cache, count, used, req>>

StreamerNext ==
  \/ \E n \in Names : Hit(n)
  \/ \E n \in Names, size \in Sizes : Miss(n, size)
  \/ MakeRoom
  \/ Read
  \/ EvictLru
  \/ Tick

\* A read that has begun is run to its end; nobody has to begin one.
StreamerSpec ==
  StreamerInit /\ [][StreamerNext]_streamerVars /\ WF_streamerVars(MakeRoom \/ Read)
-----------------------------------------------------------------------------
(* Properties.                                                             *)

\* cache_count is the number of valid entries, whatever holes evictions leave
\* and wherever later reads go: while it is below max_cached_regions the scan
\* for a free slot finds one.
CountIsValid == count = Cardinality(ValidSlots)

\* cache_used_bytes is the sum of the sizes of the valid entries, those out of
\* sight included; after a wrap, too.
UsedIsSum == used = SumFunctionOnSet([i \in Slots |-> cache[i].size], ValidSlots) % Word

\* A region goes over the budget only when nothing was left that an eviction
\* would have found; or when an entry is charged with a failed pread's -1, and
\* the sum that the budget is compared with has wrapped.
RoomIsMade ==
  [][count' > count =>
       \/ used' <= CacheBytes
       \/ VisibleSlots = {}
       \/ \E i \in Slots : cache'[i].size = FailedPread]_streamerVars

\* ct_streamer_read's eviction loop comes to an end, though it may leave
\* entries out of sight and the cache over its budget.
ReadEnds == req # NoReq ~> req = NoReq

\* "Evict least-recently-used cached region": no valid entry has been left
\* alone for longer than the one evicted.  The code does not keep this.
EvictsLeastRecent ==
  [][\A i \in ValidSlots :
       cache'[i] = Empty => \A j \in ValidSlots : cache[i].stamp <= cache[j].stamp]_streamerVars
=============================================================================
