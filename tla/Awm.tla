---------------------------------- MODULE Awm ----------------------------------
(***************************************************************************)
(* The adaptive weight manager of src/awm/awm.c: weight regions with a     *)
(* placement (four precisions in RAM, or the SSD), the buffer each one     *)
(* owns, and ram_used_bytes, which is compared with a budget.  Every       *)
(* allocation may fail.                                                    *)
(*                                                                         *)
(* A buffer is abstracted to the number of bytes it was allocated with.    *)
(* Two variables of the model are not in the code: lost, the bytes of      *)
(* buffers whose only pointer was overwritten, and denied, whether an      *)
(* allocation has failed (lost is no longer followed then).                *)
(***************************************************************************)
EXTENDS Integers, Sequences, FiniteSetsExt

CONSTANTS
  Sizes,       \* size_bytes of the weights, FP32
  Budgets,     \* ram_budget_bytes a caller may set
  MaxRegions,  \* capacity
  Word         \* ram_used_bytes is a uint64_t: it wraps at 2^64

ASSUME AwmAssumption ==
  /\ MaxRegions \in Nat \ {0}
  /\ Word \in Nat \ {0}
  /\ Sizes \subseteq 32 .. Word - 1
  /\ Budgets \subseteq 0 .. Word - 1

Ram == {"RAM_FP16", "RAM_Q8", "RAM_Q4", "RAM_Q2"}
Placements == Ram \cup {"SSD_Q1"}
HotPlacements == {"RAM_FP16", "RAM_Q8"}

VARIABLES
  regions,  \* [size, placement, buf: bytes behind ram_ptr or NoBuf, loaded]
  used,     \* ram_used_bytes
  budget,   \* ram_budget_bytes
  lost, denied

awmVars == <<regions, used, budget, lost, denied>>

NoBuf == -1

RegionRecords ==
  [size : Sizes, placement : Placements, buf : 0 .. Word - 1 \cup {NoBuf}, loaded : BOOLEAN]

AwmTypeOK ==
  /\ regions \in Seq(RegionRecords)
  /\ Len(regions) <= MaxRegions
  /\ used \in 0 .. Word - 1
  /\ budget \in Budgets
  /\ lost \in 0 .. Word - 1
  /\ denied \in BOOLEAN

\* uint64_t arithmetic.
Plus(x, y) == (x + y) % Word
Minus(x, y) == (x - y) % Word

\* ct_awm_placement_bytes.
Bytes(size, p) ==
  size \div CASE p = "RAM_FP16" -> 2 [] p = "RAM_Q8" -> 4 [] p = "RAM_Q4" -> 8
              [] p = "RAM_Q2" -> 16 [] p = "SSD_Q1" -> 32
Charge(r) == Bytes(r.size, r.placement)

Fits(u, n) == Plus(u, n) <= budget

Owned(r) == IF r.buf = NoBuf THEN 0 ELSE r.buf

\* A buffer whose pointer is overwritten is lost.
Lose(r) == lost' = IF denied' THEN 0 ELSE lost + Owned(r)

\* What the regions own together.
Held(regs) == SumFunction([i \in DOMAIN regs |-> Owned(regs[i])])

\* The buffers of a process, the lost ones too, share its address space: calloc
\* and realloc do not succeed beyond it.
InAddressSpace == ~ denied => lost + Held(regions) < Word
-----------------------------------------------------------------------------
(* Making room.                                                            *)

Evicted(r) == [r EXCEPT !.placement = "SSD_Q1", !.buf = NoBuf, !.loaded = FALSE]

\* ct_awm_evict_cold: every Q4 and Q2 region, and what ram_used becomes.
ColdPlacementsAndQ8 == Ram \ {"RAM_FP16"}
ColdPlacements == {"RAM_Q4", "RAM_Q2"}
ColdRegions == {i \in DOMAIN regions : regions[i].placement \in ColdPlacements}
RegionsNoCold ==
  [i \in DOMAIN regions |-> IF i \in ColdRegions THEN Evicted(regions[i]) ELSE regions[i]]
UsedNoCold ==
  Minus(used, SumFunctionOnSet([i \in DOMAIN regions |-> Charge(regions[i])], ColdRegions))
-----------------------------------------------------------------------------
AwmInit ==
  /\ regions = <<>>
  /\ used = 0
  /\ budget \in Budgets
  /\ lost = 0
  /\ denied = FALSE

\* ct_awm_register: a RAM region that does not fit goes to the SSD; one whose
\* buffer cannot be allocated keeps its placement, without buffer or charge.
Region(size, p, b) ==
  [size |-> size, placement |-> p, buf |-> b, loaded |-> b # NoBuf]

Register(size, p) ==
  /\ Len(regions) < MaxRegions
  /\ LET n == Bytes(size, p) IN
       IF p \in Ram /\ Fits(used, n)
       THEN \/ /\ regions' = Append(regions, Region(size, p, n))
               /\ used' = Plus(used, n)
               /\ UNCHANGED <<lost, denied>>
               /\ InAddressSpace'
            \/ /\ regions' = Append(regions, Region(size, p, NoBuf))
               /\ denied' = TRUE
               /\ lost' = 0
               /\ UNCHANGED used
       ELSE /\ regions' = Append(regions, Region(size, "SSD_Q1", NoBuf))
            /\ UNCHANGED <<used, lost, denied>>
  /\ UNCHANGED budget

\* ct_awm_update_placement, RAM to RAM: realloc, no look at the budget.
ResizedLazily(r, p) == [r EXCEPT !.placement = p]
Resized(r, p) == [r EXCEPT !.placement = p, !.buf = Bytes(r.size, p)]

UpdateInRam(i, p) ==
  /\ LET r == regions[i] IN
       /\ r.placement \in Ram /\ p \in Ram /\ p # r.placement
       /\ \/ /\ regions' = [regions EXCEPT ![i] = Resized(r, p)]
             /\ used' = Plus(Minus(used, Charge(r)), Bytes(r.size, p))
             /\ UNCHANGED <<lost, denied>>
             /\ InAddressSpace'
          \/ /\ denied' = TRUE
             /\ lost' = 0
             /\ UNCHANGED <<regions, used>>
  /\ UNCHANGED budget

\* ct_awm_update_placement, SSD to RAM: cold regions are evicted if that may
\* make room; the pointer is overwritten, whatever it pointed to.
UpdateToRam(i, p) ==
  /\ regions[i].placement = "SSD_Q1" /\ p \in Ram
  /\ LET n    == Bytes(regions[i].size, p)
         regs == IF Fits(used, n) THEN regions ELSE RegionsNoCold
         u    == IF Fits(used, n) THEN used ELSE UsedNoCold
     IN IF Fits(u, n)
        THEN \/ /\ regions' = [regs EXCEPT ![i] = Region(@.size, p, n)]
                /\ used' = Plus(u, n)
                /\ UNCHANGED denied
                /\ Lose(regs[i])
                /\ InAddressSpace'
             \/ /\ regions' = [regs EXCEPT ![i].buf = NoBuf]
                /\ used' = u
                /\ denied' = TRUE
                /\ lost' = 0
        ELSE /\ regions' = regs
             /\ used' = u
             /\ UNCHANGED <<lost, denied>>
  /\ UNCHANGED budget

\* ct_awm_evict, and ct_awm_update_placement from RAM to SSD.
Evict(i) ==
  /\ regions[i].placement \in Ram
  /\ regions' = [regions EXCEPT ![i] = Evicted(@)]
  /\ used' = Minus(used, Charge(regions[i]))
  /\ UNCHANGED <<budget, lost, denied>>

\* ct_awm_get_weight and ct_awm_prefetch: whatever is not loaded is loaded.
GetChargeForgotten(r) == used
GetCharge(r) == Plus(used, Charge(r))
GetWeight(i) ==
  /\ ~ regions[i].loaded
  /\ \/ /\ regions' = [regions EXCEPT ![i].buf = Charge(regions[i]), ![i].loaded = TRUE]
        /\ used' = GetCharge(regions[i])
        /\ UNCHANGED denied
        /\ Lose(regions[i])
        /\ InAddressSpace'
     \/ /\ regions' = [regions EXCEPT ![i].buf = NoBuf]
        /\ denied' = TRUE
        /\ lost' = 0
        /\ UNCHANGED used
  /\ UNCHANGED budget

EvictCold ==
  /\ regions' = RegionsNoCold
  /\ used' = UsedNoCold
  /\ UNCHANGED <<budget, lost, denied>>

\* ct_awm_set_budget: the second round of its loop finds nothing to evict.
OverOldBudget(b) == used > budget
OverBudget(b) == used > b
SetBudget(b) ==
  /\ budget' = b
  /\ IF OverBudget(b)
     THEN regions' = RegionsNoCold /\ used' = UsedNoCold
     ELSE UNCHANGED <<regions, used>>
  /\ UNCHANGED <<lost, denied>>

AwmNext ==
  \/ \E size \in Sizes, p \in Placements : Register(size, p)
  \/ \E i \in DOMAIN regions :
       \/ \E p \in Placements : UpdateInRam(i, p) \/ UpdateToRam(i, p)
       \/ Evict(i)
       \/ GetWeight(i)
  \/ EvictCold
  \/ \E b \in Budgets : SetBudget(b)

AwmSpec == AwmInit /\ [][AwmNext]_awmVars
-----------------------------------------------------------------------------
(* Properties.                                                             *)

\* A buffer is as large as the placement of its region says: a caller of
\* ct_awm_get_weight reads that many bytes, after any moves up and down and
\* any allocation failures.
BufferFitsPlacement ==
  \A i \in DOMAIN regions :
    regions[i].buf # NoBuf => regions[i].buf = Charge(regions[i])

\* As long as no allocation fails, ram_used_bytes is what the process holds:
\* the buffers of the loaded regions, and those lost on the way.
UsedIsAllocated ==
  ~ denied =>
    /\ used = lost + Held(regions)
    /\ \A i \in DOMAIN regions :
         /\ regions[i].loaded <=> regions[i].buf # NoBuf
         /\ regions[i].placement \in Ram => regions[i].loaded

\* The charge is exact and never leaves its word.
AwmInv == AwmTypeOK /\ UsedIsAllocated

\* Room is never made at the expense of a hot or semi-hot region: one that
\* changes does so because the call is about it, and nothing else changes.
ReclaimSparesHot ==
  [][\A i \in DOMAIN regions :
       regions[i].placement \in HotPlacements /\ regions'[i] # regions[i] =>
         /\ budget' = budget
         /\ \A j \in DOMAIN regions \ {i} : regions'[j] = regions[j]]_awmVars

\* A lowered budget sheds everything that may be shed: over budget afterwards
\* only with no warm or cold region left.
LowerBudgetSheds ==
  [][budget' # budget =>
       \/ used' <= budget'
       \/ \A i \in DOMAIN regions' : regions'[i].placement \notin ColdPlacements]_awmVars

\* "resident_bytes <= ram_budget": even with no allocation failure, what the
\* process is charged with stays within a budget that nobody lowers.
ResidentWithinBudget ==
  [][~ denied' /\ used <= budget /\ budget' = budget => used' <= budget']_awmVars
=============================================================================
