----------------------------- MODULE WeightsProofs -----------------------------
(***************************************************************************)
(* Proofs about the two components that decide which weights stay in RAM.  *)
(*                                                                         *)
(* Wvs: for every table size, every hash and every set of names, the entry *)
(* of a plain key is found by a lookup of that key, and count is the       *)
(* number of entries, through any recordings, saves, crashes and reloads;  *)
(* a completed save keeps everything, and the table with its file          *)
(* implements Scoreboard.                                                  *)
(*                                                                         *)
(* Awm, for any sizes, budgets, number of regions and word: buffers fit    *)
(* their placement, room is never made at the expense of a hot region, a   *)
(* lowered budget sheds all that may be shed, and the charge is what the   *)
(* process holds.                                                          *)
(***************************************************************************)
EXTENDS Wvs, Awm, FiniteSetTheorems, SequenceTheorems, Recursion, TLAPS

--------------------------------------------------------------------------------
(* The scoreboard.                                                         *)

\* No plain key is in the file twice.
FileDistinct ==
  \A i, j \in DOMAIN file.entries :
    file.entries[i].key = file.entries[j].key /\ file.entries[i].key \in PlainKeys
      => i = j

\* While it is written, the file holds keys of slots already visited.
FileFromTable ==
  mode = "saving" =>
    \A i \in DOMAIN file.entries :
      \E s \in 0 .. at - 1 : slots[s] = file.entries[i].key

\* While it is read, the table holds keys of entries already read.
TableFromFile ==
  mode = "loading" =>
    \A s \in Slots :
      slots[s] # NoKey =>
        \E i \in 1 .. at : i \in DOMAIN file.entries /\ file.entries[i].key = slots[s]

HeaderFirst == ~ file.ok => file.entries = <<>>

IInv ==
  /\ WvsTypeOK
  /\ EntriesAreFound
  /\ CountIsOccupancy
  /\ FileDistinct
  /\ FileFromTable
  /\ TableFromFile
  /\ HeaderFirst
-----------------------------------------------------------------------------
LEMMA ProbeType == ASSUME NEW n \in Names, NEW p \in Nat PROVE Probe(n, p) \in Slots
  <1>1. Hash[n] + p \in Int /\ Capacity \in Nat \ {0}
    BY WvsAssumption
  <1> DEFINE h == Hash[n] + p
  <1>2. h % Capacity \in 0 .. Capacity - 1
    <2> HIDE DEF h
    <2> QED  BY <1>1 DEF h
  <1> QED  BY <1>2 DEF Probe, Slots

LEMMA KeysAreNames == Keys \subseteq Names /\ NoKey \notin Keys
  BY WvsAssumption DEF Keys

LEMMA SlotsFinite ==
  /\ IsFiniteSet(Slots)
  /\ Cardinality(Slots) = Capacity
  BY FS_Interval, WvsAssumption DEF Slots

\* An empty slot leaves room in the count.
LEMMA RoomLeft ==
  ASSUME WvsTypeOK, CountIsOccupancy, NEW s \in Slots, slots[s] = NoKey
  PROVE  count < Capacity
  <1>1. OccupiedSlots \subseteq Slots /\ s \notin OccupiedSlots
    BY DEF OccupiedSlots
  <1>2. IsFiniteSet(OccupiedSlots)
    BY <1>1, SlotsFinite, FS_Subset
  <1>3. Cardinality(OccupiedSlots) # Cardinality(Slots)
    BY <1>1, SlotsFinite, FS_Subset
  <1>4. Cardinality(OccupiedSlots) <= Cardinality(Slots)
    BY <1>1, SlotsFinite, FS_Subset
  <1> QED
    BY <1>3, <1>4, SlotsFinite, WvsAssumption DEF CountIsOccupancy, WvsTypeOK

\* Filling an empty slot adds one to the entries.
LEMMA FillCounts ==
  ASSUME WvsTypeOK, CountIsOccupancy, NEW s \in Slots, slots[s] = NoKey,
         NEW k \in Keys, slots' = [slots EXCEPT ![s] = k], count' = count + 1
  PROVE  CountIsOccupancy'
  <1>1. OccupiedSlots' = OccupiedSlots \cup {s}
    BY KeysAreNames DEF OccupiedSlots, WvsTypeOK
  <1>2. IsFiniteSet(OccupiedSlots)
    BY SlotsFinite, FS_Subset DEF OccupiedSlots
  <1>3. s \notin OccupiedSlots
    BY DEF OccupiedSlots
  <1> QED
    BY <1>1, <1>2, <1>3, FS_AddElement DEF CountIsOccupancy

\* The heart of it: an entry placed where its own search ended is found, and
\* no other entry is lost, because a search never crosses an empty slot.
LEMMA FillKeepsFound ==
  ASSUME WvsTypeOK, EntriesAreFound,
         NEW n \in Names, NEW p \in Slots,
         slots[Probe(n, p)] = NoKey,
         \A q \in 0 .. p - 1 : slots[Probe(n, q)] # NoKey,
         Trunc[n] \in PlainKeys => \A q \in 0 .. p - 1 : slots[Probe(n, q)] # Trunc[n],
         slots' = [slots EXCEPT ![Probe(n, p)] = Trunc[n]]
  PROVE  EntriesAreFound'
  <1> DEFINE x == Probe(n, p)
  <1>0. p \in Nat
    BY WvsAssumption DEF Slots
  <1>1. x \in Slots
    BY <1>0, ProbeType
  <1>2. \A m \in Names : \A q \in Nat : Probe(m, q) \in Slots
    BY ProbeType
  <1>3. \A y \in Slots : y # x => slots'[y] = slots[y]
    BY DEF WvsTypeOK
  <1>4. slots'[x] = Trunc[n]
    BY <1>1 DEF WvsTypeOK
  <1> SUFFICES ASSUME NEW s \in Slots, slots'[s] \in PlainKeys
               PROVE  \E r \in Slots :
                        /\ s = Probe(slots'[s], r)
                        /\ \A q \in 0 .. r - 1 :
                             slots'[Probe(slots'[s], q)] \notin {slots'[s], NoKey}
    <2>1. \A y \in Slots : slots'[y] \in PlainKeys =>
            \E r \in Slots :
              /\ y = Probe(slots'[y], r)
              /\ slots'[Probe(slots'[y], r)] \in {slots'[y]} \cup {NoKey}
              /\ \A q \in 0 .. r - 1 :
                   slots'[Probe(slots'[y], q)] \notin {slots'[y]} \cup {NoKey}
      <3> TAKE y \in Slots
      <3> HAVE slots'[y] \in PlainKeys
      <3> PICK r \in Slots :
            /\ y = Probe(slots'[y], r)
            /\ \A q \in 0 .. r - 1 : slots'[Probe(slots'[y], q)] \notin {slots'[y], NoKey}
        OBVIOUS
      <3> WITNESS r \in Slots
      <3> QED  OBVIOUS
    <2> QED
      BY <2>1 DEF EntriesAreFound, StopsAt, Probe, PlainKeys
  <1> HIDE DEF x
  <1>5. CASE s = x
    <2>1. slots'[s] = n
      BY <1>4, <1>5 DEF PlainKeys
    <2>2. Trunc[n] = n /\ n \in PlainKeys
      BY <1>4, <1>5, <2>1
    <2>3. \A q \in 0 .. p - 1 : slots[Probe(n, q)] \notin {n, NoKey}
      BY <2>2
    <2>4. \A q \in 0 .. p - 1 : Probe(n, q) # x /\ Probe(n, q) \in Slots
      BY <1>2, <1>0 DEF x
    <2>5. \A q \in 0 .. p - 1 : slots'[Probe(n, q)] \notin {n, NoKey}
      BY <2>3, <2>4, <1>3
    <2> QED
      BY <2>1, <2>5, <1>5 DEF x
  <1>6. CASE s # x
    <2> DEFINE k == slots[s]
    <2>1. slots'[s] = k /\ k \in PlainKeys
      BY <1>3, <1>6
    <2>2. PICK r \in Slots : s = Probe(k, r) /\ StopsAt(k, {k}, r)
      BY <2>1 DEF EntriesAreFound
    <2>3. k \in Names
      BY <2>1 DEF PlainKeys
    <2>4. r \in Nat
      BY WvsAssumption DEF Slots
    <2>5. \A q \in 0 .. r - 1 : slots[Probe(k, q)] \notin {k, NoKey} /\ Probe(k, q) \in Slots
      BY <2>2, <2>3, <2>4, <1>2 DEF StopsAt
    <2>6. \A q \in 0 .. r - 1 : slots'[Probe(k, q)] \notin {k, NoKey}
      BY <2>5, <1>3 DEF x
    <2> HIDE DEF k
    <2> QED
      BY <2>1, <2>2, <2>6
  <1> QED  BY <1>5, <1>6
-----------------------------------------------------------------------------
LEMMA InitIInv == WvsInit => IInv
  <1> SUFFICES ASSUME WvsInit PROVE IInv
    OBVIOUS
  <1>1. OccupiedSlots = {}
    BY DEF WvsInit, NoKeys, OccupiedSlots
  <1>2. Cardinality(OccupiedSlots) = 0
    BY <1>1, FS_EmptySet
  <1>3. NoKey \notin PlainKeys
    BY WvsAssumption DEF PlainKeys
  <1>4. WvsTypeOK
    BY WvsAssumption DEF WvsInit, WvsTypeOK, NoKeys, NoHeat, NoFile, Classes, Entries
  <1> QED
    BY <1>2, <1>3, <1>4 DEF WvsInit, NoKeys, NoFile, IInv, EntriesAreFound, CountIsOccupancy,
       FileDistinct, FileFromTable, TableFromFile, HeaderFirst

\* An emptied table satisfies what is said of tables.
LEMMA EmptyTable ==
  ASSUME WvsTypeOK, slots' = NoKeys, hotness' = NoHeat, count' = 0,
         mode' \in {"down", "loading", "up"}, at' = 0, UNCHANGED file,
         FileDistinct, HeaderFirst
  PROVE  IInv'
  <1>1. OccupiedSlots' = {}
    BY DEF NoKeys, OccupiedSlots
  <1>2. Cardinality(OccupiedSlots') = 0
    BY <1>1, FS_EmptySet
  <1>3. NoKey \notin PlainKeys
    BY WvsAssumption DEF PlainKeys
  <1>4. WvsTypeOK'
    BY WvsAssumption DEF WvsTypeOK, NoKeys, NoHeat, Classes
  <1>5. EntriesAreFound' /\ TableFromFile'
    BY <1>3 DEF NoKeys, EntriesAreFound, TableFromFile
  <1>6. CountIsOccupancy'
    BY <1>2 DEF CountIsOccupancy
  <1>7. FileDistinct' /\ FileFromTable' /\ HeaderFirst'
    BY DEF FileDistinct, FileFromTable, HeaderFirst
  <1> QED
    BY <1>4, <1>5, <1>6, <1>7 DEF IInv

\* So does a table that did not change.
LEMMA SameTable ==
  ASSUME EntriesAreFound, CountIsOccupancy, UNCHANGED <<slots, count>>
  PROVE  EntriesAreFound' /\ CountIsOccupancy'
  BY DEF EntriesAreFound, CountIsOccupancy, OccupiedSlots, StopsAt, Probe

\* Two entries with the same plain key are the same entry.
LEMMA TableDistinct ==
  ASSUME WvsTypeOK, EntriesAreFound,
         NEW s \in Slots, NEW t \in Slots, slots[s] = slots[t], slots[s] \in PlainKeys
  PROVE  s = t
  <1> DEFINE k == slots[s]
  <1>1. PICK p \in Slots : s = Probe(k, p) /\ StopsAt(k, {k}, p)
    BY DEF EntriesAreFound
  <1>2. PICK q \in Slots : t = Probe(k, q) /\ StopsAt(k, {k}, q)
    BY DEF EntriesAreFound
  <1>3. p \in Nat /\ q \in Nat
    BY WvsAssumption DEF Slots
  <1>4. ~ (q < p)
    BY <1>1, <1>2, <1>3 DEF StopsAt
  <1>5. ~ (p < q)
    BY <1>1, <1>2, <1>3 DEF StopsAt
  <1> QED
    BY <1>1, <1>2, <1>3, <1>4, <1>5
-----------------------------------------------------------------------------
LEMMA StepLoadEntry == IInv /\ LoadEntry => IInv'
  <1> SUFFICES ASSUME IInv, LoadEntry PROVE IInv'
    OBVIOUS
  <1> DEFINE e == file.entries[at + 1]
  <1>1. WvsTypeOK /\ EntriesAreFound /\ CountIsOccupancy
        /\ FileDistinct /\ FileFromTable /\ TableFromFile /\ HeaderFirst
    BY DEF IInv
  <1>2. /\ mode = "loading" /\ mode' = mode
        /\ at \in Nat /\ at + 1 \in DOMAIN file.entries /\ at + 1 <= Capacity
        /\ at' = at + 1 /\ file' = file /\ count' = count + 1
    BY <1>1, WvsAssumption DEF LoadEntry, NewCount, WvsTypeOK
  <1>3. e.key \in Keys /\ e.hotness \in Classes /\ e.key \in Names /\ e.key # NoKey
    <2>1. e \in Entries
      BY <1>1, <1>2 DEF WvsTypeOK
    <2> HIDE DEF e
    <2> QED
      BY <2>1, KeysAreNames DEF Entries
  <1>4. PICK p \in Slots :
          /\ StopsAt(e.key, {}, p)
          /\ slots' = [slots EXCEPT ![Probe(e.key, p)] = e.key]
          /\ hotness' = [hotness EXCEPT ![Probe(e.key, p)] = e.hotness]
    BY DEF LoadEntry, PutAt
  <1>5. Trunc[e.key] = e.key
    BY <1>3, WvsAssumption DEF Keys
  <1> HIDE DEF e
  <1> DEFINE x == Probe(e.key, p)
  <1>6. p \in Nat /\ x \in Slots /\ slots[x] = NoKey
    BY <1>3, <1>4, ProbeType, WvsAssumption DEF StopsAt, Slots
  <1>7. \A q \in 0 .. p - 1 : slots[Probe(e.key, q)] # NoKey /\ Probe(e.key, q) \in Slots
    BY <1>3, <1>4, <1>6, ProbeType DEF StopsAt
  <1>8. e.key \in PlainKeys => \A s \in Slots : slots[s] # e.key
    <2> SUFFICES ASSUME e.key \in PlainKeys, NEW s \in Slots, slots[s] = e.key
                 PROVE  FALSE
      OBVIOUS
    <2>1. PICK i \in 1 .. at : i \in DOMAIN file.entries /\ file.entries[i].key = e.key
      BY <1>1, <1>2, <1>3 DEF TableFromFile
    <2>2. i = at + 1
      BY <2>1, <1>1, <1>2 DEF FileDistinct, e
    <2> QED
      BY <2>1, <2>2, <1>2
  <1>9. EntriesAreFound'
    <2>1. e.key \in PlainKeys => \A q \in 0 .. p - 1 : slots[Probe(e.key, q)] # e.key
      BY <1>7, <1>8
    <2> QED
      BY <1>1, <1>3, <1>4, <1>5, <1>6, <1>7, <2>1, FillKeepsFound
  <1>10. CountIsOccupancy'
    BY <1>1, <1>2, <1>3, <1>4, <1>6, FillCounts
  <1>11. WvsTypeOK'
    <2>1. count < Capacity
      BY <1>1, <1>6, RoomLeft
    <2>2. count' \in 0 .. Capacity /\ at' \in 0 .. Capacity
      BY <2>1, <1>1, <1>2, WvsAssumption DEF WvsTypeOK
    <2>3. slots' \in [Slots -> Keys \cup {NoKey}] /\ hotness' \in [Slots -> Classes]
      BY <1>1, <1>3, <1>4, <1>6 DEF WvsTypeOK
    <2> QED
      BY <2>2, <2>3, <1>1, <1>2 DEF WvsTypeOK
  <1>12. TableFromFile'
    <2> SUFFICES ASSUME NEW s \in Slots, slots'[s] # NoKey
                 PROVE  \E i \in 1 .. at + 1 :
                          i \in DOMAIN file.entries /\ file.entries[i].key = slots'[s]
      BY <1>2 DEF TableFromFile
    <2>1. CASE s = x
      BY <2>1, <1>1, <1>2, <1>4, <1>6 DEF WvsTypeOK, e
    <2>2. CASE s # x
      <3>1. slots'[s] = slots[s]
        BY <2>2, <1>1, <1>4 DEF WvsTypeOK
      <3>2. PICK i \in 1 .. at : i \in DOMAIN file.entries /\ file.entries[i].key = slots[s]
        BY <3>1, <1>1, <1>2 DEF TableFromFile
      <3> QED
        BY <3>1, <3>2, <1>2
    <2> QED  BY <2>1, <2>2
  <1>13. FileDistinct' /\ FileFromTable' /\ HeaderFirst'
    BY <1>1, <1>2 DEF FileDistinct, FileFromTable, HeaderFirst
  <1> QED
    BY <1>9, <1>10, <1>11, <1>12, <1>13 DEF IInv

LEMMA StepRecordNew == ASSUME NEW n \in Names PROVE IInv /\ RecordNew(n) => IInv'
  <1> SUFFICES ASSUME IInv, RecordNew(n) PROVE IInv'
    OBVIOUS
  <1>1. WvsTypeOK /\ EntriesAreFound /\ CountIsOccupancy
        /\ FileDistinct /\ HeaderFirst
    BY DEF IInv
  <1>2. mode = "up" /\ mode' = "up" /\ file' = file /\ at' = at
        /\ count < Capacity /\ count' = count + 1
    BY DEF RecordNew, NewCount
  <1>3. PICK p \in Slots :
          /\ StopsAt(n, {n}, p)
          /\ slots[Probe(n, p)] = NoKey
          /\ slots' = [slots EXCEPT ![Probe(n, p)] = Trunc[n]]
          /\ hotness' = [hotness EXCEPT ![Probe(n, p)] = 0]
    BY DEF RecordNew
  <1>4. p \in Nat /\ Probe(n, p) \in Slots
    BY ProbeType, WvsAssumption DEF Slots
  <1>5. Trunc[n] \in Keys
    BY DEF Keys
  <1>6. EntriesAreFound'
    <2>1. \A q \in 0 .. p - 1 : slots[Probe(n, q)] # NoKey /\ slots[Probe(n, q)] # n
      BY <1>3 DEF StopsAt
    <2>2. Trunc[n] \in PlainKeys => Trunc[n] = n
      BY DEF PlainKeys
    <2>3. Trunc[n] \in PlainKeys => \A q \in 0 .. p - 1 : slots[Probe(n, q)] # Trunc[n]
      BY <2>1, <2>2
    <2> QED
      BY <1>1, <1>3, <2>1, <2>3, FillKeepsFound
  <1>7. CountIsOccupancy'
    BY <1>1, <1>2, <1>3, <1>4, <1>5, FillCounts
  <1>8. WvsTypeOK'
    <2>1. count' \in 0 .. Capacity
      BY <1>1, <1>2, WvsAssumption DEF WvsTypeOK
    <2>2. slots' \in [Slots -> Keys \cup {NoKey}] /\ hotness' \in [Slots -> Classes]
      BY <1>1, <1>3, <1>4, <1>5, WvsAssumption DEF WvsTypeOK, Classes
    <2> QED
      BY <2>1, <2>2, <1>1, <1>2 DEF WvsTypeOK
  <1>9. FileDistinct' /\ FileFromTable' /\ TableFromFile' /\ HeaderFirst'
    BY <1>1, <1>2 DEF FileDistinct, FileFromTable, TableFromFile, HeaderFirst
  <1> QED
    BY <1>6, <1>7, <1>8, <1>9 DEF IInv

LEMMA StepRecordKnown == ASSUME NEW n \in Names PROVE IInv /\ RecordKnown(n) => IInv'
  <1> SUFFICES ASSUME IInv, RecordKnown(n) PROVE IInv'
    OBVIOUS
  <1>1. UNCHANGED <<slots, count, mode, file, at>> /\ mode = "up"
    BY DEF RecordKnown
  <1>2. EntriesAreFound' /\ CountIsOccupancy'
    BY <1>1, SameTable DEF IInv
  <1>3. hotness' \in [Slots -> Classes]
    BY DEF RecordKnown, Warmer, IInv, WvsTypeOK
  <1>4. WvsTypeOK'
    BY <1>1, <1>3 DEF IInv, WvsTypeOK
  <1>5. FileDistinct' /\ FileFromTable' /\ TableFromFile' /\ HeaderFirst'
    BY <1>1 DEF IInv, FileDistinct, FileFromTable, TableFromFile, HeaderFirst
  <1> QED
    BY <1>2, <1>4, <1>5 DEF IInv

LEMMA StepUpdateAll == IInv /\ UpdateAll => IInv'
  <1> SUFFICES ASSUME IInv, UpdateAll PROVE IInv'
    OBVIOUS
  <1>1. UNCHANGED <<slots, count, mode, file, at>> /\ mode = "up"
    BY DEF UpdateAll
  <1>2. EntriesAreFound' /\ CountIsOccupancy'
    BY <1>1, SameTable DEF IInv
  <1>4. WvsTypeOK'
    BY <1>1 DEF UpdateAll, IInv, WvsTypeOK
  <1>5. FileDistinct' /\ FileFromTable' /\ TableFromFile' /\ HeaderFirst'
    BY <1>1 DEF IInv, FileDistinct, FileFromTable, TableFromFile, HeaderFirst
  <1> QED
    BY <1>2, <1>4, <1>5 DEF IInv

LEMMA StepSave == IInv /\ (SaveOpen \/ SaveHeader \/ SaveClose \/ LoadEnd) => IInv'
  <1> SUFFICES ASSUME IInv, SaveOpen \/ SaveHeader \/ SaveClose \/ LoadEnd PROVE IInv'
    OBVIOUS
  <1>1. UNCHANGED <<slots, hotness, count>>
    BY DEF SaveOpen, SaveHeader, SaveClose, LoadEnd
  <1>2. EntriesAreFound' /\ CountIsOccupancy'
    BY <1>1, SameTable DEF IInv
  <1>3. CASE SaveOpen
    <2>1. WvsTypeOK'
      BY <1>1, <1>3, WvsAssumption DEF SaveOpen, IInv, WvsTypeOK, NoFile
    <2> QED
      BY <1>2, <1>3, <2>1
      DEF SaveOpen, NoFile, IInv, FileDistinct, FileFromTable, TableFromFile, HeaderFirst
  <1>4. CASE SaveHeader
    <2>1. /\ mode' = "saving" /\ mode = mode' /\ at' = at
          /\ file'.ok = TRUE /\ file'.n = count /\ file'.entries = file.entries
          /\ file' = [file EXCEPT !.ok = TRUE, !.n = count]
      BY <1>4 DEF SaveHeader, IInv, WvsTypeOK
    <2>2. WvsTypeOK'
      BY <1>1, <2>1 DEF IInv, WvsTypeOK
    <2>3. FileDistinct' /\ FileFromTable' /\ TableFromFile' /\ HeaderFirst'
      BY <1>1, <2>1 DEF IInv, FileDistinct, FileFromTable, TableFromFile, HeaderFirst
    <2> QED
      BY <1>2, <2>2, <2>3 DEF IInv
  <1>5. CASE SaveClose \/ LoadEnd
    <2>1. mode' \in {"saved", "up"} /\ at' = 0 /\ file' = file
      BY <1>5 DEF SaveClose, LoadEnd
    <2>2. WvsTypeOK'
      BY <1>1, <2>1, WvsAssumption DEF IInv, WvsTypeOK
    <2>3. FileDistinct' /\ FileFromTable' /\ TableFromFile' /\ HeaderFirst'
      BY <2>1 DEF IInv, FileDistinct, FileFromTable, TableFromFile, HeaderFirst
    <2> QED
      BY <1>2, <2>2, <2>3 DEF IInv
  <1> QED
    BY <1>3, <1>4, <1>5

LEMMA StepSaveSlot == IInv /\ SaveSlot => IInv'
  <1> SUFFICES ASSUME IInv, SaveSlot PROVE IInv'
    OBVIOUS
  <1>1. WvsTypeOK /\ EntriesAreFound /\ CountIsOccupancy
        /\ FileDistinct /\ FileFromTable
    BY DEF IInv
  <1>2. /\ mode = "saving" /\ UNCHANGED <<slots, hotness, count, mode>>
        /\ file.ok /\ at \in Slots /\ at' = at + 1 /\ at' \in 0 .. Capacity /\ at \in Nat
    BY <1>1, WvsAssumption DEF SaveSlot, SlotsToSave, WvsTypeOK, Slots
  <1>3. EntriesAreFound' /\ CountIsOccupancy'
    BY <1>1, <1>2, SameTable
  <1>4. CASE slots[at] = NoKey
    <2>1. file' = file
      BY <1>4 DEF SaveSlot
    <2>2. WvsTypeOK'
      BY <1>1, <1>2, <2>1 DEF WvsTypeOK
    <2>3. FileFromTable'
      BY <1>1, <1>2, <2>1 DEF FileFromTable
    <2>4. FileDistinct' /\ TableFromFile' /\ HeaderFirst'
      BY <1>1, <1>2, <2>1 DEF FileDistinct, TableFromFile, HeaderFirst
    <2> QED
      BY <1>3, <2>2, <2>3, <2>4 DEF IInv
  <1>5. CASE slots[at] # NoKey
    <2> DEFINE e == [key |-> slots[at], hotness |-> hotness[at]]
               E == file.entries
    <2>1. e \in Entries /\ e.key = slots[at]
      BY <1>1, <1>2, <1>5 DEF WvsTypeOK, Entries
    <2>2. E \in Seq(Entries) /\ file' = [file EXCEPT !.entries = Append(E, e)]
      BY <1>1, <1>5 DEF SaveSlot, WvsTypeOK
    <2>3. file'.ok = file.ok /\ file'.n = file.n /\ file'.entries = Append(E, e)
      BY <2>2, <1>1 DEF WvsTypeOK
    <2> HIDE DEF e
    <2>4. WvsTypeOK'
      <3>1. Append(E, e) \in Seq(Entries)
        BY <2>1, <2>2
      <3>2. file' \in [ok : BOOLEAN, n : 0 .. Capacity, entries : Seq(Entries)]
        <4> HIDE DEF E
        <4> QED  BY <3>1, <2>2, <1>1 DEF WvsTypeOK
      <3> QED
        BY <3>2, <1>1, <1>2 DEF WvsTypeOK
    <2> DEFINE F == file'.entries
    <2>5. /\ DOMAIN F = 1 .. Len(E) + 1
          /\ \A i \in 1 .. Len(E) : F[i] = E[i]
          /\ F[Len(E) + 1] = e
          /\ DOMAIN E = 1 .. Len(E)
          /\ Len(E) \in Nat
      BY <2>1, <2>2, <2>3
    <2>6. \A i \in DOMAIN E : \E s \in 0 .. at - 1 : slots[s] = E[i].key
      BY <1>1, <1>2 DEF FileFromTable
    <2> HIDE DEF E, F
    <2>7. FileFromTable'
      <3> SUFFICES ASSUME NEW i \in DOMAIN F
                   PROVE  \E s \in 0 .. at : slots[s] = F[i].key
        BY <1>2 DEF FileFromTable, F
      <3>1. CASE i = Len(E) + 1
        BY <3>1, <2>1, <2>5, <1>2
      <3>2. CASE i # Len(E) + 1
        <4>1. i \in DOMAIN E /\ F[i] = E[i]
          BY <3>2, <2>5
        <4> QED
          BY <4>1, <2>6, <1>2
      <3> QED  BY <3>1, <3>2
    <2>8. FileDistinct'
      <3>1. \A i \in 1 .. Len(E) : E[i].key = slots[at] => slots[at] \notin PlainKeys
        <4> SUFFICES ASSUME NEW i \in 1 .. Len(E), E[i].key = slots[at],
                            slots[at] \in PlainKeys
                     PROVE  FALSE
          OBVIOUS
        <4>1. PICK s \in 0 .. at - 1 : slots[s] = slots[at]
          BY <2>5, <2>6
        <4>2. s \in Slots /\ s # at
          BY <1>2, WvsAssumption DEF Slots
        <4> QED
          BY <4>1, <4>2, <1>1, <1>2, TableDistinct
      <3>2. \A i, j \in DOMAIN E :
              E[i].key = E[j].key /\ E[i].key \in PlainKeys => i = j
        BY <1>1 DEF FileDistinct, E
      <3>3. \A i, j \in DOMAIN F :
              F[i].key = F[j].key /\ F[i].key \in PlainKeys => i = j
        <4> SUFFICES ASSUME NEW i \in DOMAIN F, NEW j \in DOMAIN F,
                            F[i].key = F[j].key, F[i].key \in PlainKeys
                     PROVE  i = j
          OBVIOUS
        <4>1. CASE i \in 1 .. Len(E) /\ j \in 1 .. Len(E)
          BY <4>1, <3>2, <2>5
        <4>2. CASE i = Len(E) + 1 /\ j \in 1 .. Len(E)
          BY <4>2, <3>1, <2>1, <2>5
        <4>3. CASE j = Len(E) + 1 /\ i \in 1 .. Len(E)
          BY <4>3, <3>1, <2>1, <2>5
        <4> QED
          BY <4>1, <4>2, <4>3, <2>5
      <3> QED
        BY <3>3 DEF FileDistinct, F, PlainKeys
    <2>9. TableFromFile' /\ HeaderFirst'
      BY <1>2, <2>3 DEF TableFromFile, HeaderFirst
    <2> QED
      BY <1>3, <2>4, <2>7, <2>8, <2>9 DEF IInv
  <1> QED  BY <1>4, <1>5

LEMMA StepIInv == IInv /\ [WvsNext]_wvsVars => IInv'
  <1> SUFFICES ASSUME IInv, [WvsNext]_wvsVars PROVE IInv'
    OBVIOUS
  <1>1. CASE Start \/ Reset \/ Crash
    <2>1. /\ slots' = NoKeys /\ hotness' = NoHeat /\ count' = 0
          /\ mode' \in {"down", "loading", "up"} /\ file' = file
      BY <1>1 DEF Start, Reset, Crash
    <2>2. CASE at' = 0
      BY <2>1, <2>2, EmptyTable DEF IInv
    <2>3. CASE at' # 0
      <3>1. Reset
        BY <1>1, <2>3 DEF Start, Crash
      <3>2. OccupiedSlots' = {} /\ NoKey \notin PlainKeys
        BY <2>1, WvsAssumption DEF NoKeys, OccupiedSlots, PlainKeys
      <3>3. CountIsOccupancy'
        BY <3>2, <2>1, FS_EmptySet DEF CountIsOccupancy
      <3>4. EntriesAreFound'
        BY <3>2, <2>1 DEF NoKeys, EntriesAreFound
      <3>5. WvsTypeOK'
        BY <3>1, WvsAssumption DEF Reset, IInv, WvsTypeOK, NoKeys, NoHeat, Classes
      <3> QED
        BY <3>1, <3>3, <3>4, <3>5
        DEF Reset, IInv, FileDistinct, FileFromTable, TableFromFile, HeaderFirst
    <2> QED  BY <2>2, <2>3
  <1>2. CASE LoadEntry
    BY <1>2, StepLoadEntry
  <1>3. CASE \E n \in Names : RecordNew(n) \/ RecordKnown(n)
    BY <1>3, StepRecordNew, StepRecordKnown
  <1>4. CASE UpdateAll
    BY <1>4, StepUpdateAll
  <1>5. CASE SaveOpen \/ SaveHeader \/ SaveClose \/ LoadEnd
    BY <1>5, StepSave
  <1>6. CASE SaveSlot
    BY <1>6, StepSaveSlot
  <1>7. CASE UNCHANGED wvsVars
    <2>1. UNCHANGED <<slots, hotness, count, mode, file, at>>
      BY <1>7 DEF wvsVars
    <2>2. EntriesAreFound' /\ CountIsOccupancy'
      BY <2>1, SameTable DEF IInv
    <2> QED
      BY <2>1, <2>2
      DEF IInv, WvsTypeOK, FileDistinct, FileFromTable, TableFromFile, HeaderFirst
  <1> QED
    BY <1>1, <1>2, <1>3, <1>4, <1>5, <1>6, <1>7 DEF WvsNext

LEMMA SpecIInv == WvsSpec => []IInv
  BY InitIInv, StepIInv, PTL DEF WvsSpec
-----------------------------------------------------------------------------
\* The table, the counter and the file keep their ranges: the counter, which
\* ct_wvs_load does not compare with the capacity, never passes it.
THEOREM WvsTypeCorrect == WvsSpec => []WvsTypeOK
  <1>1. IInv => WvsTypeOK
    BY DEF IInv
  <1> QED  BY <1>1, SpecIInv, PTL

\* Linear probing never loses an entry: ct_wvs_get_hotness finds every plain
\* key in the table, in the first slot that has it.
THEOREM RecordedKeysAreFound == WvsSpec => []EntriesAreFound
  <1>1. IInv => EntriesAreFound
    BY DEF IInv
  <1> QED  BY <1>1, SpecIInv, PTL

\* The counter that bounds ct_wvs_entry and goes into the header is exact.
THEOREM CountIsExact == WvsSpec => []CountIsOccupancy
  <1>1. IInv => CountIsOccupancy
    BY DEF IInv
  <1> QED  BY <1>1, SpecIInv, PTL
-----------------------------------------------------------------------------
(* The table and the file as maps.                                         *)

MapOf(sl, ho) ==
  [k \in {sl[s] : s \in Slots} \cap PlainKeys |-> ho[CHOOSE s \in Slots : sl[s] = k]]

MapOfFile(es) ==
  [k \in {es[i].key : i \in DOMAIN es} \cap PlainKeys |->
     es[CHOOSE i \in DOMAIN es : es[i].key = k].hotness]

\* No plain key is in a table, or in a file, twice.
DistinctIn(sl) ==
  \A s, t \in Slots : sl[s] = sl[t] /\ sl[s] \in PlainKeys => s = t
DistinctInFile(es) ==
  \A i, j \in DOMAIN es : es[i].key = es[j].key /\ es[i].key \in PlainKeys => i = j

LEMMA MapsNamed ==
  /\ TableMap = MapOf(slots, hotness) /\ TableMap' = MapOf(slots', hotness')
  /\ FileMap = MapOfFile(file.entries) /\ FileMap' = MapOfFile(file'.entries)
  BY DEF TableMap, MapOf, FileMap, FileKeys, MapOfFile, PlainKeys

\* A function with the keys of a table and the class of each is its map.
LEMMA MapOfIs ==
  ASSUME NEW sl, NEW ho, DistinctIn(sl), NEW D, NEW f, f = [k \in D |-> f[k]],
         D = {sl[s] : s \in Slots} \cap PlainKeys,
         \A s \in Slots : sl[s] \in PlainKeys => f[sl[s]] = ho[s]
  PROVE  MapOf(sl, ho) = f
  <1>1. ASSUME NEW k \in D PROVE ho[CHOOSE s \in Slots : sl[s] = k] = f[k]
    <2>1. PICK s \in Slots : sl[s] = k /\ sl[s] \in PlainKeys
      OBVIOUS
    <2>2. (CHOOSE t \in Slots : sl[t] = k) = s
      BY <2>1 DEF DistinctIn
    <2> QED  BY <2>1, <2>2
  <1> QED  BY <1>1 DEF MapOf

LEMMA MapOfAt ==
  ASSUME NEW sl, NEW ho, DistinctIn(sl), NEW s \in Slots, sl[s] \in PlainKeys
  PROVE  sl[s] \in DOMAIN MapOf(sl, ho) /\ MapOf(sl, ho)[sl[s]] = ho[s]
  <1>1. (CHOOSE t \in Slots : sl[t] = sl[s]) = s
    BY DEF DistinctIn
  <1> QED  BY <1>1 DEF MapOf

LEMMA MapOfFileIs ==
  ASSUME NEW es, DistinctInFile(es), NEW D, NEW f, f = [k \in D |-> f[k]],
         D = {es[i].key : i \in DOMAIN es} \cap PlainKeys,
         \A i \in DOMAIN es : es[i].key \in PlainKeys => f[es[i].key] = es[i].hotness
  PROVE  MapOfFile(es) = f
  <1>1. ASSUME NEW k \in D
        PROVE  es[CHOOSE i \in DOMAIN es : es[i].key = k].hotness = f[k]
    <2>1. PICK i \in DOMAIN es : es[i].key = k /\ es[i].key \in PlainKeys
      OBVIOUS
    <2>2. (CHOOSE j \in DOMAIN es : es[j].key = k) = i
      BY <2>1 DEF DistinctInFile
    <2> QED  BY <2>1, <2>2
  <1> QED  BY <1>1 DEF MapOfFile

LEMMA MapOfFileAt ==
  ASSUME NEW es, DistinctInFile(es), NEW i \in DOMAIN es, es[i].key \in PlainKeys
  PROVE  es[i].key \in DOMAIN MapOfFile(es) /\ MapOfFile(es)[es[i].key] = es[i].hotness
  <1>1. (CHOOSE j \in DOMAIN es : es[j].key = es[i].key) = i
    BY DEF DistinctInFile
  <1> QED  BY <1>1 DEF MapOfFile

LEMMA EmptyMaps ==
  /\ MapOf(NoKeys, NoHeat) = [k \in {} |-> 0]
  /\ MapOfFile(<<>>) = [k \in {} |-> 0]
  <1>1. NoKey \notin PlainKeys
    BY WvsAssumption DEF PlainKeys
  <1>2. {NoKeys[s] : s \in Slots} \cap PlainKeys = {}
    BY <1>1 DEF NoKeys
  <1>3. {<<>>[i].key : i \in DOMAIN <<>>} \cap PlainKeys = {}
    OBVIOUS
  <1> QED  BY <1>2, <1>3 DEF MapOf, MapOfFile

LEMMA IInvDistinct == IInv => DistinctIn(slots) /\ DistinctInFile(file.entries)
  BY TableDistinct DEF IInv, DistinctIn, FileDistinct, DistinctInFile
-----------------------------------------------------------------------------
(* What is in the file and what is in the table, while the one is copied   *)
(* to the other.                                                           *)

EntryOf(s) == [key |-> slots[s], hotness |-> hotness[s]]

\* The slots a save has been to.
VisitedSlots == IF mode = "saved" THEN Slots ELSE 0 .. at - 1

\* A save writes the entries of the slots it has been to, each once.
FileHasVisited ==
  mode \in {"saving", "saved"} =>
    /\ \A s \in VisitedSlots :
         slots[s] # NoKey => \E i \in DOMAIN file.entries : file.entries[i] = EntryOf(s)
    /\ \A i \in DOMAIN file.entries :
         \E s \in VisitedSlots : slots[s] # NoKey /\ file.entries[i] = EntryOf(s)
    /\ Len(file.entries) = Cardinality(VisitedSlots \cap OccupiedSlots)
    /\ file.ok => file.n = count
    /\ mode = "saved" => file.ok

\* A load has put what it has read into the table, and nothing else.
TableHasRead ==
  mode = "loading" =>
    /\ at <= Len(file.entries)
    /\ \A i \in 1 .. at :
         \E s \in Slots : slots[s] # NoKey /\ file.entries[i] = EntryOf(s)
    /\ \A s \in Slots :
         slots[s] # NoKey => \E i \in 1 .. at : file.entries[i] = EntryOf(s)

\* The header promises what the file has, or more when it was cut short.
HeaderCounts == Len(file.entries) <= file.n

CopyInv == FileHasVisited /\ TableHasRead /\ HeaderCounts

LEMMA InitCopyInv == WvsInit => CopyInv
  BY DEF WvsInit, NoFile, CopyInv, FileHasVisited, TableHasRead, HeaderCounts

\* Steps that leave the file alone and do not copy.
LEMMA CopyInvElsewhere ==
  ASSUME CopyInv, UNCHANGED file, mode' \in {"down", "up"}
  PROVE  CopyInv'
  BY DEF CopyInv, FileHasVisited, TableHasRead, HeaderCounts

LEMMA CopyLoadEntry ==
  ASSUME IInv, CopyInv, LoadEntry
  PROVE  CopyInv'
  <1> DEFINE E == file.entries
  <1>1. /\ mode = "loading" /\ mode' = "loading" /\ file' = file /\ at' = at + 1
        /\ at \in Nat /\ at + 1 \in DOMAIN E /\ E \in Seq(Entries)
        /\ slots \in [Slots -> Keys \cup {NoKey}] /\ hotness \in [Slots -> Classes]
    BY DEF LoadEntry, IInv, WvsTypeOK
  <1> DEFINE e == E[at + 1]
  <1>2. e \in Entries
    BY <1>1
  <1>3. e.key \in Names /\ e.key # NoKey /\ e = [key |-> e.key, hotness |-> e.hotness]
    BY <1>2, KeysAreNames DEF Entries
  <1>4. PICK p \in Slots :
          /\ StopsAt(e.key, {}, p)
          /\ slots' = [slots EXCEPT ![Probe(e.key, p)] = e.key]
          /\ hotness' = [hotness EXCEPT ![Probe(e.key, p)] = e.hotness]
    BY DEF LoadEntry, PutAt
  <1> HIDE DEF e
  <1>5. PICK x \in Slots : x = Probe(e.key, p) /\ slots[x] = NoKey
    BY <1>3, <1>4, ProbeType, WvsAssumption DEF StopsAt, Slots
  <1>6. slots' = [slots EXCEPT ![x] = e.key] /\ hotness' = [hotness EXCEPT ![x] = e.hotness]
    BY <1>4, <1>5
  <1>7. \A s \in Slots : s # x => slots'[s] = slots[s] /\ EntryOf(s)' = EntryOf(s)
    BY <1>1, <1>6 DEF EntryOf
  <1>8. slots'[x] = e.key /\ EntryOf(x)' = e
    <2>1. slots'[x] = e.key /\ hotness'[x] = e.hotness
      BY <1>1, <1>5, <1>6
    <2> QED  BY <2>1, <1>3 DEF EntryOf
  <1>9. /\ \A i \in 1 .. at : \E s \in Slots : slots[s] # NoKey /\ E[i] = EntryOf(s)
        /\ \A s \in Slots : slots[s] # NoKey => \E i \in 1 .. at : E[i] = EntryOf(s)
    BY <1>1 DEF CopyInv, TableHasRead
  <1>10. E[at + 1] = e
    BY DEF e
  <1> HIDE DEF E
  <1>11. \A i \in 1 .. at + 1 : \E s \in Slots : slots'[s] # NoKey /\ E[i] = EntryOf(s)'
    <2> TAKE i \in 1 .. at + 1
    <2>1. CASE i = at + 1
      BY <2>1, <1>3, <1>5, <1>8, <1>10
    <2>2. CASE i # at + 1
      <3>1. PICK s \in Slots : slots[s] # NoKey /\ E[i] = EntryOf(s)
        BY <2>2, <1>1, <1>9
      <3>2. s # x
        BY <3>1, <1>5
      <3> QED  BY <3>1, <3>2, <1>7
    <2> QED  BY <2>1, <2>2
  <1>12. \A s \in Slots : slots'[s] # NoKey => \E i \in 1 .. at + 1 : E[i] = EntryOf(s)'
    <2> SUFFICES ASSUME NEW s \in Slots, slots'[s] # NoKey
                 PROVE  \E i \in 1 .. at + 1 : E[i] = EntryOf(s)'
      OBVIOUS
    <2>1. CASE s = x
      <3>1. at + 1 \in 1 .. at + 1
        BY <1>1
      <3> QED  BY <2>1, <3>1, <1>8, <1>10
    <2>2. CASE s # x
      <3>1. PICK i \in 1 .. at : E[i] = EntryOf(s)
        BY <2>2, <1>7, <1>9
      <3>2. i \in 1 .. at + 1
        BY <1>1
      <3> QED  BY <2>2, <3>1, <3>2, <1>7
    <2> QED  BY <2>1, <2>2
  <1>13. TableHasRead'
    <2>1. at + 1 <= Len(file.entries)
      BY <1>1 DEF E
    <2> QED  BY <1>1, <2>1, <1>11, <1>12 DEF TableHasRead, E
  <1> QED
    BY <1>1, <1>13 DEF CopyInv, FileHasVisited, HeaderCounts

LEMMA CopySaveSlot ==
  ASSUME IInv, CopyInv, SaveSlot
  PROVE  CopyInv'
  <1> DEFINE E == file.entries
             V == 0 .. at - 1
  <1>1. /\ mode = "saving" /\ UNCHANGED <<slots, hotness, count, mode>>
        /\ file.ok /\ at \in Slots /\ at' = at + 1 /\ at \in Nat
        /\ E \in Seq(Entries) /\ file.n = count
        /\ file \in [ok : BOOLEAN, n : 0 .. Capacity, entries : Seq(Entries)]
    BY WvsAssumption DEF SaveSlot, SlotsToSave, IInv, WvsTypeOK, Slots, CopyInv, FileHasVisited
  <1>2. /\ \A s \in V : slots[s] # NoKey => \E i \in DOMAIN E : E[i] = EntryOf(s)
        /\ \A i \in DOMAIN E : \E s \in V : slots[s] # NoKey /\ E[i] = EntryOf(s)
        /\ Len(E) = Cardinality(V \cap OccupiedSlots)
    BY <1>1 DEF CopyInv, FileHasVisited, VisitedSlots
  <1>3. VisitedSlots' = V \cup {at} /\ V \cup {at} \subseteq Slots /\ at \notin V
        /\ OccupiedSlots' = OccupiedSlots
    BY <1>1, WvsAssumption DEF VisitedSlots, OccupiedSlots, Slots
  <1>4. \A s : EntryOf(s)' = EntryOf(s)
    BY <1>1 DEF EntryOf
  <1>5. /\ IsFiniteSet(OccupiedSlots) /\ IsFiniteSet(V \cap OccupiedSlots)
        /\ Cardinality((V \cup {at}) \cap OccupiedSlots) <= Cardinality(OccupiedSlots)
    BY SlotsFinite, FS_Subset DEF OccupiedSlots
  <1>6. Cardinality(OccupiedSlots) = file.n
    BY <1>1 DEF IInv, CountIsOccupancy
  <1>7. CASE slots[at] = NoKey
    <2>1. file' = file
      BY <1>7 DEF SaveSlot
    <2>2. (V \cup {at}) \cap OccupiedSlots = V \cap OccupiedSlots
      BY <1>7 DEF OccupiedSlots
    <2> HIDE DEF V, E
    <2>3. \A s \in V \cup {at} : slots[s] # NoKey => \E i \in DOMAIN E : E[i] = EntryOf(s)
      BY <1>2, <1>7
    <2>4. \A i \in DOMAIN E : \E s \in V \cup {at} : slots[s] # NoKey /\ E[i] = EntryOf(s)
      BY <1>2
    <2>5. FileHasVisited'
      BY <1>1, <1>2, <1>3, <1>4, <2>1, <2>2, <2>3, <2>4 DEF FileHasVisited, E
    <2> QED
      BY <1>1, <2>1, <2>5 DEF CopyInv, TableHasRead, HeaderCounts
  <1>8. CASE slots[at] # NoKey
    <2>1. PICK e : e = EntryOf(at)
      OBVIOUS
    <2>2. e \in Entries
      BY <1>1, <1>8, <2>1 DEF IInv, WvsTypeOK, Entries, EntryOf
    <2>3. file' = [file EXCEPT !.entries = Append(E, e)]
      BY <1>8, <2>1 DEF SaveSlot, EntryOf
    <2> DEFINE F == file'.entries
    <2>4. F = Append(E, e) /\ file'.ok = file.ok /\ file'.n = file.n
      BY <1>1, <2>3
    <2>5. /\ DOMAIN F = 1 .. Len(E) + 1 /\ DOMAIN E = 1 .. Len(E) /\ Len(E) \in Nat
          /\ Len(F) = Len(E) + 1
          /\ F[Len(E) + 1] = e /\ \A i \in 1 .. Len(E) : F[i] = E[i]
      BY <1>1, <2>2, <2>4
    <2>6. (V \cup {at}) \cap OccupiedSlots = (V \cap OccupiedSlots) \cup {at}
      BY <1>1, <1>8 DEF OccupiedSlots
    <2>7. Len(F) = Cardinality((V \cup {at}) \cap OccupiedSlots)
      <3>1. at \notin V \cap OccupiedSlots
        BY <1>3
      <3> QED
        BY <1>2, <1>5, <2>5, <2>6, <3>1, FS_AddElement
    <2> HIDE DEF V, E, F
    <2>8. \A s \in V \cup {at} : slots[s] # NoKey => \E i \in DOMAIN F : F[i] = EntryOf(s)
      <3> TAKE s \in V \cup {at}
      <3> HAVE slots[s] # NoKey
      <3>1. CASE s = at
        <4>1. Len(E) + 1 \in DOMAIN F
          BY <2>5
        <4> QED  BY <3>1, <4>1, <2>1, <2>5
      <3>2. CASE s # at
        <4>1. PICK i \in DOMAIN E : E[i] = EntryOf(s)
          BY <3>2, <1>2
        <4>2. i \in DOMAIN F /\ F[i] = E[i]
          BY <2>5
        <4> QED  BY <4>1, <4>2
      <3> QED  BY <3>1, <3>2
    <2>9. \A i \in DOMAIN F : \E s \in V \cup {at} : slots[s] # NoKey /\ F[i] = EntryOf(s)
      <3> TAKE i \in DOMAIN F
      <3>1. CASE i = Len(E) + 1
        BY <3>1, <1>8, <2>1, <2>5
      <3>2. CASE i # Len(E) + 1
        <4>1. i \in DOMAIN E /\ F[i] = E[i]
          BY <3>2, <2>5
        <4> QED  BY <4>1, <1>2
      <3> QED  BY <3>1, <3>2
    <2>10. FileHasVisited'
      <3>1. file'.n = count' /\ mode' # "saved" /\ VisitedSlots' = V \cup {at}
            /\ OccupiedSlots' = OccupiedSlots
        BY <1>1, <1>3, <2>4
      <3> QED
        BY <1>1, <1>3, <1>4, <2>4, <2>7, <2>8, <2>9, <3>1 DEF FileHasVisited, F
    <2>11. HeaderCounts'
      BY <1>5, <1>6, <2>4, <2>7 DEF HeaderCounts, F
    <2> QED
      BY <1>1, <2>10, <2>11 DEF CopyInv, TableHasRead
  <1> QED  BY <1>7, <1>8

LEMMA CopySaveClose ==
  ASSUME IInv, CopyInv, SaveClose
  PROVE  CopyInv'
  <1>1. /\ mode = "saving" /\ mode' = "saved" /\ at = Capacity /\ file.ok
        /\ UNCHANGED <<slots, hotness, count, file>>
    BY DEF SaveClose, SlotsToSave
  <1>2. VisitedSlots = Slots /\ VisitedSlots' = Slots /\ OccupiedSlots' = OccupiedSlots
    BY <1>1 DEF VisitedSlots, Slots, OccupiedSlots
  <1>3. \A s : EntryOf(s)' = EntryOf(s)
    BY <1>1 DEF EntryOf
  <1> QED
    BY <1>1, <1>2, <1>3 DEF CopyInv, FileHasVisited, TableHasRead, HeaderCounts

LEMMA StepCopyInv == IInv /\ CopyInv /\ [WvsNext]_wvsVars => CopyInv'
  <1> SUFFICES ASSUME IInv, CopyInv, [WvsNext]_wvsVars PROVE CopyInv'
    OBVIOUS
  <1>1. CASE Start
    <2>1. /\ mode' \in {"loading", "up"} /\ slots' = NoKeys /\ at' = 0 /\ file' = file
          /\ file.entries \in Seq(Entries)
      BY <1>1 DEF Start, IInv, WvsTypeOK
    <2>2. TableHasRead'
      BY <2>1 DEF NoKeys, TableHasRead
    <2> QED
      BY <2>1, <2>2 DEF CopyInv, FileHasVisited, HeaderCounts
  <1>2. CASE LoadEnd \/ Crash \/ UpdateAll \/ Reset
             \/ \E n \in Names : RecordNew(n) \/ RecordKnown(n)
    <2>1. UNCHANGED file /\ mode' \in {"down", "up"}
      BY <1>2 DEF LoadEnd, Crash, UpdateAll, Reset, RecordNew, RecordKnown
    <2> QED  BY <2>1, CopyInvElsewhere
  <1>3. CASE SaveOpen
    <2>1. /\ mode' = "saving" /\ at' = 0 /\ file' = NoFile /\ file'.entries = <<>>
          /\ file'.n = 0 /\ ~ file'.ok
      BY <1>3 DEF SaveOpen, NoFile
    <2>2. VisitedSlots' = {} /\ VisitedSlots' \cap OccupiedSlots' = {}
      BY <2>1 DEF VisitedSlots
    <2>3. Cardinality(VisitedSlots' \cap OccupiedSlots') = 0
      BY <2>2, FS_EmptySet
    <2> QED
      BY <2>1, <2>2, <2>3 DEF CopyInv, FileHasVisited, TableHasRead, HeaderCounts
  <1>4. CASE SaveHeader
    <2>1. /\ mode = "saving" /\ mode' = mode /\ at' = at /\ UNCHANGED <<slots, hotness, count>>
          /\ file'.ok /\ file'.n = count /\ file'.entries = file.entries
          /\ file.entries = <<>> /\ count \in Nat
      BY <1>4 DEF SaveHeader, IInv, HeaderFirst, WvsTypeOK
    <2>2. VisitedSlots' = VisitedSlots /\ OccupiedSlots' = OccupiedSlots
      BY <2>1 DEF VisitedSlots, OccupiedSlots
    <2>3. \A s : EntryOf(s)' = EntryOf(s)
      BY <2>1 DEF EntryOf
    <2> QED
      BY <2>1, <2>2, <2>3 DEF CopyInv, FileHasVisited, TableHasRead, HeaderCounts
  <1>5. CASE UNCHANGED wvsVars
    BY <1>5 DEF wvsVars, CopyInv, FileHasVisited, TableHasRead, HeaderCounts,
       VisitedSlots, OccupiedSlots, EntryOf
  <1> QED
    BY <1>1, <1>2, <1>3, <1>4, <1>5, CopyLoadEntry, CopySaveSlot, CopySaveClose DEF WvsNext

LEMMA SpecCopyInv == WvsSpec => [](IInv /\ CopyInv)
  BY InitIInv, InitCopyInv, StepIInv, StepCopyInv, PTL DEF WvsSpec
-----------------------------------------------------------------------------
(* The scoreboard.                                                         *)

\* A table and a file with the same entries are the same map.
LEMMA SameEntries ==
  ASSUME IInv,
         \A s \in Slots : slots[s] # NoKey =>
           \E i \in DOMAIN file.entries : file.entries[i] = EntryOf(s),
         \A i \in DOMAIN file.entries :
           \E s \in Slots : slots[s] # NoKey /\ file.entries[i] = EntryOf(s)
  PROVE  FileMap = TableMap
  <1> DEFINE E == file.entries
             K == {slots[s] : s \in Slots} \cap PlainKeys
  <1>1. DistinctIn(slots) /\ DistinctInFile(E) /\ NoKey \notin PlainKeys
    BY IInvDistinct, WvsAssumption DEF PlainKeys
  <1>2. K = {E[i].key : i \in DOMAIN E} \cap PlainKeys
    <2>1. ASSUME NEW k \in K PROVE k \in {E[i].key : i \in DOMAIN E}
      <3>1. PICK s \in Slots : k = slots[s] /\ slots[s] # NoKey
        BY <1>1
      <3>2. PICK i \in DOMAIN E : E[i] = EntryOf(s)
        BY <3>1
      <3> QED  BY <3>1, <3>2 DEF EntryOf
    <2>2. ASSUME NEW i \in DOMAIN E, E[i].key \in PlainKeys PROVE E[i].key \in K
      <3>1. PICK s \in Slots : E[i] = EntryOf(s)
        OBVIOUS
      <3> QED  BY <2>2, <3>1 DEF EntryOf
    <2> QED  BY <2>1, <2>2
  <1>3. ASSUME NEW i \in DOMAIN E, E[i].key \in PlainKeys
        PROVE  TableMap[E[i].key] = E[i].hotness
    <2>1. PICK s \in Slots : E[i] = EntryOf(s)
      OBVIOUS
    <2>2. E[i].key = slots[s] /\ E[i].hotness = hotness[s]
      BY <2>1 DEF EntryOf
    <2> QED  BY <1>1, <1>3, <2>2, MapOfAt, MapsNamed
  <1>4. TableMap = [k \in K |-> TableMap[k]]
    BY DEF TableMap
  <1> HIDE DEF E, K
  <1>5. MapOfFile(E) = TableMap
    BY <1>1, <1>2, <1>3, <1>4, MapOfFileIs
  <1> QED  BY <1>5, MapsNamed DEF E

LEMMA SavedIsTable ==
  ASSUME IInv, CopyInv, mode = "saved" \/ (mode = "saving" /\ at = Capacity)
  PROVE  FileMap = TableMap
  <1>1. VisitedSlots = Slots
    BY DEF VisitedSlots, Slots
  <1> QED  BY <1>1, SameEntries DEF CopyInv, FileHasVisited

LEMMA LoadedIsFile ==
  ASSUME IInv, CopyInv, LoadEnd
  PROVE  FileMap = TableMap
  <1>1. mode = "loading" /\ at \in Nat /\ file.entries \in Seq(Entries)
        /\ at <= Len(file.entries) /\ Len(file.entries) <= file.n
        /\ (at = file.n \/ at = Len(file.entries)) /\ file.n \in Nat
    BY DEF LoadEnd, IInv, WvsTypeOK, CopyInv, TableHasRead, HeaderCounts
  <1>2. 1 .. at = DOMAIN file.entries
    BY <1>1
  <1> QED  BY <1>1, <1>2, SameEntries DEF CopyInv, TableHasRead

\* A completed save keeps the whole scoreboard, and the header says how much
\* there is of it.
THEOREM SavesAreWhole == WvsSpec => []SavedWhole
  <1>1. IInv /\ CopyInv => SavedWhole
    <2> SUFFICES ASSUME IInv, CopyInv, mode = "saved"
                 PROVE  file.ok /\ file.n = Len(file.entries) /\ FileMap = TableMap
      BY DEF SavedWhole
    <2>1. VisitedSlots \cap OccupiedSlots = OccupiedSlots
      BY DEF VisitedSlots, OccupiedSlots
    <2>2. file.ok /\ file.n = Len(file.entries)
      BY <2>1 DEF CopyInv, FileHasVisited, IInv, CountIsOccupancy
    <2> QED  BY <2>2, SavedIsTable
  <1> QED  BY <1>1, SpecCopyInv, PTL

MapsAreDistinct == DistinctIn(slots) /\ DistinctInFile(file.entries)

LEMMA MapIsFunction ==
  ASSUME NEW sl, NEW ho
  PROVE  /\ DOMAIN MapOf(sl, ho) = {sl[s] : s \in Slots} \cap PlainKeys
         /\ MapOf(sl, ho) = [k \in DOMAIN MapOf(sl, ho) |-> MapOf(sl, ho)[k]]
  BY DEF MapOf

\* A plain name that is new gets an entry, HOT; another one's entry is under a
\* key that is nobody's.
LEMMA NewInMap ==
  ASSUME IInv, DistinctIn(slots'), NEW n \in Names, RecordNew(n)
  PROVE  IF n \in PlainKeys
         THEN n \notin DOMAIN TableMap /\ TableMap' = SB!Extend(TableMap, n, 0)
         ELSE TableMap' = TableMap
  <1> DEFINE T == MapOf(slots, hotness)
  <1>1. /\ DistinctIn(slots) /\ NoKey \notin PlainKeys
        /\ slots \in [Slots -> Keys \cup {NoKey}] /\ hotness \in [Slots -> Classes]
    BY IInvDistinct, WvsAssumption DEF PlainKeys, IInv, WvsTypeOK
  <1>2. PICK p \in Slots :
          /\ StopsAt(n, {n}, p)
          /\ slots[Probe(n, p)] = NoKey
          /\ slots' = [slots EXCEPT ![Probe(n, p)] = Trunc[n]]
          /\ hotness' = [hotness EXCEPT ![Probe(n, p)] = 0]
    BY DEF RecordNew
  <1>3. PICK x \in Slots : x = Probe(n, p)
    BY ProbeType, WvsAssumption DEF Slots
  <1>4. /\ slots[x] = NoKey /\ slots'[x] = Trunc[n] /\ hotness'[x] = 0
        /\ \A s \in Slots : s # x => slots'[s] = slots[s] /\ hotness'[s] = hotness[s]
    BY <1>1, <1>2, <1>3
  <1>5. Trunc[n] \in PlainKeys <=> n \in PlainKeys
    BY WvsAssumption DEF PlainKeys
  <1>6. n \in PlainKeys => Trunc[n] = n
    BY DEF PlainKeys
  <1>7. \A s \in Slots : slots[s] \in PlainKeys =>
          slots[s] \in DOMAIN T /\ T[slots[s]] = hotness[s]
    BY <1>1, MapOfAt
  <1>8. DOMAIN T = {slots[s] : s \in Slots} \cap PlainKeys /\ T = [k \in DOMAIN T |-> T[k]]
    BY MapIsFunction
  <1> HIDE DEF T
  <1>9. CASE n \notin PlainKeys
    <2>1. DOMAIN T = {slots'[s] : s \in Slots} \cap PlainKeys
      BY <1>1, <1>4, <1>5, <1>8, <1>9
    <2>2. \A s \in Slots : slots'[s] \in PlainKeys => T[slots'[s]] = hotness'[s]
      BY <1>4, <1>5, <1>7, <1>9
    <2>3. MapOf(slots', hotness') = T
      BY <1>8, <2>1, <2>2, MapOfIs
    <2> QED  BY <2>3, <1>9, MapsNamed DEF T
  <1>10. CASE n \in PlainKeys
    <2>1. \A s \in Slots : slots[s] # n
      <3> SUFFICES ASSUME NEW s \in Slots, slots[s] = n PROVE FALSE
        OBVIOUS
      <3>1. PICK q \in Slots : s = Probe(n, q) /\ StopsAt(n, {n}, q)
        BY <1>10 DEF IInv, EntriesAreFound
      <3>2. q \in Nat /\ p \in Nat /\ n # NoKey
        BY WvsAssumption DEF Slots
      <3>3. ~ (p < q)
        BY <1>2, <3>1, <3>2 DEF StopsAt
      <3>4. ~ (q < p)
        BY <1>2, <3>1, <3>2 DEF StopsAt
      <3>5. p = q
        BY <3>2, <3>3, <3>4
      <3> QED  BY <1>2, <3>1, <3>2, <3>5
    <2> DEFINE f == SB!Extend(T, n, 0)
    <2>2. f = [k \in DOMAIN T \cup {n} |-> f[k]] /\ f[n] = 0 /\ n \notin DOMAIN T
          /\ \A k \in DOMAIN T : k # n => f[k] = T[k]
      BY <1>8, <2>1 DEF SB!Extend
    <2> HIDE DEF f
    <2>3. DOMAIN T \cup {n} = {slots'[s] : s \in Slots} \cap PlainKeys
      BY <1>1, <1>4, <1>6, <1>8, <1>10
    <2>4. \A s \in Slots : slots'[s] \in PlainKeys => f[slots'[s]] = hotness'[s]
      BY <1>4, <1>6, <1>7, <1>10, <2>1, <2>2
    <2>5. MapOf(slots', hotness') = f
      BY <2>2, <2>3, <2>4, MapOfIs
    <2> QED  BY <2>2, <2>5, <1>10, MapsNamed DEF T, f
  <1> QED  BY <1>9, <1>10

\* An access to a name that has an entry warms the entry of that name alone.
LEMMA KnownInMap ==
  ASSUME IInv, NEW n \in Names, RecordKnown(n)
  PROVE  IF n \in PlainKeys
         THEN /\ n \in DOMAIN TableMap
              /\ \E h \in Classes : /\ h \in {TableMap[n], TableMap[n] - 1}
                                    /\ TableMap' = SB!Extend(TableMap, n, h)
         ELSE TableMap' = TableMap
  <1> DEFINE T == MapOf(slots, hotness)
  <1>1. /\ DistinctIn(slots) /\ slots' = slots
        /\ slots \in [Slots -> Keys \cup {NoKey}] /\ hotness \in [Slots -> Classes]
    BY IInvDistinct DEF RecordKnown, IInv, WvsTypeOK
  <1>2. PICK p \in Slots :
          /\ slots[Probe(n, p)] = n
          /\ \E h \in Warmer(hotness[Probe(n, p)]) :
               hotness' = [hotness EXCEPT ![Probe(n, p)] = h]
    BY DEF RecordKnown
  <1>3. PICK x \in Slots : x = Probe(n, p)
    BY ProbeType, WvsAssumption DEF Slots
  <1>4. PICK h \in Warmer(hotness[x]) : hotness' = [hotness EXCEPT ![x] = h]
    BY <1>2, <1>3
  <1>5. /\ slots[x] = n /\ hotness'[x] = h /\ h \in Classes /\ h \in {hotness[x], hotness[x] - 1}
        /\ \A s \in Slots : s # x => hotness'[s] = hotness[s]
    BY <1>1, <1>2, <1>3, <1>4 DEF Warmer
  <1>6. \A s \in Slots : slots[s] \in PlainKeys =>
          slots[s] \in DOMAIN T /\ T[slots[s]] = hotness[s]
    BY <1>1, MapOfAt
  <1>7. DOMAIN T = {slots[s] : s \in Slots} \cap PlainKeys /\ T = [k \in DOMAIN T |-> T[k]]
    BY MapIsFunction
  <1> HIDE DEF T
  <1>8. CASE n \notin PlainKeys
    <2>1. \A s \in Slots : slots[s] \in PlainKeys => T[slots[s]] = hotness'[s]
      BY <1>5, <1>6, <1>8
    <2>2. MapOf(slots, hotness') = T
      BY <1>1, <1>7, <2>1, MapOfIs
    <2> QED  BY <2>2, <1>1, <1>8, MapsNamed DEF T
  <1>9. CASE n \in PlainKeys
    <2> DEFINE f == SB!Extend(T, n, h)
    <2>1. n \in DOMAIN T /\ T[n] = hotness[x]
      BY <1>5, <1>6, <1>9
    <2>2. f = [k \in DOMAIN T \cup {n} |-> f[k]] /\ f[n] = h
          /\ \A k \in DOMAIN T : k # n => f[k] = T[k]
      BY DEF SB!Extend
    <2> HIDE DEF f
    <2>3. DOMAIN T \cup {n} = {slots[s] : s \in Slots} \cap PlainKeys
      BY <1>7, <2>1
    <2>4. \A s \in Slots : slots[s] \in PlainKeys => f[slots[s]] = hotness'[s]
      <3> TAKE s \in Slots
      <3> HAVE slots[s] \in PlainKeys
      <3>1. CASE s = x
        BY <3>1, <1>5, <2>2
      <3>2. CASE s # x
        <4>1. slots[s] # n
          BY <3>2, <1>1, <1>5, <1>9 DEF DistinctIn
        <4> QED  BY <3>2, <4>1, <1>5, <1>6, <2>2
      <3> QED  BY <3>1, <3>2
    <2>5. MapOf(slots, hotness') = f
      BY <1>1, <2>2, <2>3, <2>4, MapOfIs
    <2>6. TableMap = T /\ TableMap' = f
      BY <2>5, <1>1, MapsNamed DEF T
    <2> QED  BY <2>1, <2>6, <1>5, <1>9 DEF f
  <1> QED  BY <1>8, <1>9

\* A decay cools some of the entries by one class.
LEMMA DecayInMap ==
  ASSUME IInv, UpdateAll
  PROVE  \E D \in SUBSET DOMAIN TableMap :
           /\ \A k \in D : TableMap[k] < Coldest
           /\ TableMap' = [k \in DOMAIN TableMap |->
                             IF k \in D THEN TableMap[k] + 1 ELSE TableMap[k]]
  <1> DEFINE T == MapOf(slots, hotness)
             U == MapOf(slots, hotness')
             D == {k \in DOMAIN T : U[k] # T[k]}
  <1>1. /\ DistinctIn(slots) /\ slots' = slots /\ NoKey \notin PlainKeys
        /\ hotness \in [Slots -> Classes] /\ hotness' \in [Slots -> Classes]
        /\ \A s \in Slots : slots[s] # NoKey => hotness'[s] \in Cooler(hotness[s])
    BY IInvDistinct, WvsAssumption DEF PlainKeys, UpdateAll, IInv, WvsTypeOK
  <1>2. \A s \in Slots : slots[s] \in PlainKeys =>
          /\ slots[s] \in DOMAIN T /\ T[slots[s]] = hotness[s]
          /\ slots[s] \in DOMAIN U /\ U[slots[s]] = hotness'[s]
    BY <1>1, MapOfAt
  <1>3. /\ DOMAIN T = {slots[s] : s \in Slots} \cap PlainKeys /\ T = [k \in DOMAIN T |-> T[k]]
        /\ DOMAIN U = DOMAIN T /\ U = [k \in DOMAIN U |-> U[k]]
    BY MapIsFunction
  <1> HIDE DEF T, U
  <1>4. \A k \in DOMAIN T : U[k] \in Cooler(T[k]) /\ T[k] \in Classes
    <2> TAKE k \in DOMAIN T
    <2>1. PICK s \in Slots : k = slots[s] /\ slots[s] \in PlainKeys
      BY <1>3
    <2> QED  BY <2>1, <1>1, <1>2
  <1>5. \A k \in D : T[k] < Coldest /\ U[k] = T[k] + 1
    BY <1>4, WvsAssumption DEF Cooler, Classes
  <1>6. \A k \in DOMAIN T : U[k] = IF k \in D THEN T[k] + 1 ELSE T[k]
    BY <1>5
  <1> HIDE DEF D
  <1>7. U = [k \in DOMAIN T |-> IF k \in D THEN T[k] + 1 ELSE T[k]]
    BY <1>3, <1>6
  <1>8. TableMap = T /\ TableMap' = U
    BY <1>1, MapsNamed DEF T, U
  <1>9. D \in SUBSET DOMAIN T
    BY DEF D
  <1> QED  BY <1>5, <1>7, <1>8, <1>9

\* A slot that is written adds its entry to the file's map.
LEMMA StoreInMap ==
  ASSUME IInv, DistinctInFile(file'.entries), SaveSlot
  PROVE  /\ TableMap' = TableMap
         /\ IF slots[at] \in PlainKeys
            THEN /\ slots[at] \in DOMAIN TableMap
                 /\ FileMap' = SB!Extend(FileMap, slots[at], TableMap[slots[at]])
            ELSE FileMap' = FileMap
  <1> DEFINE E == file.entries
             S == MapOfFile(E)
  <1>1. /\ UNCHANGED <<slots, hotness>> /\ at \in Slots /\ E \in Seq(Entries)
        /\ DistinctIn(slots) /\ DistinctInFile(E) /\ NoKey \notin PlainKeys
        /\ file \in [ok : BOOLEAN, n : 0 .. Capacity, entries : Seq(Entries)]
    BY IInvDistinct, WvsAssumption
    DEF PlainKeys, SaveSlot, SlotsToSave, IInv, WvsTypeOK, Slots
  <1>2. TableMap' = TableMap
    BY <1>1, MapsNamed
  <1>3. CASE slots[at] = NoKey
    <2>1. file' = file
      BY <1>3 DEF SaveSlot
    <2> QED  BY <1>1, <1>2, <1>3, <2>1, MapsNamed
  <1>4. CASE slots[at] # NoKey
    <2>1. PICK e : e = EntryOf(at)
      OBVIOUS
    <2>2. e \in Entries /\ e.key = slots[at] /\ e.hotness = hotness[at]
      BY <1>1, <1>4, <2>1 DEF IInv, WvsTypeOK, Entries, EntryOf
    <2>3. file' = [file EXCEPT !.entries = Append(E, e)]
      BY <1>4, <2>1 DEF SaveSlot, EntryOf
    <2>4. PICK F : F = file'.entries
      OBVIOUS
    <2>5. F = Append(E, e)
      BY <1>1, <2>3, <2>4
    <2>6. /\ DOMAIN F = 1 .. Len(E) + 1 /\ DOMAIN E = 1 .. Len(E) /\ Len(E) \in Nat
          /\ F[Len(E) + 1] = e /\ \A i \in 1 .. Len(E) : F[i] = E[i]
      BY <1>1, <2>2, <2>5
    <2>7. \A i \in DOMAIN E : E[i].key \in PlainKeys =>
            E[i].key \in DOMAIN S /\ S[E[i].key] = E[i].hotness
      BY <1>1, MapOfFileAt
    <2>8. DOMAIN S = {E[i].key : i \in DOMAIN E} \cap PlainKeys /\ S = [k \in DOMAIN S |-> S[k]]
      BY DEF MapOfFile
    <2>9. DistinctInFile(F)
      BY <2>4
    <2>10. FileMap = S /\ FileMap' = MapOfFile(F)
      BY <2>4, MapsNamed
    <2> HIDE DEF E, S
    <2>11. CASE slots[at] \notin PlainKeys
      <3>1. DOMAIN S = {F[i].key : i \in DOMAIN F} \cap PlainKeys
        BY <2>2, <2>6, <2>8, <2>11
      <3>2. \A i \in DOMAIN F : F[i].key \in PlainKeys => S[F[i].key] = F[i].hotness
        BY <2>2, <2>6, <2>7, <2>11
      <3>3. MapOfFile(F) = S
        BY <2>8, <2>9, <3>1, <3>2, MapOfFileIs
      <3> QED  BY <1>2, <2>10, <2>11, <3>3
    <2>12. CASE slots[at] \in PlainKeys
      <3>1. slots[at] \in DOMAIN TableMap /\ TableMap[slots[at]] = hotness[at]
        BY <1>1, <2>12, MapOfAt, MapsNamed
      <3>2. PICK k : k = slots[at]
        OBVIOUS
      <3>3. PICK h : h = TableMap[slots[at]]
        OBVIOUS
      <3> DEFINE f == SB!Extend(S, k, h)
      <3>4. f = [y \in DOMAIN S \cup {k} |-> f[y]] /\ f[k] = h
            /\ \A y \in DOMAIN S : y # k => f[y] = S[y]
        BY DEF SB!Extend
      <3> HIDE DEF f
      <3>5. DOMAIN S \cup {k} = {F[i].key : i \in DOMAIN F} \cap PlainKeys
        <4>1. Len(E) + 1 \in DOMAIN F /\ F[Len(E) + 1].key = k /\ k \in PlainKeys
          BY <2>2, <2>6, <2>12, <3>2
        <4>2. ASSUME NEW i \in DOMAIN F, F[i].key \in PlainKeys
              PROVE  F[i].key \in DOMAIN S \cup {k}
          BY <4>1, <4>2, <2>6, <2>8
        <4>3. ASSUME NEW y \in DOMAIN S
              PROVE  \E i \in DOMAIN F : y = F[i].key /\ y \in PlainKeys
          <5>1. PICK i \in DOMAIN E : y = E[i].key /\ y \in PlainKeys
            BY <2>8
          <5> QED  BY <5>1, <2>6
        <4> QED  BY <4>1, <4>2, <4>3
      <3>6. \A i \in DOMAIN F : F[i].key \in PlainKeys => f[F[i].key] = F[i].hotness
        <4> TAKE i \in DOMAIN F
        <4> HAVE F[i].key \in PlainKeys
        <4>1. CASE i = Len(E) + 1
          BY <4>1, <2>2, <2>6, <3>1, <3>2, <3>3, <3>4
        <4>2. CASE i # Len(E) + 1
          <5>1. i \in DOMAIN E /\ F[i] = E[i]
            BY <4>2, <2>6
          <5>2. E[i].key # k
            <6>1. Len(E) + 1 \in DOMAIN F
              BY <2>6
            <6> QED  BY <4>2, <5>1, <6>1, <2>2, <2>6, <2>9, <2>12, <3>2 DEF DistinctInFile
          <5> QED  BY <5>1, <5>2, <2>7, <3>4
        <4> QED  BY <4>1, <4>2
      <3>7. MapOfFile(F) = f
        <4>1. PICK D : D = DOMAIN S \cup {k}
          OBVIOUS
        <4>2. f = [y \in D |-> f[y]] /\ D = {F[i].key : i \in DOMAIN F} \cap PlainKeys
          BY <4>1, <3>4, <3>5
        <4> QED  BY <4>2, <2>9, <3>6, MapOfFileIs
      <3>8. FileMap' = SB!Extend(FileMap, slots[at], TableMap[slots[at]])
        <4>1. FileMap' = SB!Extend(S, k, h)
          BY <2>10, <3>7 DEF f
        <4> QED  BY <4>1, <2>10, <3>2, <3>3
      <3> QED  BY <1>2, <2>12, <3>1, <3>8
    <2> QED  BY <2>11, <2>12
  <1> QED  BY <1>3, <1>4
-----------------------------------------------------------------------------
SBVars == <<IF mode \in {"up", "saving"} THEN TableMap ELSE [k \in {} |-> 0],
            FileMap,
            CASE mode = "up" -> "up" [] mode = "saving" -> "closing" [] OTHER -> "down">>

LEMMA InitScoreboard == WvsInit => SB!ScoreboardInit
  <1> SUFFICES ASSUME WvsInit PROVE SB!ScoreboardInit
    OBVIOUS
  <1>1. FileMap = [k \in {} |-> 0]
    BY MapsNamed, EmptyMaps DEF WvsInit, NoFile
  <1> QED
    BY <1>1 DEF WvsInit, SB!ScoreboardInit, SB!Empty

\* One step of the table, the file or the process is one of the scoreboard, or
\* none.
LEMMA StepScoreboard ==
  ASSUME IInv, CopyInv, MapsAreDistinct', [WvsNext]_wvsVars
  PROVE  SB!ScoreboardNext \/ UNCHANGED SBVars
  <1>1. DistinctIn(slots') /\ DistinctInFile(file'.entries)
    BY DEF MapsAreDistinct, DistinctIn, DistinctInFile, PlainKeys
  <1>2. ASSUME UNCHANGED file PROVE FileMap' = FileMap
    BY <1>2, MapsNamed
  <1>3. ASSUME slots' = NoKeys, hotness' = NoHeat PROVE TableMap' = [k \in {} |-> 0]
    BY <1>3, MapsNamed, EmptyMaps
  <1>4. CASE Start
    <2>1. /\ mode \in {"down", "saved"} /\ FileMap' = FileMap /\ TableMap' = [k \in {} |-> 0]
          /\ mode' = IF file.ok THEN "loading" ELSE "up"
      BY <1>2, <1>3, <1>4 DEF Start
    <2>2. CASE file.ok
      BY <2>1, <2>2 DEF SBVars
    <2>3. CASE ~ file.ok
      <3>1. FileMap = [k \in {} |-> 0]
        BY <2>3, MapsNamed, EmptyMaps DEF IInv, HeaderFirst
      <3>2. SB!Start
        BY <2>1, <2>3, <3>1 DEF SB!Start
      <3> QED  BY <3>2 DEF SB!ScoreboardNext
    <2> QED  BY <2>2, <2>3
  <1>5. CASE LoadEntry
    BY <1>2, <1>5 DEF LoadEntry, SBVars
  <1>6. CASE LoadEnd
    <2>1. /\ mode = "loading" /\ mode' = "up" /\ FileMap' = FileMap /\ TableMap' = TableMap
          /\ FileMap = TableMap
      BY <1>2, <1>6, LoadedIsFile, MapsNamed DEF LoadEnd
    <2>2. SB!Start
      BY <2>1 DEF SB!Start
    <2> QED  BY <2>2 DEF SB!ScoreboardNext
  <1>7. ASSUME NEW n \in Names, RecordNew(n) PROVE SB!ScoreboardNext \/ UNCHANGED SBVars
    <2>1. mode = "up" /\ mode' = "up" /\ FileMap' = FileMap
      BY <1>2, <1>7 DEF RecordNew
    <2>2. CASE n \in PlainKeys
      <3>1. n \notin DOMAIN TableMap /\ TableMap' = SB!Extend(TableMap, n, 0)
        BY <1>1, <1>7, <2>2, NewInMap
      <3>2. 0 \in 0 .. Coldest
        BY WvsAssumption
      <3>3. SB!Access(n)
        BY <2>1, <3>1, <3>2 DEF SB!Access
      <3> QED  BY <2>2, <3>3 DEF SB!ScoreboardNext
    <2>3. CASE n \notin PlainKeys
      <3>1. TableMap' = TableMap
        BY <1>1, <1>7, <2>3, NewInMap
      <3> QED  BY <2>1, <3>1 DEF SBVars
    <2> QED  BY <2>2, <2>3
  <1>8. ASSUME NEW n \in Names, RecordKnown(n) PROVE SB!ScoreboardNext \/ UNCHANGED SBVars
    <2>1. mode = "up" /\ mode' = "up" /\ FileMap' = FileMap
      BY <1>2, <1>8 DEF RecordKnown
    <2>2. CASE n \in PlainKeys
      <3>1. n \in DOMAIN TableMap
        BY <1>8, <2>2, KnownInMap
      <3>2. PICK h \in Classes : /\ h \in {TableMap[n], TableMap[n] - 1}
                                 /\ TableMap' = SB!Extend(TableMap, n, h)
        BY <1>8, <2>2, KnownInMap
      <3>3. SB!Access(n)
        BY <2>1, <3>1, <3>2 DEF SB!Access, Classes
      <3> QED  BY <2>2, <3>3 DEF SB!ScoreboardNext
    <2>3. CASE n \notin PlainKeys
      <3>1. TableMap' = TableMap
        BY <1>8, <2>3, KnownInMap
      <3> QED  BY <2>1, <3>1 DEF SBVars
    <2> QED  BY <2>2, <2>3
  <1>9. CASE UpdateAll
    <2>1. mode = "up" /\ mode' = "up" /\ FileMap' = FileMap
      BY <1>2, <1>9 DEF UpdateAll
    <2>2. SB!Decay
      BY <1>9, <2>1, DecayInMap DEF SB!Decay
    <2> QED  BY <2>2 DEF SB!ScoreboardNext
  <1>10. CASE Reset
    <2>1. mode = "up" /\ mode' = "up" /\ FileMap' = FileMap /\ TableMap' = [k \in {} |-> 0]
      BY <1>2, <1>3, <1>10 DEF Reset
    <2>2. SB!Clear
      BY <2>1 DEF SB!Clear, SB!Empty
    <2> QED  BY <2>2 DEF SB!ScoreboardNext
  <1>11. CASE SaveOpen
    <2>1. mode = "up" /\ mode' = "saving" /\ TableMap' = TableMap
      BY <1>11, MapsNamed DEF SaveOpen
    <2>2. FileMap' = [k \in {} |-> 0]
      BY <1>11, MapsNamed, EmptyMaps DEF SaveOpen, NoFile
    <2>3. SB!Close
      BY <2>1, <2>2 DEF SB!Close, SB!Empty
    <2> QED  BY <2>3 DEF SB!ScoreboardNext
  <1>12. CASE SaveHeader
    <2>1. mode' = mode /\ TableMap' = TableMap /\ file'.entries = file.entries
      BY <1>12, MapsNamed DEF SaveHeader, IInv, WvsTypeOK
    <2>2. FileMap' = FileMap
      BY <2>1, MapsNamed
    <2> QED  BY <2>1, <2>2 DEF SBVars
  <1>13. CASE SaveSlot
    <2>1. mode = "saving" /\ mode' = "saving" /\ TableMap' = TableMap
      BY <1>1, <1>13, StoreInMap DEF SaveSlot
    <2>2. CASE slots[at] \in PlainKeys
      <3>1. PICK k \in PlainKeys : k = slots[at]
        BY <2>2
      <3>2. k \in DOMAIN TableMap /\ FileMap' = SB!Extend(FileMap, k, TableMap[k])
        BY <1>1, <1>13, <2>2, <3>1, StoreInMap
      <3>3. SB!Store(k)
        BY <2>1, <3>2 DEF SB!Store
      <3> QED  BY <3>3 DEF SB!ScoreboardNext
    <2>3. CASE slots[at] \notin PlainKeys
      <3>1. FileMap' = FileMap
        BY <1>1, <1>13, <2>3, StoreInMap
      <3> QED  BY <2>1, <3>1 DEF SBVars
    <2> QED  BY <2>2, <2>3
  <1>14. CASE SaveClose
    <2>1. mode = "saving" /\ at = Capacity /\ mode' = "saved" /\ FileMap' = FileMap
      BY <1>2, <1>14 DEF SaveClose, SlotsToSave
    <2>2. FileMap = TableMap
      BY <2>1, SavedIsTable
    <2>3. SB!Closed
      BY <2>1, <2>2 DEF SB!Closed, SB!Empty
    <2> QED  BY <2>3 DEF SB!ScoreboardNext
  <1>15. CASE Crash
    <2>1. mode \in {"loading", "up", "saving"} /\ mode' = "down" /\ FileMap' = FileMap
      BY <1>2, <1>15 DEF Crash
    <2>2. CASE mode = "loading"
      BY <2>1, <2>2 DEF SBVars
    <2>3. CASE mode \in {"up", "saving"}
      <3>1. SB!Stop
        BY <2>1, <2>3 DEF SB!Stop, SB!Empty
      <3> QED  BY <3>1 DEF SB!ScoreboardNext
    <2> QED  BY <2>1, <2>2, <2>3
  <1>16. CASE UNCHANGED wvsVars
    <2>1. mode' = mode /\ TableMap' = TableMap /\ FileMap' = FileMap
      BY <1>16, MapsNamed DEF wvsVars
    <2> QED  BY <2>1 DEF SBVars
  <1> QED
    BY <1>4, <1>5, <1>6, <1>7, <1>8, <1>9, <1>10, <1>11, <1>12, <1>13, <1>14, <1>15, <1>16
    DEF WvsNext

\* For every table, hash and set of names the hash table and its file are a
\* map with a stored copy: nothing recorded is lost by a later access, a decay or
\* a completed save and load, and a crash leaves part of what the table held.
THEOREM WvsImplementsScoreboard == WvsSpec => ImplementsScoreboard
  <1>1. WvsInit => SB!ScoreboardInit
    BY InitScoreboard
  <1>2. IInv => MapsAreDistinct
    BY IInvDistinct DEF MapsAreDistinct
  <1>3. IInv /\ CopyInv /\ MapsAreDistinct' /\ [WvsNext]_wvsVars
          => SB!ScoreboardNext \/ UNCHANGED SBVars
    BY StepScoreboard
  <1> QED
    BY <1>1, <1>2, <1>3, SpecCopyInv, PTL
    DEF WvsSpec, ImplementsScoreboard, SB!ScoreboardSpec, SBVars

--------------------------------------------------------------------------------
(* The weight manager.                                                     *)

\* A region is well formed, and so is its buffer.
Good(r) == r \in RegionRecords /\ (r.buf # NoBuf => r.buf = Charge(r))

RInv ==
  /\ regions \in Seq(RegionRecords)
  /\ BufferFitsPlacement

LEMMA RInvIsGood == RInv <=> regions \in Seq(RegionRecords) /\ \A i \in DOMAIN regions : Good(regions[i])
  <1>1. ASSUME regions \in Seq(RegionRecords), NEW i \in DOMAIN regions
        PROVE  regions[i] \in RegionRecords
    BY <1>1
  <1> QED
    BY <1>1 DEF RInv, BufferFitsPlacement, Good

LEMMA BytesType ==
  ASSUME NEW size \in Sizes, NEW p \in Placements
  PROVE  Bytes(size, p) \in 0 .. Word - 1
  <1>1. size \in 32 .. Word - 1 /\ Word \in Nat
    BY AwmAssumption
  <1>2. \A d \in {2, 4, 8, 16, 32} : size \div d \in 0 .. Word - 1
    BY <1>1
  <1> QED
    BY <1>1, <1>2 DEF Bytes, Placements, Ram

LEMMA NoBufIsNoSize == NoBuf \notin 0 .. Word - 1
  BY DEF NoBuf

LEMMA EvictedGood ==
  ASSUME NEW r, Good(r)
  PROVE  Good(Evicted(r)) /\ Evicted(r).placement = "SSD_Q1"
  BY DEF Good, Evicted, RegionRecords, Placements

LEMMA RegionGood ==
  ASSUME NEW size \in Sizes, NEW p \in Placements, NEW b \in {NoBuf, Bytes(size, p)}
  PROVE  Good(Region(size, p, b))
  <1>1. b \in 0 .. Word - 1 \cup {NoBuf}
    BY BytesType
  <1> QED
    BY <1>1 DEF Good, Region, RegionRecords, Charge

LEMMA NoColdGood ==
  ASSUME RInv
  PROVE  /\ RegionsNoCold \in Seq(RegionRecords)
         /\ DOMAIN RegionsNoCold = DOMAIN regions
         /\ \A i \in DOMAIN regions : Good(RegionsNoCold[i])
         /\ \A i \in DOMAIN regions : RegionsNoCold[i].placement \notin ColdPlacements
         /\ \A i \in DOMAIN regions :
              regions[i].placement \in HotPlacements => RegionsNoCold[i] = regions[i]
         /\ \A i \in DOMAIN regions :
              regions[i].placement = "SSD_Q1" => RegionsNoCold[i] = regions[i]
  <1>1. regions \in Seq(RegionRecords) /\ \A i \in DOMAIN regions : Good(regions[i])
    BY RInvIsGood
  <1>2. DOMAIN regions = 1 .. Len(regions) /\ Len(regions) \in Nat
    BY <1>1
  <1>3. \A i \in DOMAIN regions : Good(RegionsNoCold[i])
    BY <1>1, EvictedGood DEF RegionsNoCold
  <1>4. RegionsNoCold \in [1 .. Len(regions) -> RegionRecords]
    BY <1>2, <1>3 DEF RegionsNoCold, Good
  <1>5. RegionsNoCold \in Seq(RegionRecords)
    BY <1>2, <1>4, SeqDef
  <1>6. \A i \in DOMAIN regions : RegionsNoCold[i].placement \notin ColdPlacements
    BY <1>1, EvictedGood DEF RegionsNoCold, ColdRegions, ColdPlacements
  <1> QED
    BY <1>3, <1>5, <1>6 DEF RegionsNoCold, ColdRegions, ColdPlacements, HotPlacements

\* Changing one region to a good one.
LEMMA SetGood ==
  ASSUME NEW regs \in Seq(RegionRecords), \A i \in DOMAIN regs : Good(regs[i]),
         NEW j \in DOMAIN regs, NEW r, Good(r), regions' = [regs EXCEPT ![j] = r]
  PROVE  RInv'
  <1>1. r \in RegionRecords
    BY DEF Good
  <1>2. regions' \in Seq(RegionRecords) /\ DOMAIN regions' = DOMAIN regs
    BY <1>1
  <1>3. \A i \in DOMAIN regions' : Good(regions'[i])
    BY <1>2
  <1> QED
    BY <1>2, <1>3 DEF RInv, BufferFitsPlacement, Good, Charge

LEMMA SameGood ==
  ASSUME NEW regs \in Seq(RegionRecords), \A i \in DOMAIN regs : Good(regs[i]), regions' = regs
  PROVE  RInv'
  BY DEF RInv, BufferFitsPlacement, Good, Charge
-----------------------------------------------------------------------------
LEMMA StepRegister ==
  ASSUME NEW size \in Sizes, NEW p \in Placements, RInv, Register(size, p)
  PROVE  RInv'
  <1>1. PICK q \in Placements : \E b \in {NoBuf, Bytes(size, q)} :
          regions' = Append(regions, Region(size, q, b))
    <2>1. regions' = Append(regions, Region(size, p, Bytes(size, p)))
          \/ regions' = Append(regions, Region(size, p, NoBuf))
          \/ regions' = Append(regions, Region(size, "SSD_Q1", NoBuf))
      BY DEF Register
    <2> QED
      BY <2>1 DEF Placements
  <1>b. PICK b \in {NoBuf, Bytes(size, q)} : regions' = Append(regions, Region(size, q, b))
    BY <1>1
  <1> DEFINE r == Region(size, q, b)
  <1>2. Good(r) /\ r \in RegionRecords
    BY RegionGood DEF Good
  <1>3. regions \in Seq(RegionRecords) /\ \A i \in DOMAIN regions : Good(regions[i])
    BY RInvIsGood
  <1>4a. regions' = Append(regions, r)
    BY <1>b
  <1> HIDE DEF r
  <1>4. regions' \in Seq(RegionRecords)
        /\ \A i \in DOMAIN regions' : regions'[i] = IF i \in DOMAIN regions THEN regions[i] ELSE r
    BY <1>4a, <1>2, <1>3
  <1>5. \A i \in DOMAIN regions' : Good(regions'[i])
    BY <1>2, <1>3, <1>4
  <1> QED
    BY <1>4, <1>5 DEF RInv, BufferFitsPlacement, Good, Charge

LEMMA StepUpdateInRam ==
  ASSUME NEW i \in DOMAIN regions, NEW p \in Placements, RInv, UpdateInRam(i, p)
  PROVE  RInv'
  <1>1. regions \in Seq(RegionRecords) /\ \A j \in DOMAIN regions : Good(regions[j])
    BY RInvIsGood
  <1>2. Good(Resized(regions[i], p))
    <2>1. Bytes(regions[i].size, p) \in 0 .. Word - 1
      BY <1>1, BytesType DEF Good, RegionRecords
    <2> QED
      BY <1>1, <2>1 DEF Good, Resized, RegionRecords, Charge
  <1>3. regions' = [regions EXCEPT ![i] = Resized(regions[i], p)] \/ regions' = regions
    BY DEF UpdateInRam
  <1> QED
    BY <1>1, <1>2, <1>3, SetGood, SameGood

LEMMA StepUpdateToRam ==
  ASSUME NEW i \in DOMAIN regions, NEW p \in Placements, RInv, UpdateToRam(i, p)
  PROVE  RInv'
  <1>1. regions \in Seq(RegionRecords) /\ \A j \in DOMAIN regions : Good(regions[j])
    BY RInvIsGood
  <1>2. PICK regs \in {regions, RegionsNoCold} :
          \/ regions' = [regs EXCEPT ![i] = Region(@.size, p, Bytes(regions[i].size, p))]
          \/ regions' = [regs EXCEPT ![i].buf = NoBuf]
          \/ regions' = regs
    <2> DEFINE n == Bytes(regions[i].size, p)
               regs == IF Fits(used, n) THEN regions ELSE RegionsNoCold
    <2>1. \/ regions' = [regs EXCEPT ![i] = Region(@.size, p, n)]
          \/ regions' = [regs EXCEPT ![i].buf = NoBuf]
          \/ regions' = regs
      BY DEF UpdateToRam
    <2>2. regs \in {regions, RegionsNoCold}
      OBVIOUS
    <2> QED
      BY <2>1, <2>2
  <1>3. regs \in Seq(RegionRecords) /\ DOMAIN regs = DOMAIN regions
        /\ \A j \in DOMAIN regs : Good(regs[j])
    BY <1>1, NoColdGood
  <1>4. regs[i] = regions[i]
    BY NoColdGood DEF UpdateToRam
  <1>5. Good(Region(regs[i].size, p, Bytes(regions[i].size, p)))
    BY <1>3, <1>4, RegionGood DEF Good, RegionRecords
  <1>6. Good([regs[i] EXCEPT !.buf = NoBuf])
    BY <1>3 DEF Good, RegionRecords
  <1>7. \/ regions' = [regs EXCEPT ![i] = Region(regs[i].size, p, Bytes(regions[i].size, p))]
        \/ regions' = [regs EXCEPT ![i] = [regs[i] EXCEPT !.buf = NoBuf]]
        \/ regions' = regs
    BY <1>2, <1>3
  <1> QED
    BY <1>3, <1>5, <1>6, <1>7, SetGood, SameGood

LEMMA StepEvict ==
  ASSUME NEW i \in DOMAIN regions, RInv, Evict(i)
  PROVE  RInv'
  <1>1. regions \in Seq(RegionRecords) /\ \A j \in DOMAIN regions : Good(regions[j])
    BY RInvIsGood
  <1>2. regions' = [regions EXCEPT ![i] = Evicted(regions[i])]
    BY DEF Evict
  <1> QED
    BY <1>1, <1>2, EvictedGood, SetGood

LEMMA StepGetWeight ==
  ASSUME NEW i \in DOMAIN regions, RInv, GetWeight(i)
  PROVE  RInv'
  <1>1. regions \in Seq(RegionRecords) /\ \A j \in DOMAIN regions : Good(regions[j])
    BY RInvIsGood
  <1> DEFINE loaded == [regions[i] EXCEPT !.buf = Charge(regions[i]), !.loaded = TRUE]
             empty == [regions[i] EXCEPT !.buf = NoBuf]
  <1>2. regions' = [regions EXCEPT ![i] = loaded] \/ regions' = [regions EXCEPT ![i] = empty]
    BY <1>1 DEF GetWeight
  <1>3. Good(loaded)
    <2>1. Charge(regions[i]) \in 0 .. Word - 1
      BY <1>1, BytesType DEF Good, RegionRecords, Charge
    <2> QED
      BY <1>1, <2>1 DEF Good, RegionRecords, Charge
  <1>4. Good(empty)
    BY <1>1 DEF Good, RegionRecords
  <1> QED
    BY <1>1, <1>2, <1>3, <1>4, SetGood

LEMMA StepReclaim ==
  ASSUME RInv, EvictCold \/ \E b \in Budgets : SetBudget(b)
  PROVE  RInv'
  <1>1. regions \in Seq(RegionRecords) /\ \A j \in DOMAIN regions : Good(regions[j])
    BY RInvIsGood
  <1>2. regions' = regions \/ regions' = RegionsNoCold
    BY DEF EvictCold, SetBudget
  <1> QED
    BY <1>1, <1>2, NoColdGood, SameGood

LEMMA NextRInv == RInv /\ [AwmNext]_awmVars => RInv'
  <1> SUFFICES ASSUME RInv, [AwmNext]_awmVars PROVE RInv'
    OBVIOUS
  <1>1. ASSUME NEW i \in DOMAIN regions,
               \/ \E p \in Placements : UpdateInRam(i, p) \/ UpdateToRam(i, p)
               \/ Evict(i)
               \/ GetWeight(i)
        PROVE  RInv'
    BY <1>1, StepUpdateInRam, StepUpdateToRam, StepEvict, StepGetWeight
  <1>2. CASE \E size \in Sizes, p \in Placements : Register(size, p)
    BY <1>2, StepRegister
  <1>3. CASE EvictCold \/ \E b \in Budgets : SetBudget(b)
    BY <1>3, StepReclaim
  <1>4. CASE UNCHANGED awmVars
    BY <1>4 DEF awmVars, RInv, BufferFitsPlacement, Charge
  <1> QED
    BY <1>1, <1>2, <1>3, <1>4 DEF AwmNext

LEMMA SpecRInv == AwmSpec => []RInv
  <1>1. AwmInit => RInv
    BY DEF AwmInit, RInv, BufferFitsPlacement
  <1> QED
    BY <1>1, NextRInv, PTL DEF AwmSpec
-----------------------------------------------------------------------------
\* Through any moves between placements, and whatever allocation fails, a
\* region's buffer has the size ct_awm_placement_bytes gives for it.
THEOREM BuffersFit == AwmSpec => []BufferFitsPlacement
  <1>1. RInv => BufferFitsPlacement
    BY DEF RInv
  <1> QED  BY <1>1, SpecRInv, PTL

\* ct_awm_evict_cold, and what makes room through it, leaves the hot and the
\* semi-hot regions alone.
THEOREM HotIsSpared == AwmSpec => ReclaimSparesHot
  <1> DEFINE A == \A i \in DOMAIN regions :
                    regions[i].placement \in HotPlacements /\ regions'[i] # regions[i] =>
                      /\ budget' = budget
                      /\ \A j \in DOMAIN regions \ {i} : regions'[j] = regions[j]
  <1>1. RInv /\ [AwmNext]_awmVars => [A]_awmVars
    <2> SUFFICES ASSUME RInv, AwmNext,
                        NEW i \in DOMAIN regions,
                        regions[i].placement \in HotPlacements, regions'[i] # regions[i]
                 PROVE  /\ budget' = budget
                        /\ \A j \in DOMAIN regions \ {i} : regions'[j] = regions[j]
      OBVIOUS
    <2>1. regions \in Seq(RegionRecords)
      BY DEF RInv
    <2>2. RegionsNoCold[i] = regions[i]
      BY NoColdGood
    <2>3. ASSUME NEW size \in Sizes, NEW p \in Placements, Register(size, p) PROVE FALSE
      <3>1. PICK r : regions' = Append(regions, r)
        BY <2>3 DEF Register
      <3> QED  BY <3>1, <2>1
    <2>4. ASSUME NEW k \in DOMAIN regions,
                 (\E p \in Placements : UpdateInRam(k, p)) \/ Evict(k) \/ GetWeight(k)
          PROVE  /\ budget' = budget
                 /\ \A j \in DOMAIN regions \ {i} : regions'[j] = regions[j]
      <3>1. budget' = budget /\ \A j \in DOMAIN regions \ {k} : regions'[j] = regions[j]
        BY <2>1, <2>4 DEF UpdateInRam, Evict, GetWeight
      <3> QED  BY <3>1
    <2>5. ASSUME NEW k \in DOMAIN regions, NEW p \in Placements, UpdateToRam(k, p) PROVE FALSE
      <3>1. k # i
        BY <2>5 DEF UpdateToRam, HotPlacements
      <3> DEFINE regs == IF Fits(used, Bytes(regions[k].size, p)) THEN regions ELSE RegionsNoCold
      <3>2. regs[i] = regions[i] /\ i \in DOMAIN regs
        BY <2>2, NoColdGood
      <3>3. \/ regions' = [regs EXCEPT ![k] = Region(@.size, p, Bytes(regions[k].size, p))]
            \/ regions' = [regs EXCEPT ![k].buf = NoBuf]
            \/ regions' = regs
        BY <2>5 DEF UpdateToRam
      <3> HIDE DEF regs
      <3> QED  BY <3>1, <3>2, <3>3
    <2>6. ~ EvictCold /\ \A b \in Budgets : ~ SetBudget(b)
      BY <2>2 DEF EvictCold, SetBudget
    <2> QED
      BY <2>3, <2>4, <2>5, <2>6 DEF AwmNext
  <1> QED
    BY <1>1, SpecRInv, PTL DEF AwmSpec, ReclaimSparesHot

-----------------------------------------------------------------------------
(* The charge.                                                             *)

OwnedBytes(regs) == [i \in DOMAIN regs |-> Owned(regs[i])]

\* What a sum over the regions is a sum of.
LEMMA HeldIsSum ==
  ASSUME NEW regs
  PROVE  Held(regs) = SumFunctionOnSet(OwnedBytes(regs), DOMAIN regs)
  BY DEF Held, SumFunction, OwnedBytes

LEMMA OwnedType ==
  ASSUME NEW regs \in Seq(RegionRecords)
  PROVE  /\ IsFiniteSet(DOMAIN regs)
         /\ \A i \in DOMAIN regs : OwnedBytes(regs)[i] = Owned(regs[i]) /\ Owned(regs[i]) \in Nat
  <1>1. DOMAIN regs = 1 .. Len(regs) /\ Len(regs) \in Nat
    OBVIOUS
  <1>2. IsFiniteSet(DOMAIN regs)
    BY <1>1, FS_Interval
  <1>3. ASSUME NEW r \in RegionRecords PROVE Owned(r) \in Nat
    BY AwmAssumption DEF Owned, RegionRecords, NoBuf
  <1> QED  BY <1>1, <1>2, <1>3 DEF OwnedBytes

LEMMA HeldType ==
  ASSUME NEW regs \in Seq(RegionRecords)
  PROVE  Held(regs) \in Nat
  <1>1. IsFiniteSet(DOMAIN regs) /\ \A i \in DOMAIN regs : OwnedBytes(regs)[i] \in Nat
    BY OwnedType
  <1> QED  BY <1>1, HeldIsSum, SumNat

\* Another region in the place of one, and one more.
LEMMA HeldChanged ==
  ASSUME NEW regs \in Seq(RegionRecords), NEW i \in DOMAIN regs, NEW r \in RegionRecords,
         NEW regs2, regs2 = [regs EXCEPT ![i] = r]
  PROVE  Held(regs2) = (Held(regs) - Owned(regs[i])) + Owned(r)
  <1>1. regs2 \in Seq(RegionRecords) /\ DOMAIN regs2 = DOMAIN regs /\ regs2[i] = r
        /\ \A j \in DOMAIN regs : j # i => regs2[j] = regs[j]
    OBVIOUS
  <1>2. PICK S : S = DOMAIN regs
    OBVIOUS
  <1>3. PICK f : f = OwnedBytes(regs)
    OBVIOUS
  <1>4. PICK g : g = OwnedBytes(regs2)
    OBVIOUS
  <1>5. IsFiniteSet(S) /\ i \in S /\ \A j \in S : f[j] = Owned(regs[j]) /\ f[j] \in Int
    BY <1>2, <1>3, OwnedType
  <1>6. \A j \in S : g[j] = Owned(regs2[j]) /\ g[j] \in Int
    <2>1. S = DOMAIN regs2
      BY <1>1, <1>2
    <2>2. \A j \in DOMAIN regs2 : g[j] = Owned(regs2[j]) /\ g[j] \in Nat
      BY <1>1, <1>4, OwnedType
    <2> QED  BY <2>1, <2>2
  <1>7. \A j \in S : f[j] \in Int /\ (j # i => g[j] = f[j])
    BY <1>1, <1>2, <1>5, <1>6
  <1>8. SumFunctionOnSet(g, S) = (SumFunctionOnSet(f, S) - f[i]) + g[i]
    <2>1. IsFiniteSet(S) /\ i \in S /\ g[i] \in Int
      BY <1>5, <1>6
    <2> QED  BY <1>7, <2>1, SumChanged
  <1>9. f[i] = Owned(regs[i]) /\ g[i] = Owned(r)
    BY <1>1, <1>5, <1>6
  <1>10. Held(regs) = SumFunctionOnSet(f, S) /\ Held(regs2) = SumFunctionOnSet(g, S)
    BY <1>1, <1>2, <1>3, <1>4, HeldIsSum, Zenon
  <1> QED  BY <1>8, <1>9, <1>10, Zenon

\* Each region owns a number of bytes; and a list with one region more.
AllOwned(regs) ==
  /\ IsFiniteSet(DOMAIN regs)
  /\ \A j \in DOMAIN regs : OwnedBytes(regs)[j] = Owned(regs[j]) /\ Owned(regs[j]) \in Nat
OneMore(regs2, regs, n) ==
  /\ DOMAIN regs2 = DOMAIN regs \cup {n} /\ n \notin DOMAIN regs
  /\ \A j \in DOMAIN regs : regs2[j] = regs[j]

LEMMA HeldOfMore ==
  ASSUME NEW regs, NEW regs2, NEW n, AllOwned(regs), AllOwned(regs2), OneMore(regs2, regs, n)
  PROVE  Held(regs2) = Held(regs) + Owned(regs2[n])
  <1>1. PICK S, T : S = DOMAIN regs /\ T = DOMAIN regs2
    OBVIOUS
  <1>2. PICK f : f = OwnedBytes(regs)
    OBVIOUS
  <1>3. PICK g : g = OwnedBytes(regs2)
    OBVIOUS
  <1>4. T = S \cup {n} /\ n \notin S /\ n \in T /\ IsFiniteSet(S)
    BY <1>1 DEF OneMore, AllOwned
  <1>5. g[n] = Owned(regs2[n]) /\ g[n] \in Int
    BY <1>1, <1>3, <1>4 DEF AllOwned
  <1>6. \A j \in S : f[j] \in Int /\ g[j] = f[j]
    <2> TAKE j \in S
    <2>1. j \in T /\ regs2[j] = regs[j]
      BY <1>1, <1>4 DEF OneMore
    <2> QED  BY <1>1, <1>2, <1>3, <2>1 DEF AllOwned
  <1>7. SumFunctionOnSet(g, T) = SumFunctionOnSet(f, S) + g[n]
    BY <1>4, <1>5, <1>6, SumMore
  <1>8. Held(regs) = SumFunctionOnSet(f, S) /\ Held(regs2) = SumFunctionOnSet(g, T)
    BY <1>1, <1>2, <1>3, HeldIsSum, Zenon
  <1> QED  BY <1>5, <1>7, <1>8, Zenon

LEMMA HeldAppend ==
  ASSUME NEW regs \in Seq(RegionRecords), NEW r \in RegionRecords,
         NEW regs2, regs2 = Append(regs, r)
  PROVE  Held(regs2) = Held(regs) + Owned(r)
  <1>1. PICK n \in Nat : n = Len(regs) + 1
    OBVIOUS
  <1>2. regs2 \in Seq(RegionRecords) /\ regs2[n] = r
    BY <1>1
  <1>3. OneMore(regs2, regs, n)
    BY <1>1 DEF OneMore
  <1>4. AllOwned(regs)
    BY OwnedType, Zenon DEF AllOwned
  <1>5. AllOwned(regs2)
    BY <1>2, OwnedType, Zenon DEF AllOwned
  <1>6. Held(regs2) = Held(regs) + Owned(regs2[n])
    BY <1>3, <1>4, <1>5, HeldOfMore, Zenon
  <1> QED  BY <1>2, <1>6, Zenon

\* No region owns more than all do.
LEMMA OwnedBound ==
  ASSUME NEW regs \in Seq(RegionRecords), NEW i \in DOMAIN regs
  PROVE  Owned(regs[i]) \in 0 .. Held(regs)
  <1>1. PICK r : r = [regs[i] EXCEPT !.buf = NoBuf]
    OBVIOUS
  <1>2. r \in RegionRecords /\ Owned(r) = 0
    <2>1. regs[i] \in RegionRecords
      OBVIOUS
    <2> QED  BY <1>1, <2>1 DEF RegionRecords, Owned
  <1>3. PICK regs2 : regs2 = [regs EXCEPT ![i] = r]
    OBVIOUS
  <1>4. Held(regs2) = (Held(regs) - Owned(regs[i])) + Owned(r)
    BY <1>2, <1>3, HeldChanged
  <1>5. Held(regs2) \in Nat /\ Held(regs) \in Nat
    <2>1. regs2 \in Seq(RegionRecords)
      BY <1>2, <1>3
    <2> QED  BY <2>1, HeldType
  <1>6. Owned(regs[i]) \in Nat
    BY OwnedType
  <1> QED  BY <1>2, <1>4, <1>5, <1>6

LEMMA WordArithmetic ==
  /\ \A x \in Int, y \in Int : Plus(x, y) \in 0 .. Word - 1 /\ Minus(x, y) \in 0 .. Word - 1
  /\ \A x \in Nat, y \in Nat : x + y < Word => Plus(x, y) = x + y
  /\ \A x \in Nat, y \in Nat : y <= x /\ x < Word => Minus(x, y) = x - y
  <1>1. Word \in Nat \ {0}
    BY AwmAssumption
  <1>2. \A x \in Int : x % Word \in 0 .. Word - 1
    BY <1>1
  <1>3. \A x \in Nat : x < Word => x % Word = x
    BY <1>1
  <1>4. \A x \in Nat, y \in Nat : y <= x => x - y \in Nat /\ x - y <= x
    OBVIOUS
  <1> QED  BY <1>1, <1>2, <1>3, <1>4 DEF Plus, Minus

\* A region that is loaded has a buffer and is charged for it.
Settled(r) == (r.loaded <=> r.buf # NoBuf) /\ (r.placement \in Ram => r.loaded)

\* What is charged is owned or lost.
Charged(regs, u, l) == u = l + Held(regs) /\ \A i \in DOMAIN regs : Settled(regs[i])

CInv ==
  /\ Len(regions) <= MaxRegions
  /\ used \in 0 .. Word - 1
  /\ budget \in Budgets
  /\ lost \in Nat
  /\ denied \in BOOLEAN
  /\ denied => lost = 0
  /\ ~ denied => Charged(regions, used, lost)

AwmIInv == RInv /\ CInv

\* Changing one region.
LEMMA ChangedCharged ==
  ASSUME NEW regs \in Seq(RegionRecords), NEW u \in Nat, NEW l \in Nat, Charged(regs, u, l),
         NEW i \in DOMAIN regs, NEW r \in RegionRecords, Settled(r),
         NEW regs2, regs2 = [regs EXCEPT ![i] = r],
         NEW lose \in Nat, NEW u2 \in Int, u2 = ((u - Owned(regs[i])) + lose) + Owned(r)
  PROVE  Charged(regs2, u2, l + lose)
  <1>1. Held(regs2) = (Held(regs) - Owned(regs[i])) + Owned(r)
    BY HeldChanged
  <1>2. Held(regs) \in Nat /\ Owned(regs[i]) \in Nat /\ Owned(r) \in Nat
    <2>1. Owned(r) \in Nat
      BY AwmAssumption DEF Owned, RegionRecords, NoBuf
    <2> QED  BY <2>1, HeldType, OwnedType
  <1>3. u = l + Held(regs) /\ \A j \in DOMAIN regs : Settled(regs[j])
    BY DEF Charged
  <1>4. u2 = (l + lose) + Held(regs2)
    BY <1>1, <1>2, <1>3
  <1>5. \A j \in DOMAIN regs2 : Settled(regs2[j])
    <2>1. DOMAIN regs2 = DOMAIN regs /\ \A j \in DOMAIN regs : regs2[j] = IF j = i THEN r ELSE regs[j]
      OBVIOUS
    <2> QED  BY <1>3, <2>1
  <1> QED  BY <1>4, <1>5 DEF Charged

\* ct_awm_evict_cold gives back exactly what the cold regions were charged.
LEMMA NoColdCharged ==
  ASSUME RInv, used \in 0 .. Word - 1, lost \in Nat, Charged(regions, used, lost)
  PROVE  Charged(RegionsNoCold, UsedNoCold, lost) /\ UsedNoCold \in 0 .. Word - 1
  <1>0. regions \in Seq(RegionRecords) /\ \A i \in DOMAIN regions : Good(regions[i]) /\ Settled(regions[i])
    BY RInvIsGood DEF Charged
  <1>1. PICK S : S = DOMAIN regions
    OBVIOUS
  <1>2. PICK f : f = OwnedBytes(regions)
    OBVIOUS
  <1>3. PICK g : g = OwnedBytes(RegionsNoCold)
    OBVIOUS
  <1>4. PICK c : c = [i \in DOMAIN regions |-> Charge(regions[i])]
    OBVIOUS
  <1>5. PICK T : T = ColdRegions
    OBVIOUS
  <1>6. IsFiniteSet(S) /\ T \in SUBSET S /\ IsFiniteSet(T)
    BY <1>0, <1>1, <1>5, OwnedType, FS_Subset DEF ColdRegions
  <1>7. RegionsNoCold \in Seq(RegionRecords) /\ DOMAIN RegionsNoCold = S
    BY <1>1, NoColdGood
  <1>8. \A i \in S : f[i] = Owned(regions[i]) /\ f[i] \in Nat
    BY <1>0, <1>1, <1>2, OwnedType
  <1>9. \A i \in S : g[i] = IF i \in T THEN 0 ELSE f[i]
    <2>1. \A i \in S : g[i] = Owned(RegionsNoCold[i])
      BY <1>3, <1>7 DEF OwnedBytes
    <2>2. \A i \in S : RegionsNoCold[i] = IF i \in T THEN Evicted(regions[i]) ELSE regions[i]
      BY <1>1, <1>5 DEF RegionsNoCold
    <2>3. \A i \in S : Owned(Evicted(regions[i])) = 0
      <3>1. \A i \in S : regions[i] \in RegionRecords
        BY <1>0, <1>1
      <3> QED  BY <3>1 DEF Owned, Evicted, RegionRecords
    <2> QED  BY <1>8, <2>1, <2>2, <2>3
  <1>10. \A i \in T : c[i] = f[i]
    <2> TAKE i \in T
    <2>1. i \in S /\ regions[i].placement \in ColdPlacements
      BY <1>5, <1>6 DEF ColdRegions
    <2>2. regions[i].buf = Charge(regions[i]) /\ regions[i].buf # NoBuf
      BY <1>0, <1>1, <2>1 DEF Good, Settled, ColdPlacements, Ram
    <2> QED  BY <1>1, <1>4, <1>8, <2>1, <2>2 DEF Owned
  <1>11. SumFunctionOnSet(g, S) = SumFunctionOnSet(f, S) - SumFunctionOnSet(f, T)
    <2>1. \A i \in S : f[i] \in Int /\ g[i] = IF i \in T THEN 0 ELSE f[i]
      BY <1>8, <1>9
    <2> QED  BY <1>6, <2>1, SumCleared
  <1>12. SumFunctionOnSet(c, T) = SumFunctionOnSet(f, T)
    <2>1. \A i \in T : f[i] \in Int /\ c[i] = f[i]
      BY <1>6, <1>8, <1>10
    <2> QED  BY <1>6, <2>1, SumSame
  <1>13. Held(regions) = SumFunctionOnSet(f, S) /\ Held(RegionsNoCold) = SumFunctionOnSet(g, S)
    BY <1>1, <1>2, <1>3, <1>7, HeldIsSum, Zenon
  <1>14. PICK cold \in Nat : cold = SumFunctionOnSet(f, T)
    <2>1. \A i \in T : f[i] \in Nat
      BY <1>6, <1>8
    <2> QED  BY <1>6, <2>1, SumNat
  <1>15. Held(RegionsNoCold) = Held(regions) - cold
    BY <1>11, <1>13, <1>14, Zenon
  <1>16. Held(RegionsNoCold) \in Nat /\ Held(regions) \in Nat
    BY <1>0, <1>7, HeldType
  <1>17. UsedNoCold = Minus(used, cold)
    BY <1>4, <1>5, <1>12, <1>14, Zenon DEF UsedNoCold
  <1>18. used = lost + Held(regions)
    BY DEF Charged
  <1>19. Word \in Nat
    BY AwmAssumption
  <1>20. cold <= used /\ used < Word /\ used \in Nat
    BY <1>15, <1>16, <1>18, <1>19
  <1>21. UsedNoCold = used - cold
    BY <1>17, <1>20, WordArithmetic
  <1>22. UsedNoCold = lost + Held(RegionsNoCold) /\ UsedNoCold \in 0 .. Word - 1
    BY <1>15, <1>16, <1>18, <1>19, <1>20, <1>21
  <1>23. \A i \in DOMAIN RegionsNoCold : Settled(RegionsNoCold[i])
    <2>1. \A i \in DOMAIN regions : regions[i] \in RegionRecords
      BY <1>0
    <2>2. \A i \in DOMAIN regions : Settled(Evicted(regions[i]))
      BY <2>1 DEF Settled, Evicted, RegionRecords, Ram
    <2> QED  BY <1>0, <1>1, <1>7, <2>2 DEF RegionsNoCold
  <1> QED  BY <1>22, <1>23 DEF Charged

\* The state a step leaves, part by part.
LEMMA CInvNext ==
  ASSUME RInv', Len(regions') <= MaxRegions, used' \in 0 .. Word - 1, budget' \in Budgets,
         lost' \in Nat, denied' \in BOOLEAN, denied' => lost' = 0,
         ~ denied' => Charged(regions', used', lost')
  PROVE  AwmIInv'
  BY DEF AwmIInv, CInv, Charged, Settled, Held, Owned

LEMMA InSpace ==
  ASSUME InAddressSpace', ~ denied'
  PROVE  lost' + Held(regions') < Word
  BY DEF InAddressSpace, Held, Owned

\* What UpdateToRam starts from, after it has made room or not.
LEMMA AfterRoom ==
  ASSUME AwmIInv, NEW regs, NEW u,
         (regs = regions /\ u = used) \/ (regs = RegionsNoCold /\ u = UsedNoCold)
  PROVE  /\ regs \in Seq(RegionRecords) /\ Len(regs) = Len(regions) /\ DOMAIN regs = DOMAIN regions
         /\ u \in 0 .. Word - 1
         /\ ~ denied => Charged(regs, u, lost)
  <1>1. CASE regs = regions /\ u = used
    BY <1>1 DEF AwmIInv, CInv, RInv
  <1>2. CASE regs = RegionsNoCold /\ u = UsedNoCold
    <2>1. regs \in Seq(RegionRecords) /\ DOMAIN regs = DOMAIN regions /\ regions \in Seq(RegionRecords)
      BY <1>2, NoColdGood DEF AwmIInv, RInv
    <2>2. Len(regs) = Len(regions)
      BY <2>1
    <2>3. UsedNoCold \in 0 .. Word - 1
      <3>1. PICK T \in SUBSET DOMAIN regions : T = ColdRegions
        BY DEF ColdRegions
      <3>2. PICK c : c = [i \in DOMAIN regions |-> Charge(regions[i])]
        OBVIOUS
      <3>3. IsFiniteSet(T) /\ \A i \in T : c[i] \in Int
        <4>1. IsFiniteSet(T)
          BY <2>1, OwnedType, FS_Subset
        <4>2. \A i \in DOMAIN regions : regions[i].size \in Sizes /\ regions[i].placement \in Placements
          <5>1. \A i \in DOMAIN regions : regions[i] \in RegionRecords
            BY <2>1
          <5> QED  BY <5>1 DEF RegionRecords
        <4>3. \A i \in DOMAIN regions : Charge(regions[i]) \in Int
          BY <4>2, BytesType DEF Charge
        <4> QED  BY <3>2, <4>1, <4>3
      <3>4. SumFunctionOnSet(c, T) \in Int
        BY <3>3, SumPicked
      <3>5. UsedNoCold = Minus(used, SumFunctionOnSet(c, T))
        BY <3>1, <3>2, Zenon DEF UsedNoCold
      <3>6. used \in Int
        BY DEF AwmIInv, CInv
      <3> QED  BY <3>4, <3>5, <3>6, WordArithmetic
    <2>4. ~ denied => Charged(regs, u, lost)
      BY <1>2, NoColdCharged DEF AwmIInv, CInv
    <2> QED  BY <1>2, <2>1, <2>2, <2>3, <2>4
  <1> QED  BY <1>1, <1>2

\* ct_awm_evict_cold and ct_awm_set_budget.
LEMMA StepReclaimCharged ==
  ASSUME AwmIInv, RInv', EvictCold \/ \E b \in Budgets : SetBudget(b)
  PROVE  AwmIInv'
  <1>1. /\ (regions' = regions /\ used' = used) \/ (regions' = RegionsNoCold /\ used' = UsedNoCold)
        /\ budget' \in Budgets /\ lost' = lost /\ denied' = denied
    BY DEF EvictCold, SetBudget, AwmIInv, CInv
  <1>2. /\ Len(regions') = Len(regions) /\ used' \in 0 .. Word - 1
        /\ ~ denied => Charged(regions', used', lost)
    BY <1>1, AfterRoom
  <1>3. Len(regions) <= MaxRegions /\ lost \in Nat /\ denied \in BOOLEAN /\ (denied => lost = 0)
    BY DEF AwmIInv, CInv
  <1> QED  BY <1>1, <1>2, <1>3, CInvNext

LEMMA StepEvictCharged ==
  ASSUME AwmIInv, RInv', NEW i \in DOMAIN regions, Evict(i)
  PROVE  AwmIInv'
  <1>1. /\ regions \in Seq(RegionRecords) /\ Good(regions[i]) /\ used \in 0 .. Word - 1
        /\ Len(regions) <= MaxRegions /\ budget \in Budgets /\ lost \in Nat /\ denied \in BOOLEAN
        /\ denied => lost = 0
        /\ ~ denied => Charged(regions, used, lost)
    BY RInvIsGood DEF AwmIInv, CInv
  <1>2. PICK r : r = Evicted(regions[i])
    OBVIOUS
  <1>3. r \in RegionRecords /\ Owned(r) = 0 /\ Settled(r)
    <2>1. regions[i] \in RegionRecords
      BY <1>1
    <2> QED  BY <1>2, <2>1 DEF Evicted, RegionRecords, Placements, Owned, Settled, Ram
  <1>4. /\ regions' = [regions EXCEPT ![i] = r] /\ used' = Minus(used, Charge(regions[i]))
        /\ budget' = budget /\ lost' = lost /\ denied' = denied
    BY <1>2 DEF Evict
  <1>5. Len(regions') <= MaxRegions
    BY <1>1, <1>4
  <1>6. used' \in 0 .. Word - 1
    <2>1. Charge(regions[i]) \in Int
      BY <1>1, BytesType DEF Good, RegionRecords, Charge
    <2> QED  BY <1>1, <1>4, <2>1, WordArithmetic
  <1>7. ASSUME ~ denied PROVE Charged(regions', used', lost')
    <2>1. Settled(regions[i]) /\ used = lost + Held(regions)
      BY <1>1, <1>7 DEF Charged
    <2>2. Charge(regions[i]) = Owned(regions[i])
      BY <1>1, <2>1 DEF Evict, Settled, Good, Owned
    <2>3. Owned(regions[i]) \in 0 .. Held(regions) /\ Held(regions) \in Nat /\ Word \in Nat
      BY <1>1, OwnedBound, HeldType, AwmAssumption
    <2>4. Owned(regions[i]) <= used /\ used < Word /\ used \in Nat
      BY <1>1, <2>1, <2>3
    <2>5. used' = used - Owned(regions[i])
      BY <1>4, <2>2, <2>3, <2>4, WordArithmetic
    <2>6. used' = ((used - Owned(regions[i])) + 0) + Owned(r) /\ used' \in Int
      BY <1>3, <2>3, <2>4, <2>5
    <2>7. Charged(regions', used', lost + 0)
      <3>1. Charged(regions, used, lost) /\ regions \in Seq(RegionRecords) /\ lost \in Nat
        BY <1>1, <1>7
      <3>2. used \in Nat /\ r \in RegionRecords /\ Settled(r) /\ 0 \in Nat
        BY <1>3, <2>4
      <3>3. regions' = [regions EXCEPT ![i] = r]
        BY <1>4
      <3> QED  BY <2>6, <3>1, <3>2, <3>3, ChangedCharged
    <2>8. lost + 0 = lost'
      BY <1>1, <1>4
    <2> QED  BY <2>7, <2>8
  <1> QED  BY <1>1, <1>4, <1>5, <1>6, <1>7, CInvNext

\* realloc, or its failure.
LEMMA StepUpdateInRamCharged ==
  ASSUME AwmIInv, RInv', NEW i \in DOMAIN regions, NEW p \in Placements, UpdateInRam(i, p)
  PROVE  AwmIInv'
  <1>1. /\ regions \in Seq(RegionRecords) /\ Good(regions[i]) /\ used \in 0 .. Word - 1
        /\ Len(regions) <= MaxRegions /\ budget \in Budgets /\ lost \in Nat /\ denied \in BOOLEAN
        /\ denied => lost = 0
        /\ ~ denied => Charged(regions, used, lost)
    BY RInvIsGood DEF AwmIInv, CInv
  <1>2. PICK n \in 0 .. Word - 1 : n = Bytes(regions[i].size, p)
    <2>1. regions[i].size \in Sizes
      BY <1>1 DEF Good, RegionRecords
    <2> QED  BY <2>1, BytesType
  <1>3. PICK r : r = Resized(regions[i], p)
    OBVIOUS
  <1>4. r \in RegionRecords /\ Owned(r) = n /\ (Settled(regions[i]) => Settled(r))
    <2>1. regions[i] \in RegionRecords
      BY <1>1
    <2>2. r = [regions[i] EXCEPT !.placement = p, !.buf = n]
      BY <1>2, <1>3 DEF Resized
    <2>3. n # NoBuf
      BY <1>2, NoBufIsNoSize
    <2>4. Settled(regions[i]) => regions[i].loaded
      BY DEF Settled, UpdateInRam
    <2> QED  BY <2>1, <2>2, <2>3, <2>4 DEF RegionRecords, Owned, Settled
  <1>5. CASE regions' = regions /\ used' = used /\ denied' = TRUE /\ lost' = 0 /\ budget' = budget
    BY <1>1, <1>5, CInvNext
  <1>6. CASE /\ regions' = [regions EXCEPT ![i] = r]
             /\ used' = Plus(Minus(used, Charge(regions[i])), n)
             /\ budget' = budget /\ lost' = lost /\ denied' = denied /\ InAddressSpace'
    <2>1. Len(regions') <= MaxRegions
      BY <1>1, <1>6
    <2>2. used' \in 0 .. Word - 1
      <3>1. Charge(regions[i]) \in Int
        BY <1>1, BytesType DEF Good, RegionRecords, Charge
      <3>2. Minus(used, Charge(regions[i])) \in 0 .. Word - 1
        BY <1>1, <3>1, WordArithmetic
      <3> QED  BY <1>6, <3>2, WordArithmetic
    <2>3. ASSUME ~ denied PROVE Charged(regions', used', lost')
      <3>1. Settled(regions[i]) /\ used = lost + Held(regions)
        BY <1>1, <2>3 DEF Charged
      <3>2. Charge(regions[i]) = Owned(regions[i])
        BY <1>1, <3>1 DEF UpdateInRam, Settled, Good, Owned
      <3>3. Owned(regions[i]) \in 0 .. Held(regions) /\ Held(regions) \in Nat /\ Word \in Nat
        BY <1>1, OwnedBound, HeldType, AwmAssumption
      <3>4. Owned(regions[i]) <= used /\ used < Word /\ used \in Nat
        BY <1>1, <3>1, <3>3
      <3>5. Minus(used, Charge(regions[i])) = used - Owned(regions[i])
        BY <3>2, <3>3, <3>4, WordArithmetic
      <3>6. Held(regions') = (Held(regions) - Owned(regions[i])) + n
        <4>1. Held(regions') = (Held(regions) - Owned(regions[i])) + Owned(r)
          BY <1>1, <1>4, <1>6, HeldChanged
        <4> QED  BY <1>4, <4>1
      <3>7. lost + Held(regions') < Word
        BY <1>6, <2>3, InSpace
      <3>8. (used - Owned(regions[i])) + n < Word /\ used - Owned(regions[i]) \in Nat
        BY <1>1, <3>1, <3>3, <3>4, <3>6, <3>7
      <3>9. used' = (used - Owned(regions[i])) + n
        BY <1>6, <3>5, <3>8, WordArithmetic
      <3>10. used' = ((used - Owned(regions[i])) + 0) + Owned(r) /\ used' \in Int
        BY <1>4, <3>8, <3>9
      <3>11. Charged(regions', used', lost + 0)
        BY <1>1, <1>4, <1>6, <2>3, <3>1, <3>4, <3>10, ChangedCharged
      <3>12. lost + 0 = lost'
        BY <1>1, <1>6
      <3> QED  BY <3>11, <3>12
    <2> QED  BY <1>1, <1>6, <2>1, <2>2, <2>3, CInvNext
  <1> QED  BY <1>2, <1>3, <1>5, <1>6 DEF UpdateInRam

\* A buffer of n bytes for region i of regs, whose pointer is overwritten.
LEMMA LoadCharged ==
  ASSUME NEW regs \in Seq(RegionRecords), NEW u \in 0 .. Word - 1, NEW l \in Nat,
         Charged(regs, u, l), NEW i \in DOMAIN regs,
         NEW r \in RegionRecords, Settled(r), NEW n \in Nat, Owned(r) = n,
         NEW regs2, regs2 = [regs EXCEPT ![i] = r], NEW l2, l2 = l + Owned(regs[i]),
         l2 + Held(regs2) < Word
  PROVE  l2 \in Nat /\ Charged(regs2, Plus(u, n), l2)
  <1>1. Owned(regs[i]) \in Nat /\ Held(regs) \in Nat /\ Word \in Nat /\ u = l + Held(regs)
    BY OwnedType, HeldType, AwmAssumption DEF Charged
  <1>2. Held(regs2) = (Held(regs) - Owned(regs[i])) + n
    <2>1. Held(regs2) = (Held(regs) - Owned(regs[i])) + Owned(r)
      BY HeldChanged
    <2> QED  BY <2>1
  <1>3. u + n < Word
    BY <1>1, <1>2
  <1>4. Plus(u, n) = u + n
    BY <1>1, <1>3, WordArithmetic
  <1>5. Plus(u, n) = ((u - Owned(regs[i])) + Owned(regs[i])) + Owned(r) /\ Plus(u, n) \in Int
    BY <1>1, <1>4
  <1>6. u \in Nat
    BY <1>1
  <1>7. Charged(regs2, Plus(u, n), l + Owned(regs[i]))
    BY <1>1, <1>5, <1>6, ChangedCharged
  <1> QED  BY <1>1, <1>7

\* ct_awm_get_weight.
LEMMA StepGetWeightCharged ==
  ASSUME AwmIInv, RInv', NEW i \in DOMAIN regions, GetWeight(i)
  PROVE  AwmIInv'
  <1>1. /\ regions \in Seq(RegionRecords) /\ Good(regions[i]) /\ used \in 0 .. Word - 1
        /\ Len(regions) <= MaxRegions /\ budget \in Budgets /\ lost \in Nat /\ denied \in BOOLEAN
        /\ denied => lost = 0
        /\ ~ denied => Charged(regions, used, lost)
    BY RInvIsGood DEF AwmIInv, CInv
  <1>2. PICK n \in 0 .. Word - 1 : n = Charge(regions[i])
    <2>1. regions[i].size \in Sizes /\ regions[i].placement \in Placements
      BY <1>1 DEF Good, RegionRecords
    <2> QED  BY <2>1, BytesType DEF Charge
  <1>n. n \in Nat
    BY <1>2, AwmAssumption
  <1>3. PICK r : r = [regions[i] EXCEPT !.buf = n, !.loaded = TRUE]
    OBVIOUS
  <1>4. r \in RegionRecords /\ Owned(r) = n /\ Settled(r)
    <2>1. regions[i] \in RegionRecords
      BY <1>1
    <2>2. n # NoBuf
      BY <1>2, NoBufIsNoSize
    <2> QED  BY <1>2, <1>3, <2>1, <2>2 DEF RegionRecords, Owned, Settled
  <1>5. CASE /\ regions' = [regions EXCEPT ![i] = r] /\ used' = Plus(used, n)
             /\ budget' = budget /\ denied' = denied /\ InAddressSpace'
             /\ lost' = IF denied THEN 0 ELSE lost + Owned(regions[i])
    <2>1. Len(regions') <= MaxRegions
      BY <1>1, <1>5
    <2>2. used' \in 0 .. Word - 1
      BY <1>1, <1>5, WordArithmetic
    <2>3. CASE denied
      BY <1>1, <1>5, <2>1, <2>2, <2>3, CInvNext
    <2>4. CASE ~ denied
      <3>1. lost' = lost + Owned(regions[i]) /\ lost' + Held(regions') < Word
        BY <1>5, <2>4, InSpace
      <3>2. lost' \in Nat /\ Charged(regions', Plus(used, n), lost')
        BY <1>1, <1>n, <1>4, <1>5, <2>4, <3>1, LoadCharged
      <3> QED  BY <1>1, <1>5, <2>1, <2>2, <2>4, <3>2, CInvNext
    <2> QED  BY <2>3, <2>4
  <1>6. CASE Len(regions') = Len(regions) /\ used' = used /\ denied' = TRUE /\ lost' = 0 /\ budget' = budget
    BY <1>1, <1>6, CInvNext
  <1>7. \/ /\ regions' = [regions EXCEPT ![i] = r] /\ used' = Plus(used, n)
           /\ budget' = budget /\ denied' = denied /\ InAddressSpace'
           /\ lost' = IF denied THEN 0 ELSE lost + Owned(regions[i])
        \/ Len(regions') = Len(regions) /\ used' = used /\ denied' = TRUE /\ lost' = 0 /\ budget' = budget
    <2>1. \/ /\ regions' = [regions EXCEPT ![i].buf = n, ![i].loaded = TRUE]
             /\ used' = Plus(used, n) /\ denied' = denied /\ InAddressSpace'
             /\ lost' = IF denied THEN 0 ELSE lost + Owned(regions[i])
          \/ regions' = [regions EXCEPT ![i].buf = NoBuf] /\ denied' = TRUE /\ lost' = 0 /\ used' = used
      BY <1>2 DEF GetWeight, GetCharge, Lose
    <2>2. [regions EXCEPT ![i].buf = n, ![i].loaded = TRUE] = [regions EXCEPT ![i] = r]
      BY <1>1, <1>3
    <2>3. Len([regions EXCEPT ![i].buf = NoBuf]) = Len(regions)
      BY <1>1
    <2>4. budget' = budget
      BY DEF GetWeight
    <2> QED  BY <2>1, <2>2, <2>3, <2>4, Zenon
  <1> QED  BY <1>5, <1>6, <1>7

\* ct_awm_update_placement, SSD to RAM.
LEMMA StepUpdateToRamCharged ==
  ASSUME AwmIInv, RInv', NEW i \in DOMAIN regions, NEW p \in Placements, UpdateToRam(i, p)
  PROVE  AwmIInv'
  <1>1. /\ regions \in Seq(RegionRecords) /\ Good(regions[i])
        /\ Len(regions) <= MaxRegions /\ budget \in Budgets /\ lost \in Nat /\ denied \in BOOLEAN
        /\ denied => lost = 0
    BY RInvIsGood DEF AwmIInv, CInv
  <1>2. PICK n \in 0 .. Word - 1 : n = Bytes(regions[i].size, p)
    <2>1. regions[i].size \in Sizes
      BY <1>1 DEF Good, RegionRecords
    <2> QED  BY <2>1, BytesType
  <1>n. n \in Nat
    BY <1>2, AwmAssumption
  <1>3. PICK regs : regs = IF Fits(used, n) THEN regions ELSE RegionsNoCold
    OBVIOUS
  <1>4. PICK u : u = IF Fits(used, n) THEN used ELSE UsedNoCold
    OBVIOUS
  <1>5. /\ regs \in Seq(RegionRecords) /\ Len(regs) = Len(regions) /\ DOMAIN regs = DOMAIN regions
        /\ u \in 0 .. Word - 1
        /\ ~ denied => Charged(regs, u, lost)
    BY <1>3, <1>4, AfterRoom
  <1>6. PICK r : r = Region(regs[i].size, p, n)
    OBVIOUS
  <1>7. r \in RegionRecords /\ Owned(r) = n /\ Settled(r)
    <2>1. regs[i] \in RegionRecords
      BY <1>5
    <2>2. n # NoBuf
      BY <1>2, NoBufIsNoSize
    <2> QED  BY <1>2, <1>6, <2>1, <2>2 DEF RegionRecords, Region, Owned, Settled
  <1>8. CASE /\ regions' = [regs EXCEPT ![i] = r] /\ used' = Plus(u, n)
             /\ budget' = budget /\ denied' = denied /\ InAddressSpace'
             /\ lost' = IF denied THEN 0 ELSE lost + Owned(regs[i])
    <2>1. Len(regions') <= MaxRegions
      BY <1>1, <1>5, <1>8
    <2>2. used' \in 0 .. Word - 1
      BY <1>5, <1>8, WordArithmetic
    <2>3. CASE denied
      BY <1>1, <1>8, <2>1, <2>2, <2>3, CInvNext
    <2>4. CASE ~ denied
      <3>1. lost' = lost + Owned(regs[i]) /\ lost' + Held(regions') < Word
        BY <1>8, <2>4, InSpace
      <3>2. lost' \in Nat /\ Charged(regions', Plus(u, n), lost')
        BY <1>1, <1>n, <1>5, <1>7, <1>8, <2>4, <3>1, LoadCharged
      <3> QED  BY <1>1, <1>8, <2>1, <2>2, <2>4, <3>2, CInvNext
    <2> QED  BY <2>3, <2>4
  <1>9. CASE Len(regions') = Len(regs) /\ used' = u /\ denied' = TRUE /\ lost' = 0 /\ budget' = budget
    BY <1>1, <1>5, <1>9, CInvNext
  <1>10. CASE regions' = regs /\ used' = u /\ denied' = denied /\ lost' = lost /\ budget' = budget
    BY <1>1, <1>5, <1>10, CInvNext
  <1>11. \/ /\ regions' = [regs EXCEPT ![i] = r] /\ used' = Plus(u, n)
            /\ budget' = budget /\ denied' = denied /\ InAddressSpace'
            /\ lost' = IF denied THEN 0 ELSE lost + Owned(regs[i])
         \/ Len(regions') = Len(regs) /\ used' = u /\ denied' = TRUE /\ lost' = 0 /\ budget' = budget
         \/ regions' = regs /\ used' = u /\ denied' = denied /\ lost' = lost /\ budget' = budget
    <2>1. \/ /\ regions' = [regs EXCEPT ![i] = Region(@.size, p, n)] /\ used' = Plus(u, n)
             /\ denied' = denied /\ Lose(regs[i]) /\ InAddressSpace'
          \/ regions' = [regs EXCEPT ![i].buf = NoBuf] /\ used' = u /\ denied' = TRUE /\ lost' = 0
          \/ regions' = regs /\ used' = u /\ lost' = lost /\ denied' = denied
      BY <1>2, <1>3, <1>4 DEF UpdateToRam
    <2>2. [regs EXCEPT ![i] = Region(@.size, p, n)] = [regs EXCEPT ![i] = r]
      BY <1>5, <1>6
    <2>3. Len([regs EXCEPT ![i].buf = NoBuf]) = Len(regs)
      BY <1>5
    <2>4. budget' = budget
      BY DEF UpdateToRam
    <2>5. Lose(regs[i]) /\ denied' = denied => lost' = IF denied THEN 0 ELSE lost + Owned(regs[i])
      BY DEF Lose
    <2> QED  BY <2>1, <2>2, <2>3, <2>4, <2>5, Zenon
  <1> QED  BY <1>8, <1>9, <1>10, <1>11

\* ct_awm_register.
LEMMA StepRegisterCharged ==
  ASSUME AwmIInv, RInv', NEW size \in Sizes, NEW p \in Placements, Register(size, p)
  PROVE  AwmIInv'
  <1>1. /\ regions \in Seq(RegionRecords) /\ used \in 0 .. Word - 1
        /\ Len(regions) < MaxRegions /\ budget \in Budgets /\ lost \in Nat /\ denied \in BOOLEAN
        /\ denied => lost = 0
        /\ ~ denied => Charged(regions, used, lost)
    BY RInvIsGood DEF AwmIInv, CInv, Register
  <1>2. PICK n \in 0 .. Word - 1 : n = Bytes(size, p)
    BY BytesType
  <1>3. PICK r : \/ /\ r = Region(size, p, n) /\ used' = Plus(used, n)
                    /\ lost' = lost /\ denied' = denied /\ InAddressSpace'
                    /\ regions' = Append(regions, r)
                 \/ /\ r = Region(size, p, NoBuf)
                    /\ denied' = TRUE /\ lost' = 0 /\ used' = used
                    /\ regions' = Append(regions, r)
                 \/ /\ r = Region(size, "SSD_Q1", NoBuf)
                    /\ used' = used /\ lost' = lost /\ denied' = denied
                    /\ regions' = Append(regions, r)
    <2>1. \/ /\ used' = Plus(used, n) /\ lost' = lost /\ denied' = denied /\ InAddressSpace'
             /\ regions' = Append(regions, Region(size, p, n))
          \/ /\ denied' = TRUE /\ lost' = 0 /\ used' = used
             /\ regions' = Append(regions, Region(size, p, NoBuf))
          \/ /\ used' = used /\ lost' = lost /\ denied' = denied
             /\ regions' = Append(regions, Region(size, "SSD_Q1", NoBuf))
      BY <1>2 DEF Register
    <2> QED  BY <2>1, Zenon
  <1>b. budget' = budget
    BY DEF Register
  <1>4. r \in RegionRecords /\ regions' = Append(regions, r)
    <2>1. /\ Region(size, p, n) \in RegionRecords
          /\ Region(size, p, NoBuf) \in RegionRecords
          /\ Region(size, "SSD_Q1", NoBuf) \in RegionRecords
      BY <1>2 DEF Region, RegionRecords, Placements
    <2> QED  BY <1>3, <2>1, Zenon
  <1>5. Len(regions') <= MaxRegions
    <2>1. Len(regions') = Len(regions) + 1
      BY <1>1, <1>4
    <2> QED  BY <1>1, <2>1, AwmAssumption
  <1>6. used' \in 0 .. Word - 1
    <2>1. Plus(used, n) \in 0 .. Word - 1
      BY <1>1, <1>2, WordArithmetic
    <2> QED  BY <1>1, <1>3, <2>1, Zenon
  <1>7. ASSUME ~ denied' PROVE Charged(regions', used', lost') /\ lost' = lost
    <2>1. ~ denied /\ lost' = lost
      BY <1>3, <1>7
    <2>2. Charged(regions, used, lost) /\ used = lost + Held(regions)
      BY <1>1, <2>1 DEF Charged
    <2>3. Held(regions') = Held(regions) + Owned(r) /\ Held(regions) \in Nat
      BY <1>1, <1>4, HeldAppend, HeldType
    <2>4. Settled(r)
      <3>1. r = Region(size, p, n) \/ r = Region(size, "SSD_Q1", NoBuf)
        BY <1>3, <1>7, Zenon
      <3>2. n # NoBuf
        BY <1>2, NoBufIsNoSize
      <3>3. Settled(Region(size, p, n))
        BY <3>2 DEF Settled, Region
      <3>4. Settled(Region(size, "SSD_Q1", NoBuf))
        BY DEF Settled, Region, Ram
      <3> QED  BY <3>1, <3>3, <3>4, Zenon
    <2>5. used' = used + Owned(r)
      <3>1. CASE r = Region(size, p, n) /\ used' = Plus(used, n) /\ InAddressSpace'
        <4>1. Owned(r) = n
          BY <1>2, <3>1, NoBufIsNoSize DEF Owned, Region
        <4>2. lost' + Held(regions') < Word
          BY <1>7, <3>1, InSpace
        <4>3. n \in Nat /\ used \in Nat /\ Word \in Nat
          BY <1>1, <1>2, AwmAssumption
        <4>4. used + n < Word
          BY <1>1, <2>1, <2>2, <2>3, <4>1, <4>2, <4>3
        <4> QED  BY <3>1, <4>1, <4>3, <4>4, WordArithmetic
      <3>2. CASE r = Region(size, "SSD_Q1", NoBuf) /\ used' = used
        BY <1>1, <3>2 DEF Owned, Region
      <3> QED  BY <1>3, <1>7, <3>1, <3>2
    <2>6. Owned(r) \in Nat
      BY <1>4, AwmAssumption DEF Owned, RegionRecords, NoBuf
    <2>7. used' = lost' + Held(regions')
      BY <1>1, <2>1, <2>2, <2>3, <2>5, <2>6
    <2>8. \A j \in DOMAIN regions' : Settled(regions'[j])
      <3>1. \A j \in DOMAIN regions : Settled(regions[j])
        BY <2>2 DEF Charged
      <3>2. \A j \in DOMAIN regions' : regions'[j] = IF j \in DOMAIN regions THEN regions[j] ELSE r
        BY <1>1, <1>4
      <3> QED  BY <2>4, <3>1, <3>2
    <2> QED  BY <2>1, <2>7, <2>8 DEF Charged
  <1>8. lost' \in Nat /\ denied' \in BOOLEAN /\ (denied' => lost' = 0) /\ budget' \in Budgets
    <2>1. (lost' = lost /\ denied' = denied) \/ (lost' = 0 /\ denied' = TRUE)
      BY <1>3, Zenon
    <2>2. CASE lost' = lost /\ denied' = denied
      BY <1>1, <1>b, <2>2
    <2>3. CASE lost' = 0 /\ denied' = TRUE
      BY <1>1, <1>b, <2>3
    <2> QED  BY <2>1, <2>2, <2>3, Zenon
  <1> QED  BY <1>5, <1>6, <1>7, <1>8, CInvNext

LEMMA SpecAwmIInv == AwmSpec => []AwmIInv
  <1>1. AwmInit => AwmIInv
    <2> SUFFICES ASSUME AwmInit PROVE AwmIInv
      OBVIOUS
    <2>1. RInv
      BY DEF AwmInit, RInv, BufferFitsPlacement
    <2>2. Held(<<>>) = 0
      <3>1. PICK none : none = OwnedBytes(<<>>)
        OBVIOUS
      <3>2. DOMAIN <<>> = {} /\ IsFiniteSet({})
        BY FS_EmptySet
      <3>3. SumFunctionOnSet(none, {}) = 0
        BY <3>2, SumPicked
      <3> QED  BY <3>1, <3>2, <3>3, HeldIsSum, Zenon
    <2>3. Charged(<<>>, 0, 0)
      BY <2>2 DEF Charged
    <2>4. regions = <<>> /\ used = 0 /\ budget \in Budgets /\ lost = 0 /\ denied = FALSE
      BY DEF AwmInit
    <2>5. Charged(regions, used, lost)
      BY <2>3, <2>4, Zenon
    <2>6. Len(regions) <= MaxRegions /\ used \in 0 .. Word - 1
      BY <2>4, AwmAssumption
    <2> QED  BY <2>1, <2>4, <2>5, <2>6 DEF AwmIInv, CInv
  <1>2. AwmIInv /\ [AwmNext]_awmVars => AwmIInv'
    <2> SUFFICES ASSUME AwmIInv, [AwmNext]_awmVars PROVE AwmIInv'
      OBVIOUS
    <2>1. RInv'
      BY NextRInv DEF AwmIInv
    <2>2. ASSUME NEW i \in DOMAIN regions,
                 \/ \E p \in Placements : UpdateInRam(i, p) \/ UpdateToRam(i, p)
                 \/ Evict(i)
                 \/ GetWeight(i)
          PROVE  AwmIInv'
      BY <2>1, <2>2, StepUpdateInRamCharged, StepUpdateToRamCharged, StepEvictCharged,
         StepGetWeightCharged
    <2>3. CASE \E size \in Sizes, p \in Placements : Register(size, p)
      BY <2>1, <2>3, StepRegisterCharged
    <2>4. CASE EvictCold \/ \E b \in Budgets : SetBudget(b)
      BY <2>1, <2>4, StepReclaimCharged
    <2>5. CASE UNCHANGED awmVars
      <3>1. regions' = regions /\ used' = used /\ budget' = budget /\ lost' = lost /\ denied' = denied
        BY <2>5 DEF awmVars
      <3> QED  BY <2>1, <3>1, CInvNext DEF AwmIInv, CInv
    <2> QED
      BY <2>2, <2>3, <2>4, <2>5 DEF AwmNext
  <1> QED
    BY <1>1, <1>2, PTL DEF AwmSpec
-----------------------------------------------------------------------------
\* ram_used_bytes stays a uint64_t, and as long as no allocation fails it is
\* exactly what the loaded regions own and what was lost on the way: what
\* ct_awm_evict_cold and each eviction give back is what was charged.
THEOREM ChargeIsExact == AwmSpec => []AwmInv
  <1>1. AwmIInv => AwmInv
    <2> SUFFICES ASSUME AwmIInv PROVE AwmInv
      OBVIOUS
    <2>1. /\ regions \in Seq(RegionRecords) /\ Len(regions) <= MaxRegions
          /\ used \in 0 .. Word - 1 /\ budget \in Budgets /\ lost \in Nat /\ denied \in BOOLEAN
          /\ denied => lost = 0
          /\ ~ denied => Charged(regions, used, lost)
      BY DEF AwmIInv, CInv, RInv
    <2>2. lost \in 0 .. Word - 1
      <3>1. CASE denied
        BY <2>1, <3>1, AwmAssumption
      <3>2. CASE ~ denied
        <4>1. used = lost + Held(regions) /\ Held(regions) \in Nat
          BY <2>1, <3>2, HeldType DEF Charged
        <4> QED  BY <2>1, <4>1, AwmAssumption
      <3> QED  BY <3>1, <3>2
    <2>3. UsedIsAllocated
      BY <2>1 DEF UsedIsAllocated, Charged, Settled
    <2> QED  BY <2>1, <2>2, <2>3 DEF AwmInv, AwmTypeOK
  <1> QED  BY <1>1, SpecAwmIInv, PTL

\* ct_awm_set_budget leaves the charge within the lowered budget, or no region
\* that may be shed.
THEOREM BudgetSheds == AwmSpec => LowerBudgetSheds
  <1> DEFINE A == budget' # budget =>
                    \/ used' <= budget'
                    \/ \A i \in DOMAIN regions' : regions'[i].placement \notin ColdPlacements
  <1>1. AwmIInv /\ [AwmNext]_awmVars => [A]_awmVars
    <2> SUFFICES ASSUME RInv, used \in 0 .. Word - 1, AwmNext, budget' # budget
                 PROVE  \/ used' <= budget'
                        \/ \A i \in DOMAIN regions' : regions'[i].placement \notin ColdPlacements
      BY DEF AwmIInv, CInv
    <2>1. PICK b \in Budgets : SetBudget(b)
      BY DEF AwmNext, Register, UpdateInRam, UpdateToRam, Evict, GetWeight, EvictCold
    <2>2. CASE OverBudget(b)
      <3>1. regions' = RegionsNoCold
        BY <2>1, <2>2 DEF SetBudget
      <3> QED  BY <3>1, NoColdGood
    <2>3. CASE ~ OverBudget(b)
      <3>1. used' = used /\ budget' = b
        BY <2>1, <2>3 DEF SetBudget
      <3>2. b \in Nat /\ used \in Nat
        BY AwmAssumption
      <3> QED  BY <2>3, <3>1, <3>2 DEF OverBudget
    <2> QED  BY <2>2, <2>3
  <1> QED
    BY <1>1, SpecAwmIInv, PTL DEF AwmSpec, LowerBudgetSheds

================================================================================
