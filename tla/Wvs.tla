---------------------------------- MODULE Wvs ----------------------------------
(***************************************************************************)
(* The weight value scoreboard of src/wvs/wvs.c and its life in the engine *)
(* (src/engine/engine.c): an open-addressing hash table without deletion,  *)
(* written to a file when the engine is destroyed, read back by the next   *)
(* start, with crashes at any point of either.                             *)
(*                                                                         *)
(* A key is a model value; the slot keeps at most 63 characters of it, so  *)
(* Trunc maps a longer name to the key that is stored for it.  A score is  *)
(* abstracted to its hotness class: +0.05 or * 0.995 moves it by one class *)
(* at most.                                                                *)
(***************************************************************************)
EXTENDS Integers, Sequences, FiniteSets

CONSTANTS
  Names,     \* the strings callers record
  NoKey,     \* key[0] = '\0': an empty slot
  Trunc,     \* what a slot keeps of a name
  Hash,      \* wvs_hash of each name
  Capacity,  \* slots of the table
  Coldest    \* the last hotness class, CT_HOTNESS_RARE

Keys == {Trunc[n] : n \in Names}
Slots == 0 .. Capacity - 1
Classes == 0 .. Coldest

ASSUME WvsAssumption ==
  /\ NoKey \notin Names
  /\ Trunc \in [Names -> Names]
  /\ \A n \in Names : Trunc[Trunc[n]] = Trunc[n]
  /\ Capacity \in Nat \ {0}
  /\ Hash \in [Names -> 0 .. Capacity - 1]
  /\ Coldest \in Nat

VARIABLES
  slots,    \* key of each slot
  hotness,  \* hotness class of each slot
  count,    \* entries in the table
  mode,     \* "down" (crashed or never started), "loading", "up", "saving",
            \* "saved" (destroyed, the file closed; the table is kept here only
            \* to compare the file with)
  file,     \* [ok: the header is whole, n: count in it, entries]
  at        \* entries read, or slots visited, so far

wvsVars == <<slots, hotness, count, mode, file, at>>

Entries == [key : Keys, hotness : Classes]
NoFile == [ok |-> FALSE, n |-> 0, entries |-> <<>>]
NoKeys == [s \in Slots |-> NoKey]
NoHeat == [s \in Slots |-> 0]

WvsTypeOK ==
  /\ slots \in [Slots -> Keys \cup {NoKey}]
  /\ hotness \in [Slots -> Classes]
  /\ count \in 0 .. Capacity
  /\ mode \in {"down", "loading", "up", "saving", "saved"}
  /\ file \in [ok : BOOLEAN, n : 0 .. Capacity, entries : Seq(Entries)]
  /\ at \in 0 .. Capacity

\* The p-th slot visited for a name.
Probe(n, p) == (Hash[n] + p) % Capacity

\* Where a search for the stored keys in K, or for an empty slot, ends.
StopsAt(n, K, p) ==
  /\ slots[Probe(n, p)] \in K \cup {NoKey}
  /\ \A q \in 0 .. p - 1 : slots[Probe(n, q)] \notin K \cup {NoKey}

OccupiedSlots == {s \in Slots : slots[s] # NoKey}
-----------------------------------------------------------------------------
WvsInit ==
  /\ slots = NoKeys
  /\ hotness = NoHeat
  /\ count = 0
  /\ mode = "down"
  /\ file = NoFile
  /\ at = 0

\* ct_engine_load: a fresh table, filled from the file when it has a header.
Start ==
  /\ mode \in {"down", "saved"}
  /\ mode' = IF file.ok THEN "loading" ELSE "up"
  /\ slots' = NoKeys
  /\ hotness' = NoHeat
  /\ count' = 0
  /\ at' = 0
  /\ UNCHANGED file

\* ct_wvs_load puts the next entry into the first empty slot from its hash;
\* it does not look for an entry with that key.
PutAtHash(e, s) == s = Hash[e.key]
PutInFileOrder(e, s) == s = at
PutAt(e, s) == \E p \in Slots : s = Probe(e.key, p) /\ StopsAt(e.key, {}, p)

NewCountForgotten == count
NewCount == count + 1

LoadEntry ==
  /\ mode = "loading"
  /\ at < file.n /\ at < Len(file.entries)
  /\ LET e == file.entries[at + 1] IN
       \E s \in Slots :
         /\ PutAt(e, s)
         /\ slots' = [slots EXCEPT ![s] = e.key]
         /\ hotness' = [hotness EXCEPT ![s] = e.hotness]
  /\ count' = NewCount
  /\ at' = at + 1
  /\ UNCHANGED <<mode, file>>

\* Every entry the header announces has been read, or the file ends early.
LoadEnd ==
  /\ mode = "loading"
  /\ at = file.n \/ at = Len(file.entries)
  /\ mode' = "up"
  /\ at' = 0
  /\ UNCHANGED <<slots, hotness, count, file>>

\* ct_wvs_record_access, no entry with that key: a new one, HOT.
RecordNew(n) ==
  /\ mode = "up"
  /\ count < Capacity
  /\ \E p \in Slots :
       /\ StopsAt(n, {n}, p)
       /\ slots[Probe(n, p)] = NoKey
       /\ slots' = [slots EXCEPT ![Probe(n, p)] = Trunc[n]]
       /\ hotness' = [hotness EXCEPT ![Probe(n, p)] = 0]
  /\ count' = NewCount
  /\ UNCHANGED <<mode, file, at>>

\* ct_wvs_record_access, the entry is found: its score grows.
Warmer(h) == {h} \cup ({h - 1} \cap Classes)
RecordKnown(n) ==
  /\ mode = "up"
  /\ \E p \in Slots :
       /\ StopsAt(n, {n}, p)
       /\ slots[Probe(n, p)] = n
       /\ \E h \in Warmer(hotness[Probe(n, p)]) :
            hotness' = [hotness EXCEPT ![Probe(n, p)] = h]
  /\ UNCHANGED <<slots, count, mode, file, at>>

\* ct_wvs_update_all.
Cooler(h) == {h} \cup ({h + 1} \cap Classes)
UpdateAll ==
  /\ mode = "up"
  /\ hotness' \in [Slots -> Classes]
  /\ \A s \in Slots :
       hotness'[s] \in IF slots[s] = NoKey THEN {hotness[s]} ELSE Cooler(hotness[s])
  /\ UNCHANGED <<slots, count, mode, file, at>>

\* ct_wvs_reset.
Reset ==
  /\ mode = "up"
  /\ slots' = NoKeys
  /\ hotness' = NoHeat
  /\ count' = 0
  /\ UNCHANGED <<mode, file, at>>

\* ct_wvs_save, called by ct_engine_destroy: fopen truncates the old file ...
SaveOpen ==
  /\ mode = "up"
  /\ mode' = "saving"
  /\ file' = NoFile
  /\ at' = 0
  /\ UNCHANGED <<slots, hotness, count>>

\* ... then the header is written, and the entries in the order of their slots.
SaveHeader ==
  /\ mode = "saving"
  /\ ~ file.ok
  /\ file' = [file EXCEPT !.ok = TRUE, !.n = count]
  /\ UNCHANGED <<slots, hotness, count, mode, at>>

SlotsToSaveButLast == Capacity - 1
SlotsToSave == Capacity

SaveSlot ==
  /\ mode = "saving"
  /\ file.ok
  /\ at < SlotsToSave
  /\ file' = IF slots[at] = NoKey THEN file
             ELSE [file EXCEPT !.entries =
                     Append(@, [key |-> slots[at], hotness |-> hotness[at]])]
  /\ at' = at + 1
  /\ UNCHANGED <<slots, hotness, count, mode>>

SaveClose ==
  /\ mode = "saving"
  /\ file.ok
  /\ at = SlotsToSave
  /\ mode' = "saved"
  /\ at' = 0
  /\ UNCHANGED <<slots, hotness, count, file>>

\* The process dies; or the file cannot be opened or written, which
\* ct_engine_destroy only logs, or does not notice.  A prefix of the file is
\* left.
Crash ==
  /\ mode \in {"loading", "up", "saving"}
  /\ mode' = "down"
  /\ slots' = NoKeys
  /\ hotness' = NoHeat
  /\ count' = 0
  /\ at' = 0
  /\ UNCHANGED file

WvsNext ==
  \/ Start \/ LoadEntry \/ LoadEnd
  \/ \E n \in Names : RecordNew(n) \/ RecordKnown(n)
  \/ UpdateAll \/ Reset
  \/ SaveOpen \/ SaveHeader \/ SaveSlot \/ SaveClose
  \/ Crash

WvsSpec == WvsInit /\ [][WvsNext]_wvsVars
-----------------------------------------------------------------------------
(* Properties.                                                             *)

\* The keys that no longer name is cut down to.
PlainKeys == {k \in Names : \A n \in Names : Trunc[n] = k <=> n = k}

\* Wherever an entry lies, a lookup of its key ends at it: nothing between
\* the hash of the key and the entry is empty or has the same key, after any
\* order of recordings, and after a reload that inserts the entries in
\* another order than they came.
EntriesAreFound ==
  \A s \in Slots :
    slots[s] \in PlainKeys =>
      \E p \in Slots : s = Probe(slots[s], p) /\ StopsAt(slots[s], {slots[s]}, p)

\* count is the number of entries: it bounds ct_wvs_entry's scan, and it goes
\* into the header that tells ct_wvs_load how many entries to read.
CountIsOccupancy == count = Cardinality(OccupiedSlots)

\* The scoreboard as callers see it, and as a start would find it.
TableMap ==
  [k \in {slots[s] : s \in Slots} \cap PlainKeys |->
     hotness[CHOOSE s \in Slots : slots[s] = k]]
FileKeys == {file.entries[i].key : i \in DOMAIN file.entries}
FileMap ==
  [k \in FileKeys \cap PlainKeys |->
     file.entries[CHOOSE i \in DOMAIN file.entries : file.entries[i].key = k].hotness]

\* A save that ran to its end stored the whole scoreboard.
SavedWhole == mode = "saved" => file.ok /\ file.n = Len(file.entries) /\ FileMap = TableMap

\* The table and its file implement the abstract scoreboard: nothing recorded
\* is forgotten by a later access, a decay or a completed save and load, and a
\* crash leaves a part of what the table held, never another value.
SB == INSTANCE Scoreboard WITH
        Keys <- PlainKeys,
        score <- IF mode \in {"up", "saving"} THEN TableMap ELSE [k \in {} |-> 0],
        stored <- FileMap,
        stage <- CASE mode = "up" -> "up"
                   [] mode = "saving" -> "closing"
                   [] OTHER -> "down"
ImplementsScoreboard == SB!ScoreboardSpec
=============================================================================
