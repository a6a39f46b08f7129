------------------------------ MODULE EventStore ------------------------------
(* The append-only event store of the reasoning core                          *)
(* (src/src/core/provenance/provenance.c): a file of records without magic,   *)
(* checksum or record boundary, written through a stdio buffer, and read by   *)
(* two parsers, event_store_replay and event_store_count.                     *)
(*                                                                            *)
(* The file is a sequence of cells. Every fixed-size field is one cell, and   *)
(* so is every byte of a string; a cell holds a number, and a parser that     *)
(* has lost its place takes whatever number it meets for a length.            *)
EXTENDS Integers, Sequences, FiniteSets, SequencesExt, FiniteSetsExt

CONSTANTS
  Events,      \* the events that are appended
  MaxCells   \* bound: cells in the file and the buffer

\* What is appended and what a parser hands over: event_t, without its time.
EventRecords ==
  [type : Nat, id : Nat, entity : Nat, desc : Seq(Nat), span : Seq(Nat), payload : Seq(Nat)]

ASSUME EventsAssumption == Events \subseteq EventRecords
ASSUME MaxCellsAssumption == MaxCells \in Nat

VARIABLES
  file,   \* the cells that have reached the file
  buf,    \* the cells in the stdio buffer of the open store
  open,   \* whether a store with an open file exists
  log,    \* history: the events appended and not lost, in order
  torn    \* history: whether part of a record was lost

esVars == <<file, buf, open, log, torn>>

EventTypes == {e.type : e \in Events}

-------------------------------------------------------------------------------
(* Writing.                                                                   *)

\* An empty string writes nothing.
CountedIfAny(s) == IF s = <<>> THEN <<>> ELSE <<Len(s)>> \o s

\* A string is preceded by its length, also when it is empty.
Counted(s) == <<Len(s)>> \o s

\* What event_store_append writes, field by field.
Record(e) ==
  <<e.type, e.id, e.entity>>
    \o Counted(e.desc) \o Counted(e.span) \o Counted(e.payload)

Records(es) == FlattenSeq([i \in DOMAIN es |-> Record(es[i])])

-------------------------------------------------------------------------------
(* Reading. A parser stands at a cell of f; a length is read at p and the     *)
(* string behind it is skipped or read.                                       *)

\* Where a parser stands after the counted string at p.
After(f, p) == p + 1 + f[p]

\* The cells a short fread delivers: what there is.
Delivered(f, p) == SubSeq(f, p + 1, Min({p + f[p], Len(f)}))

\* The first cells of the three strings of the record at p.
DescAt(p)       == p + 3
SpanAt(f, p)    == After(f, DescAt(p))
PayloadAt(f, p) == After(f, SpanAt(f, p))

\* event_store_replay leaves its loop at the first fixed-size field that is
\* not there; a string that is cut short is not noticed.
Readable(f, p) ==
  /\ DescAt(p) <= Len(f)
  /\ SpanAt(f, p) <= Len(f)
  /\ PayloadAt(f, p) <= Len(f)

EventAt(f, p) ==
  [type |-> f[p], id |-> f[p + 1], entity |-> f[p + 2],
   desc |-> Delivered(f, DescAt(p)),
   span |-> Delivered(f, SpanAt(f, p)),
   payload |-> Delivered(f, PayloadAt(f, p))]

\* The position after the record at p, for a file that may end within it.
NextRecord(f, p) == Min({After(f, PayloadAt(f, p)), Len(f) + 1})

\* Whether every byte of the record at p is there.
Complete(f, p) == Readable(f, p) /\ After(f, PayloadAt(f, p)) <= Len(f) + 1

\* The loop of event_store_replay, which goes on from record to record as long as
\* it stands at one of the positions given.
Walk(f, at) ==
  LET from[p \in 1..Len(f) + 1] ==
        IF p \in at THEN <<EventAt(f, p)>> \o from[NextRecord(f, p)] ELSE <<>>
  IN  from[1]

\* event_store_replay: the events handed to the handler, in order.
Replay(f) == Walk(f, {p \in 1..Len(f) : Readable(f, p)})

\* The events of Replay(f) that were read to their last byte.
CompleteReplay(f) == Walk(f, {p \in 1..Len(f) : Complete(f, p)})

\* Where event_store_count looks for the next record: it seeks, and a seek
\* past the end of the file ends the loop.
Skip(f, p) ==
  IF Readable(f, p) THEN NextRecord(f, p) ELSE Len(f) + 1

\* event_store_count: the type is counted before the rest is looked at.
TypeCount(f, t) ==
  LET from[p \in 1..Len(f) + 1] ==
        IF p <= Len(f)
        THEN (IF f[p] = t THEN 1 ELSE 0) + from[Skip(f, p)]
        ELSE 0
  IN  from[1]

-------------------------------------------------------------------------------
(* The store.                                                                 *)

Init ==
  /\ file = <<>> /\ buf = <<>> /\ log = <<>>
  /\ open = FALSE /\ torn = FALSE

\* What it holds once it is opened with "wb".
OpenedEmpty(f) == <<>>

\* What the file holds once it is opened for appending: what it held.
Opened(f) == f

\* event_store_create: the file is opened for appending. When fopen fails the
\* store is created all the same and refuses every append.
Create ==
  /\ ~open
  /\ open' = TRUE
  /\ file' = Opened(file)
  /\ UNCHANGED <<buf, log, torn>>

\* event_store_append: no result of fwrite is looked at.
AppendEvent(e) ==
  /\ open
  /\ Len(file) + Len(buf) + Len(Record(e)) <= MaxCells   \* bound
  /\ buf' = buf \o Record(e)
  /\ log' = IF torn THEN log ELSE Append(log, e)
  /\ UNCHANGED <<file, open, torn>>

\* The buffer is full in the middle of an fwrite: any part of it goes to the
\* file before the rest.
Spill(n) ==
  /\ n \in 1..Len(buf)
  /\ file' = file \o SubSeq(buf, 1, n)
  /\ buf' = SubSeq(buf, n + 1, Len(buf))
  /\ UNCHANGED <<open, log, torn>>

\* event_store_flush.
Flush ==
  /\ open
  /\ buf # <<>>
  /\ file' = file \o buf
  /\ buf' = <<>>
  /\ UNCHANGED <<open, log, torn>>

\* The events that are left of a log when only the cells of f remain.
Remaining(f) ==
  LET whole == {n \in 0..Len(log) : Len(Records(SubSeq(log, 1, n))) <= Len(f)}
  IN  SubSeq(log, 1, Max(whole))

\* The buffer is lost after n of its cells were written.
Lose(n) ==
  /\ ~torn   \* bound: at most one record is torn
  /\ file' = file \o SubSeq(buf, 1, n)
  /\ buf' = <<>>
  /\ log' = Remaining(file')
  /\ torn' = (file' # Records(log'))

\* event_store_flush when the disk is full: what could not be written is
\* dropped from the buffer, and the store goes on.
FlushFails(n) ==
  /\ open
  /\ n \in 0..Len(buf) - 1
  /\ Lose(n)
  /\ UNCHANGED open

\* The process dies; the store is not destroyed.
Crash ==
  /\ open
  /\ buf # <<>>
  /\ open' = FALSE
  /\ Lose(0)

\* event_store_destroy: fclose writes the buffer.
Destroy ==
  /\ open
  /\ open' = FALSE
  /\ file' = file \o buf
  /\ buf' = <<>>
  /\ UNCHANGED <<log, torn>>

Next ==
  \/ Create
  \/ \E e \in Events : AppendEvent(e)
  \/ \E n \in 1..Len(buf) : Spill(n)
  \/ Flush
  \/ \E n \in 0..Len(buf) : FlushFails(n)
  \/ Crash
  \/ Destroy

EventStoreSpec == Init /\ [][Next]_esVars

-------------------------------------------------------------------------------
(* Properties.                                                                *)

EventStoreTypeOK ==
  /\ file \in Seq(Nat) /\ buf \in Seq(Nat)
  /\ open \in BOOLEAN /\ torn \in BOOLEAN
  /\ log \in Seq(Events)

\* As long as nothing was torn, the file and the buffer together replay to
\* exactly what was appended, over any number of stores that were opened,
\* destroyed or killed between records.
AppendedIsReplayed == ~torn => Replay(file \o buf) = log

\* The two parsers agree: as long as nothing was torn, what is counted of a
\* type is what a replay hands over of it.
CountAgreesWithReplay ==
  ~torn => \A t \in EventTypes :
     TypeCount(file \o buf, t) =
       Cardinality({i \in DOMAIN log : log[i].type = t})

\* While part of a record is in the file, or after a crash left it there, the
\* events before it are still replayed first.
SavedComesFirst == IsPrefix(Remaining(file), Replay(file))

\* What the two parsers of provenance.c (64-154) owe to a writer that looks at
\* no result: all four of the above.
EventStoreInv ==
  /\ EventStoreTypeOK
  /\ AppendedIsReplayed
  /\ CountAgreesWithReplay
  /\ SavedComesFirst

\* Deterministic replay: what a replay has handed over in full, every later
\* replay hands over again, in the same place, whatever was appended, torn,
\* lost or reopened in between. The one event a replay may take back is a last
\* one whose payload was cut short.
ReplayIsStable ==
  [][IsPrefix(CompleteReplay(file), Replay(file'))]_esVars
===============================================================================
