-------------------------------- MODULE Loader --------------------------------
(* The weight files of the DeepSeek backend and everything that touches them: *)
(* the script that downloads the GGUF parts (tools/download_compress.py), the *)
(* converter it starts (tools/compress_bit1.c), which may fail, be killed     *)
(* after two hours or lose its last bytes, the GGUF reader both programs use  *)
(* (src/src/gguf/gguf.c), and the engine's reader of the converted file       *)
(* (ds4_set_bit1_path and read_expert_raw in ds4_forward.c).                  *)
(*                                                                            *)
(* A file is a sequence of cells: a header, one cell per table or index       *)
(* entry, and one cell per weight matrix of an expert. ds4_forward.c builds   *)
(* on Windows only, so a file that is open can be truncated but not removed.  *)
EXTENDS Integers, Sequences, FiniteSets, SequencesExt, FiniteSetsExt

CONSTANTS
  NLayers, NExperts,   \* N_LAYERS and N_EXP
  PartTensors          \* per GGUF part, its tensors in the order of its table

Layers     == 0..NLayers - 1
ExpertIds  == 0..NExperts - 1
Mats       == 1..3      \* gate, up, down
TensorNames == Layers \X Mats
Parts      == DOMAIN PartTensors

ASSUME SizesAssumption == {NLayers, NExperts} \subseteq Nat \ {0}
\* Every tensor is in the table of one part, once.
ASSUME PartsAssumption ==
  /\ PartTensors \in Seq(Seq(TensorNames)) /\ Parts # {}
  /\ ToSet(FlattenSeq(PartTensors)) = TensorNames
  /\ Len(FlattenSeq(PartTensors)) = Cardinality(TensorNames)

VARIABLES
  part,      \* per GGUF part, how many of its cells are on the disk
  fetching,  \* the part being downloaded, or 0
  present,   \* whether there is a .bit1 file
  cells,     \* its cells
  tool,      \* the converter: what it does next, its parts, experts written
  pending,   \* the cells in the stdio buffer of its output
  place,     \* the file position at which the pending cells belong
  ctx,       \* the engine's ds4 context: state, parts, whether .bit1 is used
  index,     \* the index it has read from the .bit1 file
  job,       \* the expert being read, or NoJob
  got        \* its matrices read so far

diskVars   == <<part, fetching>>
bit1Vars   == <<present, cells>>
toolVars   == <<tool, pending, place>>
readerVars == <<ctx, index, job, got>>
vars == <<diskVars, bit1Vars, toolVars, readerVars>>

NoJob == [layer |-> NLayers, expert |-> NExperts]

-------------------------------------------------------------------------------
(* GGUF parts: a header, the table, then the matrices tensor by tensor.       *)

HeaderCells == 1
TableEnd(p) == HeaderCells + Len(PartTensors[p])
Whole(p)    == TableEnd(p) + Len(PartTensors[p]) * NExperts

\* The matrix in cell i of part p.
Raw(t, e) == [kind |-> "raw", layer |-> t[1], mat |-> t[2], expert |-> e]
Stored(p, i) ==
  LET d == i - TableEnd(p) - 1
  IN  Raw(PartTensors[p][d \div NExperts + 1], d % NExperts)

\* gguf_open: a file without a header is refused. A file that ends within its
\* table is accepted: the rest of the table stays empty, and the data is taken
\* to start where the reading stopped.
Refused == [entries |-> 0, data |-> 0]
Opened(p) ==
  IF part[p] < HeaderCells THEN Refused
  ELSE LET stop == Min({part[p], TableEnd(p)})
       IN  [entries |-> stop - HeaderCells, data |-> stop]

\* gguf_split_open: a part that cannot be opened is left out.
SplitOpened == [p \in Parts |-> Opened(p)]
NoSplit     == [p \in Parts |-> Refused]

\* gguf_split_find_tensor: the part and the table entry of a tensor.
Entries(s, t) ==
  UNION {{<<p, j>> : j \in {i \in 1..s[p].entries : PartTensors[p][i] = t}} :
           p \in Parts}

\* The cell gguf_split_read_tensor_at seeks to for expert e.
CellOf(s, pj, e) == s[pj[1]].data + (pj[2] - 1) * NExperts + e + 1

\* The matrix that is read for a tensor and an expert: none when no table has
\* the tensor or the part ends before it.
GgufRead(s, t, e) ==
  {Stored(pj[1], CellOf(s, pj, e)) :
     pj \in {q \in Entries(s, t) : CellOf(s, q, e) <= part[q[1]]}}

-------------------------------------------------------------------------------
(* The .bit1 file: a header, the index, then three matrices per expert.       *)

NEntries == NLayers * NExperts * 3
Header   == [kind |-> "header"]
Unfilled == [kind |-> "index", offset |-> 0, size |-> 0]

Nth(l, e, m) == (l * NExperts + e) * 3 + m

\* The index counts from the data section, as the comment on the entry says.
OffsetInData(k) == k

\* The data is addressed from the start of the file.
Offset(k) == HeaderCells + NEntries + k

Filled(k) == [kind |-> "index", offset |-> Offset(k), size |-> 1]

\* A matrix dequantised and quantised to one bit per weight.
Q1(w) == [w EXCEPT !.kind = "q1"]

\* A file after cs has been written at position at.
Written(f, at, cs) ==
  [i \in 1..Max({Len(f), at + Len(cs)}) |->
     IF i \in at + 1..at + Len(cs) THEN cs[i - at] ELSE f[i]]

-------------------------------------------------------------------------------
(* download_part. A download may end at any point: the connection closes, the *)
(* request fails or the script is stopped, and the script goes on.            *)

\* Whether an interrupted download is continued behind what is there.
Resumed(p, resume) == resume /\ part[p] > 0

\* Without --resume the file is truncated. A part whose size is known and
\* reached is not fetched again. Parts are assumed not to be fetched while an
\* engine has them open: a table read half-way would be taken for data later.
DownloadStart(p, resume) ==
  /\ fetching = 0 /\ tool.at = "idle" /\ ctx.at = "none"
  /\ ~(resume /\ part[p] = Whole(p))
  /\ fetching' = p
  /\ part' = IF Resumed(p, resume) THEN part ELSE [part EXCEPT ![p] = 0]
  /\ UNCHANGED <<bit1Vars, toolVars, readerVars>>

DownloadChunk ==
  /\ fetching # 0 /\ part[fetching] < Whole(fetching)
  /\ part' = [part EXCEPT ![fetching] = @ + 1]
  /\ UNCHANGED <<fetching, bit1Vars, toolVars, readerVars>>

DownloadEnds ==
  /\ fetching # 0
  /\ fetching' = 0
  /\ UNCHANGED <<part, bit1Vars, toolVars, readerVars>>

-------------------------------------------------------------------------------
(* compress_bit1.                                                             *)

Idle == [at |-> "idle", split |-> NoSplit, next |-> 0]

Running == tool.at # "idle"

\* The parts are opened, the output is truncated.
Convert ==
  /\ ~Running /\ fetching = 0
  /\ tool' = [at |-> "header", split |-> SplitOpened, next |-> 0]
  /\ present' = TRUE /\ cells' = <<>>
  /\ pending' = <<>> /\ place' = 0
  /\ UNCHANGED <<diskVars, readerVars>>

Write(cs) == pending' = pending \o cs

WriteHeader ==
  /\ tool.at = "header"
  /\ Write(<<Header>>)
  /\ tool' = [tool EXCEPT !.at = "placeholder"]
  /\ UNCHANGED <<place, bit1Vars, diskVars, readerVars>>

\* The final index is written at once.
FilledIndex == [k \in 1..NEntries |-> Filled(k)]

\* What stands in for the index until all the data is written.
Placeholder == [k \in 1..NEntries |-> Unfilled]

WritePlaceholder ==
  /\ tool.at = "placeholder"
  /\ Write(Placeholder)
  /\ tool' = [tool EXCEPT !.at = "data"]
  /\ UNCHANGED <<place, bit1Vars, diskVars, readerVars>>

\* The expert the converter is at, and what its read_expert_raw delivers.
ToolLayer  == tool.next \div NExperts
ToolExpert == tool.next % NExperts
ToolRead(m) == GgufRead(tool.split, <<ToolLayer, m>>, ToolExpert)

WriteExpert ==
  /\ tool.at = "data" /\ tool.next < NLayers * NExperts
  /\ \A m \in Mats : ToolRead(m) # {}
  /\ Write([m \in Mats |-> Q1(CHOOSE w \in ToolRead(m) : TRUE)])
  /\ tool' = [tool EXCEPT !.next = @ + 1]
  /\ UNCHANGED <<place, bit1Vars, diskVars, readerVars>>

\* The C library moves buffered cells to the file whenever it likes, in order.
Spill ==
  /\ Running /\ pending # <<>>
  /\ cells' = Written(cells, place, <<Head(pending)>>)
  /\ pending' = Tail(pending) /\ place' = place + 1
  /\ UNCHANGED <<tool, present, diskVars, readerVars>>

\* fseek writes the buffered data before it moves.
SeekBack ==
  /\ tool.at = "data" /\ tool.next = NLayers * NExperts
  /\ cells' = Written(cells, place, pending)
  /\ pending' = <<>> /\ place' = HeaderCells
  /\ tool' = [tool EXCEPT !.at = "index"]
  /\ UNCHANGED <<present, diskVars, readerVars>>

WriteIndex ==
  /\ tool.at = "index"
  /\ Write(FilledIndex)
  /\ tool' = [tool EXCEPT !.at = "close"]
  /\ UNCHANGED <<place, bit1Vars, diskVars, readerVars>>

\* The result of fclose is not looked at: the last cells may be lost, and the
\* converter reports success.
Finish ==
  /\ tool.at = "close"
  /\ \E n \in 0..Len(pending) :
       cells' = Written(cells, place, SubSeq(pending, 1, n))
  /\ tool' = Idle /\ pending' = <<>> /\ place' = 0
  /\ UNCHANGED <<present, diskVars, readerVars>>

\* Any failing call, of which an expert that cannot be read is one: the file
\* is closed and removed, unless the engine has it open.
Abort ==
  /\ Running /\ tool.at # "close"
  /\ IF ctx.bit1
     THEN /\ present' = TRUE
          /\ \E n \in 0..Len(pending) :
               cells' = Written(cells, place, SubSeq(pending, 1, n))
     ELSE /\ present' = FALSE
          /\ cells' = <<>>
  /\ tool' = Idle /\ pending' = <<>> /\ place' = 0
  /\ UNCHANGED <<diskVars, readerVars>>

\* run_compress_bit1 kills a converter that takes more than two hours.
Kill ==
  /\ Running
  /\ tool' = Idle /\ pending' = <<>> /\ place' = 0
  /\ UNCHANGED <<bit1Vars, diskVars, readerVars>>

-------------------------------------------------------------------------------
(* The engine.                                                                *)

NoCtx == [at |-> "none", split |-> NoSplit, bit1 |-> FALSE]

\* ct_engine_load: without a first part there is no architecture name and no
\* context. ds4_set_bit1_path: the file must be there and have a header.
EngineLoad ==
  /\ ctx.at = "none" /\ fetching = 0 /\ SplitOpened[1] # Refused
  /\ ctx' = [at    |-> IF present /\ cells # <<>> THEN "indexing" ELSE "ready",
             split |-> SplitOpened,
             bit1  |-> present /\ cells # <<>>]
  /\ UNCHANGED <<index, job, got, diskVars, bit1Vars, toolVars>>

\* The index is long: the converter may write while it is being read.
ReadIndexEntry ==
  /\ ctx.at = "indexing" /\ Len(index) < NEntries
  /\ Len(cells) > HeaderCells + Len(index)
  /\ index' = Append(index, cells[HeaderCells + Len(index) + 1])
  /\ UNCHANGED <<ctx, job, got, diskVars, bit1Vars, toolVars>>

\* A file that ends within its index is not used.
RefuseBit1 ==
  /\ ctx.at = "indexing" /\ Len(index) < NEntries
  /\ Len(cells) <= HeaderCells + Len(index)
  /\ ctx' = [ctx EXCEPT !.at = "ready", !.bit1 = FALSE]
  /\ index' = <<>>
  /\ UNCHANGED <<job, got, diskVars, bit1Vars, toolVars>>

\* Version 1 has no precision map: every expert is taken to be in the file.
AcceptBit1 ==
  /\ ctx.at = "indexing" /\ Len(index) = NEntries
  /\ ctx' = [ctx EXCEPT !.at = "ready"]
  /\ UNCHANGED <<index, job, got, diskVars, bit1Vars, toolVars>>

EngineFree ==
  /\ ctx.at = "ready" /\ job = NoJob
  /\ ctx' = NoCtx /\ index' = <<>>
  /\ UNCHANGED <<job, got, diskVars, bit1Vars, toolVars>>

StartRead(l, e) ==
  /\ ctx.at = "ready" /\ job = NoJob
  /\ job' = [layer |-> l, expert |-> e] /\ got' = <<>>
  /\ UNCHANGED <<ctx, index, diskVars, bit1Vars, toolVars>>

\* What the file delivers for an index entry: nothing for an empty one, and
\* nothing behind the end of the file.
Bit1Read(ent) ==
  IF ent.size = 0 THEN {} ELSE {cells[i] : i \in {ent.offset} \cap DOMAIN cells}

\* read_expert_raw, one matrix.
Delivered(m) ==
  IF ctx.bit1
  THEN Bit1Read(index[Nth(job.layer, job.expert, m)])
  ELSE GgufRead(ctx.split, <<job.layer, m>>, job.expert)

ReadMatrix ==
  /\ job # NoJob /\ Len(got) < 3
  /\ \E w \in Delivered(Len(got) + 1) : got' = Append(got, w)
  /\ UNCHANGED <<ctx, index, job, diskVars, bit1Vars, toolVars>>

\* The read returns: with all three matrices, or false.
EndRead ==
  /\ job # NoJob
  /\ Len(got) < 3 => Delivered(Len(got) + 1) = {}
  /\ job' = NoJob /\ got' = <<>>
  /\ UNCHANGED <<ctx, index, diskVars, bit1Vars, toolVars>>

-------------------------------------------------------------------------------
Init ==
  /\ part = [p \in Parts |-> 0] /\ fetching = 0
  /\ present = FALSE /\ cells = <<>>
  /\ tool = Idle /\ pending = <<>> /\ place = 0
  /\ ctx = NoCtx /\ index = <<>> /\ job = NoJob /\ got = <<>>

Next ==
  \/ \E p \in Parts, resume \in BOOLEAN : DownloadStart(p, resume)
  \/ DownloadChunk \/ DownloadEnds
  \/ Convert \/ WriteHeader \/ WritePlaceholder \/ WriteExpert \/ Spill
  \/ SeekBack \/ WriteIndex \/ Finish \/ Abort \/ Kill
  \/ EngineLoad \/ ReadIndexEntry \/ RefuseBit1 \/ AcceptBit1 \/ EngineFree
  \/ \E l \in Layers, e \in ExpertIds : StartRead(l, e)
  \/ ReadMatrix \/ EndRead

LoaderSpec == Init /\ [][Next]_vars

-------------------------------------------------------------------------------
(* Properties.                                                                *)

LoaderTypeOK ==
  /\ part \in [Parts -> Nat] /\ \A p \in Parts : part[p] <= Whole(p)
  /\ fetching \in {0} \cup Parts
  /\ present \in BOOLEAN /\ (cells # <<>> => present)
  /\ tool.at \in {"idle", "header", "placeholder", "data", "index", "close"}
  /\ tool.next \in 0..NLayers * NExperts
  /\ ctx.at \in {"none", "indexing", "ready"}
  /\ Len(index) <= NEntries /\ Len(got) <= 3

\* Whatever part of a file is missing, and whatever the converter does to the
\* file meanwhile, a matrix that read_expert_raw (ds4_forward.c:941) delivers
\* is the matrix of the expert asked for, in the encoding of the file it was
\* read from.
ReadIsOwn ==
  \A m \in DOMAIN got :
    LET w == Raw(<<job.layer, m>>, job.expert)
    IN  got[m] = IF ctx.bit1 THEN Q1(w) ELSE w

LoaderInv == LoaderTypeOK /\ ReadIsOwn

\* An index entry of the .bit1 file is empty until the data it points to is in
\* the file and is the data of its expert, so that no crash of the converter
\* (compress_bit1.c:280-405) leaves an entry that points behind the file.
IndexedIsPresent ==
  \A l \in Layers, e \in ExpertIds, m \in Mats :
    LET i == HeaderCells + Nth(l, e, m)
    IN  i \in DOMAIN cells /\ cells[i].size # 0
          => /\ cells[i].offset \in DOMAIN cells
             /\ cells[cells[i].offset] = Q1(Raw(<<l, m>>, e))

\* "expert not in .bit1 (shouldn't happen when use_q10)" (ds4_forward.c:960):
\* once the file is in use, every expert has an entry in its index.
EveryExpertIsInFile ==
  ctx.at = "ready" /\ ctx.bit1 => \A k \in 1..NEntries : index[k].size # 0
===============================================================================
