----------------------------- MODULE LoaderProofs -----------------------------
(* Proofs about Loader, for any number of layers, experts and parts: whatever *)
(* is missing of a file, and wherever the converter is stopped, what the      *)
(* engine reads is the matrix it asked for, and an entry of the index points  *)
(* to data that is there.                                                     *)
(*                                                                            *)
(* The inductive invariant is about positions. A cell of the .bit1 file, or   *)
(* of the buffer before it, is what belongs at its position in every file     *)
(* the converter ever writes, and entries are filled only in a file that has  *)
(* its whole length. A table that was read in part belongs to a part that     *)
(* ends there for as long as it is open.                                      *)
EXTENDS Loader, TLAPS

Total == HeaderCells + NEntries + NEntries

\* The k-th matrix of the data section.
Data(k) ==
  Q1(Raw(<<((k - 1) \div 3) \div NExperts, ((k - 1) % 3) + 1>>, ((k - 1) \div 3) % NExperts))

\* What may be in the file at a position; entries are filled last.
CellsAt(i, filled) ==
  IF i = HeaderCells THEN {Header}
  ELSE IF i <= HeaderCells + NEntries
  THEN {Unfilled} \cup (IF filled THEN {Filled(i - HeaderCells)} ELSE {})
  ELSE {Data(i - HeaderCells - NEntries)}

FileCells == UNION {CellsAt(i, TRUE) : i \in Nat \ {0}}

InOrder(cs, at, filled) == \A j \in DOMAIN cs : cs[j] \in CellsAt(at + j, filled)

FileInv ==
  /\ cells \in Seq(FileCells) /\ pending \in Seq(FileCells) /\ place \in Nat
  /\ InOrder(cells, 0, Len(cells) = Total)
  /\ InOrder(pending, place, Len(cells) = Total)
  /\ present \in BOOLEAN /\ (cells # <<>> => present)

\* A table that was read whole, or up to the end of the part.
Splits == [Parts -> [entries : Nat, data : Nat]]
TablesRead(s) ==
  \A p \in Parts : \/ s[p].entries = 0
                   \/ s[p].data = TableEnd(p)
                   \/ part[p] <= s[p].data

PartsInv ==
  /\ part \in [Parts -> Nat] /\ \A p \in Parts : part[p] <= Whole(p)
  /\ fetching \in {0} \cup Parts

Stages == {"idle", "header", "placeholder", "data", "index", "close"}

\* How far the converter has come.
ToolInv ==
  /\ tool \in [at : Stages, split : Splits, next : 0..NLayers * NExperts]
  /\ tool.at = "idle" => pending = <<>> /\ place = 0
  /\ tool.at # "idle" => present /\ fetching = 0 /\ TablesRead(tool.split)
  /\ tool.at \in {"header", "placeholder", "data"} => Len(cells) = place
  /\ tool.at \in {"header", "placeholder"} => tool.next = 0
  /\ tool.at = "header" => place + Len(pending) = 0
  /\ tool.at = "placeholder" => place + Len(pending) = HeaderCells
  /\ tool.at = "data" => place + Len(pending) = HeaderCells + NEntries + tool.next * 3
  /\ tool.at \in {"index", "close"} => Len(cells) = Total
  /\ tool.at = "index" => pending = <<>> /\ place = HeaderCells
  /\ tool.at = "close" => place + Len(pending) = HeaderCells + NEntries

Matrices == [kind : {"raw", "q1"}, layer : Int, mat : Int, expert : Int]

ReaderInv ==
  /\ ctx \in [at : {"none", "indexing", "ready"}, split : Splits, bit1 : BOOLEAN]
  /\ ctx.at # "none" => fetching = 0 /\ TablesRead(ctx.split)
  /\ index \in Seq(FileCells) /\ Len(index) <= NEntries
  /\ \A i \in DOMAIN index : index[i] \in {Unfilled, Filled(i)}
  /\ ctx.at = "none" => index = <<>>
  /\ ctx.at = "ready" /\ ctx.bit1 => Len(index) = NEntries
  /\ job = NoJob => got = <<>>
  /\ job # NoJob => ctx.at = "ready" /\ job \in [layer : Layers, expert : ExpertIds]
  /\ got \in Seq(Matrices) /\ Len(got) <= 3
  /\ ReadIsOwn

LoaderIInv == PartsInv /\ FileInv /\ ToolInv /\ ReaderInv

-------------------------------------------------------------------------------
(* Numbers and positions.                                                     *)

LEMMA Sizes ==
  /\ NLayers \in Nat \ {0} /\ NExperts \in Nat \ {0}
  /\ NLayers * NExperts \in Nat \ {0}
  /\ NEntries = (NLayers * NExperts) * 3 /\ NEntries \in Nat \ {0}
  /\ HeaderCells = 1 /\ Total = 1 + NEntries + NEntries /\ Total \in Nat
  <1>1. NLayers \in Nat \ {0} /\ NExperts \in Nat \ {0}
    BY SizesAssumption
  <1>2. NLayers * NExperts \in Nat \ {0}
    BY <1>1
  <1>3. NEntries = (NLayers * NExperts) * 3
    BY <1>1 DEF NEntries
  <1> QED
    BY <1>1, <1>2, <1>3 DEF HeaderCells, Total

LEMMA Quotient ==
  ASSUME NEW n \in Nat \ {0}, NEW q \in Nat, NEW r \in 0..n - 1
  PROVE  (q * n + r) \div n = q /\ (q * n + r) % n = r
  OBVIOUS

\* The matrix of an expert has one position in the data section.
LEMMA NthIsData ==
  ASSUME NEW l \in Layers, NEW e \in ExpertIds, NEW m \in Mats
  PROVE  Nth(l, e, m) \in 1..NEntries /\ Data(Nth(l, e, m)) = Q1(Raw(<<l, m>>, e))
  <1>1. /\ NLayers \in Nat \ {0} /\ NExperts \in Nat \ {0} /\ l \in 0..NLayers - 1
        /\ e \in 0..NExperts - 1 /\ m \in 1..3
    BY Sizes DEF Layers, ExpertIds, Mats
  <1> DEFINE q == l * NExperts + e
  <1>2. q \in Nat /\ q \div NExperts = l /\ q % NExperts = e
    <2>1. l \in Nat /\ q \in Nat
      BY <1>1
    <2>2. q \div NExperts = l /\ q % NExperts = e
      BY <1>1, <2>1, Quotient
    <2> QED
      BY <2>1, <2>2
  <1>3. q <= NLayers * NExperts - 1
    <2>1. (l + 1) * NExperts <= NLayers * NExperts
      BY <1>1
    <2>2. (l + 1) * NExperts = l * NExperts + NExperts
      BY <1>1
    <2>3. l * NExperts \in Nat /\ NLayers * NExperts \in Nat
      BY <1>1
    <2> QED
      BY <1>1, <2>1, <2>2, <2>3
  <1>4. Nth(l, e, m) = q * 3 + m
    BY DEF Nth
  <1> HIDE DEF q
  <1>5. (q * 3 + m) - 1 = q * 3 + (m - 1) /\ m - 1 \in 0..3 - 1
    BY <1>1, <1>2
  <1>6. ((q * 3 + m) - 1) \div 3 = q /\ (((q * 3 + m) - 1) % 3) + 1 = m
    BY <1>1, <1>2, <1>5
  <1>7. Nth(l, e, m) \in 1..NEntries
    <2>1. NEntries = (NLayers * NExperts) * 3 /\ NLayers * NExperts \in Nat
      BY Sizes
    <2> QED
      BY <1>1, <1>2, <1>3, <1>4, <2>1
  <1>8. Data(Nth(l, e, m)) = Q1(Raw(<<q \div NExperts, m>>, q % NExperts))
    BY <1>4, <1>6, Zenon DEF Data
  <1> QED
    BY <1>2, <1>7, <1>8, Zenon

LEMMA MaxOfTwo ==
  ASSUME NEW a \in Nat, NEW b \in Nat
  PROVE  Max({a, b}) = IF a >= b THEN a ELSE b
  BY DEF Max

LEMMA FunctionIsSeq ==
  ASSUME NEW S, NEW n \in Nat, NEW f \in [1..n -> S]
  PROVE  f \in Seq(S) /\ Len(f) = n /\ DOMAIN f = 1..n
  OBVIOUS

-------------------------------------------------------------------------------
(* The GGUF parts.                                                            *)

LEMMA TablesTyped ==
  ASSUME NEW p \in Parts
  PROVE  /\ Len(PartTensors[p]) \in Nat
         /\ TableEnd(p) = 1 + Len(PartTensors[p])
         /\ Whole(p) \in Nat
  <1>1. PartTensors[p] \in Seq(TensorNames)
    BY PartsAssumption DEF Parts
  <1>2. Len(PartTensors[p]) \in Nat
    BY <1>1
  <1>3. Len(PartTensors[p]) * NExperts \in Nat
    BY <1>2, Sizes
  <1> QED
    BY <1>2, <1>3, Sizes DEF TableEnd, Whole

LEMMA SplitOpenedIsRead ==
  ASSUME PartsInv
  PROVE  SplitOpened \in Splits /\ TablesRead(SplitOpened)
  <1>1. ASSUME NEW p \in Parts
        PROVE  /\ Opened(p) \in [entries : Nat, data : Nat]
               /\ \/ Opened(p).entries = 0
                  \/ Opened(p).data = TableEnd(p)
                  \/ part[p] <= Opened(p).data
    <2>1. part[p] \in Nat /\ TableEnd(p) \in Nat \ {0} /\ HeaderCells = 1
      BY TablesTyped, Sizes DEF PartsInv
    <2>2. CASE part[p] < HeaderCells
      BY <2>2 DEF Opened, Refused
    <2>3. CASE ~ (part[p] < HeaderCells)
      <3> DEFINE stop == Min({part[p], TableEnd(p)})
      <3>1. stop = IF part[p] <= TableEnd(p) THEN part[p] ELSE TableEnd(p)
        BY <2>1 DEF Min
      <3>2. Opened(p) = [entries |-> stop - HeaderCells, data |-> stop]
        BY <2>3 DEF Opened
      <3> HIDE DEF stop
      <3>3. stop \in Nat \ {0} /\ (stop = part[p] \/ stop = TableEnd(p))
        BY <2>1, <2>3, <3>1
      <3> QED
        BY <2>1, <3>2, <3>3
    <2> QED
      BY <2>2, <2>3
  <1> QED
    BY <1>1 DEF SplitOpened, Splits, TablesRead

\* What the reader delivers for a tensor and an expert is that matrix, or none.
LEMMA GgufReadsOwn ==
  ASSUME PartsInv, NEW s \in Splits, TablesRead(s), NEW t, NEW e \in ExpertIds,
         NEW w \in GgufRead(s, t, e)
  PROVE  w = Raw(t, e)
  <1>1. PICK pj \in Entries(s, t) : /\ CellOf(s, pj, e) <= part[pj[1]]
                                    /\ w = Stored(pj[1], CellOf(s, pj, e))
    BY DEF GgufRead
  <1>2. PICK p \in Parts : pj \in {<<p, j>> : j \in {i \in 1..s[p].entries : PartTensors[p][i] = t}}
    BY <1>1 DEF Entries
  <1>3. PICK j \in 1..s[p].entries : pj = <<p, j>> /\ PartTensors[p][j] = t
    BY <1>2
  <1>4. /\ s[p].entries \in Nat /\ s[p].data \in Nat /\ part[p] \in Nat
        /\ NExperts \in Nat \ {0} /\ e \in 0..NExperts - 1 /\ TableEnd(p) \in Nat
    BY TablesTyped, Sizes DEF Splits, PartsInv, ExpertIds
  <1>5. j \in Nat \ {0} /\ (j - 1) * NExperts \in Nat
    <2>1. j - 1 \in Nat
      BY <1>4
    <2> QED
      BY <1>4, <2>1
  <1> DEFINE q == (j - 1) * NExperts
             c == CellOf(s, pj, e)
  <1>6. c = s[p].data + q + e + 1
    BY <1>3 DEF CellOf
  <1>7. c <= part[p] /\ w = Stored(p, c)
    BY <1>1, <1>3
  <1> HIDE DEF q, c
  <1>8. q \in Nat
    BY <1>5 DEF q
  <1>9. s[p].data = TableEnd(p)
    <2>1. ~ (part[p] <= s[p].data) /\ s[p].entries # 0
      BY <1>4, <1>6, <1>7, <1>8
    <2> QED
      BY <2>1 DEF TablesRead
  <1>10. c - TableEnd(p) - 1 = q + e
    BY <1>4, <1>6, <1>8, <1>9
  <1>11. (q + e) \div NExperts = j - 1 /\ (q + e) % NExperts = e
    <2>1. j - 1 \in Nat
      BY <1>5
    <2> QED
      BY <1>4, <2>1, Quotient DEF q
  <1>12. Stored(p, c) = Raw(PartTensors[p][(q + e) \div NExperts + 1], (q + e) % NExperts)
    BY <1>10 DEF Stored
  <1>13. (j - 1) + 1 = j
    BY <1>5
  <1> QED
    BY <1>3, <1>7, <1>11, <1>12, <1>13

-------------------------------------------------------------------------------
(* Cells.                                                                     *)

LEMMA CellsGrow ==
  ASSUME NEW i, NEW filled \in BOOLEAN, NEW x \in CellsAt(i, filled)
  PROVE  x \in CellsAt(i, TRUE)
  BY DEF CellsAt

LEMMA CellsAreTyped ==
  ASSUME NEW i \in Nat \ {0}, NEW filled \in BOOLEAN, NEW x \in CellsAt(i, filled)
  PROVE  x \in FileCells
  BY CellsGrow DEF FileCells

\* A file after a write that leaves no hole.
LEMMA WrittenCells ==
  ASSUME NEW S, NEW f \in Seq(S), NEW cs \in Seq(S), NEW at \in 0..Len(f)
  PROVE  LET w == Written(f, at, cs)
         IN  /\ w \in Seq(S)
             /\ Len(w) = IF Len(f) >= at + Len(cs) THEN Len(f) ELSE at + Len(cs)
             /\ \A i \in DOMAIN w :
                  IF i \in at + 1..at + Len(cs)
                  THEN i - at \in DOMAIN cs /\ w[i] = cs[i - at]
                  ELSE i \in DOMAIN f /\ w[i] = f[i]
  <1>1. Len(f) \in Nat /\ Len(cs) \in Nat /\ at \in Nat /\ at + Len(cs) \in Nat
    OBVIOUS
  <1>2. PICK N \in Nat : N = IF Len(f) >= at + Len(cs) THEN Len(f) ELSE at + Len(cs)
    BY <1>1
  <1>3. Max({Len(f), at + Len(cs)}) = N
    BY <1>1, <1>2, MaxOfTwo
  <1> DEFINE w == Written(f, at, cs)
  <1>4. w = [i \in 1..N |-> IF i \in at + 1..at + Len(cs) THEN cs[i - at] ELSE f[i]]
    BY <1>3 DEF Written
  <1> HIDE DEF w
  <1>5. ASSUME NEW i \in 1..N
        PROVE  IF i \in at + 1..at + Len(cs)
               THEN i - at \in 1..Len(cs) /\ cs[i - at] \in S
               ELSE i \in 1..Len(f) /\ f[i] \in S
    <2>1. CASE i \in at + 1..at + Len(cs)
      <3>1. i - at \in 1..Len(cs)
        BY <1>1, <2>1
      <3> QED
        BY <2>1, <3>1
    <2>2. CASE i \notin at + 1..at + Len(cs)
      <3>1. i \in 1..Len(f)
        BY <1>1, <1>2, <2>2
      <3> QED
        BY <2>2, <3>1
    <2> QED
      BY <2>1, <2>2
  <1>6. \A i \in 1..N : w[i] = IF i \in at + 1..at + Len(cs) THEN cs[i - at] ELSE f[i]
    BY <1>4
  <1>7. w \in [1..N -> S]
    <2>1. \A i \in 1..N : w[i] \in S
      BY <1>5, <1>6
    <2>2. w = [i \in 1..N |-> w[i]]
      BY <1>4
    <2> QED
      BY <2>1, <2>2
  <1>8. w \in Seq(S) /\ Len(w) = N /\ DOMAIN w = 1..N
    BY <1>7
  <1>9. \A i \in DOMAIN w :
          IF i \in at + 1..at + Len(cs)
          THEN i - at \in DOMAIN cs /\ w[i] = cs[i - at]
          ELSE i \in DOMAIN f /\ w[i] = f[i]
    BY <1>5, <1>6, <1>8
  <1> QED
    BY <1>2, <1>8, <1>9 DEF w

\* Buffered cells that reach the file, in order and none skipped.
LEMMA FileGrows ==
  ASSUME FileInv, place <= Len(cells), place + Len(pending) <= Total,
         NEW cs \in Seq(FileCells), Len(cs) <= Len(pending),
         \A j \in DOMAIN cs : cs[j] = pending[j]
  PROVE  LET w == Written(cells, place, cs)
         IN  /\ w \in Seq(FileCells)
             /\ Len(w) = IF Len(cells) >= place + Len(cs) THEN Len(cells) ELSE place + Len(cs)
             /\ Len(cells) = Total => Len(w) = Total
             /\ InOrder(w, 0, Len(w) = Total)
  <1> DEFINE w == Written(cells, place, cs)
             full == (Len(cells) = Total)
  <1>1. /\ cells \in Seq(FileCells) /\ place \in 0..Len(cells) /\ Len(cells) \in Nat
        /\ Len(cs) \in Nat /\ Len(pending) \in Nat /\ place \in Nat /\ Total \in Nat
        /\ DOMAIN cs = 1..Len(cs) /\ DOMAIN pending = 1..Len(pending)
    BY Sizes DEF FileInv
  <1>2. /\ w \in Seq(FileCells)
        /\ Len(w) = IF Len(cells) >= place + Len(cs) THEN Len(cells) ELSE place + Len(cs)
        /\ \A i \in DOMAIN w :
             IF i \in place + 1..place + Len(cs)
             THEN i - place \in DOMAIN cs /\ w[i] = cs[i - place]
             ELSE i \in DOMAIN cells /\ w[i] = cells[i]
    BY <1>1, WrittenCells
  <1> HIDE DEF w
  <1>3. full => Len(w) = Total
    BY <1>1, <1>2
  <1>4. ASSUME NEW i \in DOMAIN w PROVE w[i] \in CellsAt(0 + i, full)
    <2>1. i \in Nat /\ 0 + i = i
      BY <1>2
    <2>2. CASE i \in place + 1..place + Len(cs)
      <3>1. PICK j \in DOMAIN cs : j = i - place
        BY <1>2, <2>2
      <3>2. w[i] = pending[j] /\ j \in DOMAIN pending
        BY <1>1, <1>2, <2>2, <3>1
      <3>3. pending[j] \in CellsAt(place + j, full)
        BY <3>2 DEF FileInv, InOrder
      <3>4. place + j = 0 + i
        BY <1>1, <2>1, <3>1
      <3> QED
        BY <3>2, <3>3, <3>4
    <2>3. CASE i \notin place + 1..place + Len(cs)
      <3>1. i \in DOMAIN cells /\ w[i] = cells[i]
        BY <1>2, <2>3
      <3> QED
        BY <3>1 DEF FileInv, InOrder
    <2> QED
      BY <2>2, <2>3
  <1>5. InOrder(w, 0, Len(w) = Total)
    <2>1. full \in BOOLEAN
      OBVIOUS
    <2>2. \A i \in DOMAIN w : w[i] \in CellsAt(0 + i, Len(w) = Total)
      <3> TAKE i \in DOMAIN w
      <3>1. CASE full
        <4>1. (Len(w) = Total) = full
          BY <1>3, <3>1
        <4> QED
          BY <1>4, <4>1
      <3>2. CASE ~ full
        <4>1. w[i] \in CellsAt(0 + i, FALSE)
          BY <1>4, <3>2
        <4>2. w[i] \in CellsAt(0 + i, TRUE)
          BY <4>1, CellsGrow
        <4> QED
          BY <4>1, <4>2
      <3> QED
        BY <3>1, <3>2
    <2> QED
      BY <2>2 DEF InOrder
  <1> QED
    BY <1>2, <1>3, <1>5 DEF w

\* More cells in the buffer.
LEMMA BufferGrows ==
  ASSUME FileInv, NEW cs \in Seq(FileCells), pending' = pending \o cs,
         UNCHANGED <<cells, place, present>>,
         \A j \in DOMAIN cs : cs[j] \in CellsAt(place + Len(pending) + j, Len(cells) = Total)
  PROVE  FileInv' /\ Len(pending') = Len(pending) + Len(cs)
  <1>1. /\ pending \in Seq(FileCells) /\ place \in Nat /\ Len(pending) \in Nat /\ Len(cs) \in Nat
        /\ DOMAIN cs = 1..Len(cs) /\ DOMAIN pending = 1..Len(pending)
    BY DEF FileInv
  <1>2. pending' \in Seq(FileCells) /\ Len(pending') = Len(pending) + Len(cs)
    BY <1>1
  <1>3. ASSUME NEW j \in DOMAIN pending'
        PROVE  pending'[j] \in CellsAt(place + j, Len(cells) = Total)
    <2>1. j \in 1..Len(pending) + Len(cs)
      BY <1>2
    <2>2. CASE j <= Len(pending)
      <3>1. pending'[j] = pending[j] /\ j \in DOMAIN pending
        BY <1>1, <2>1, <2>2
      <3> QED
        BY <3>1 DEF FileInv, InOrder
    <2>3. CASE j > Len(pending)
      <3>1. PICK h \in DOMAIN cs : h = j - Len(pending)
        BY <1>1, <2>1, <2>3
      <3>2. pending'[j] = cs[h]
        BY <1>1, <2>1, <2>3, <3>1
      <3>3. cs[h] \in CellsAt(place + Len(pending) + h, Len(cells) = Total)
        OBVIOUS
      <3>4. place + Len(pending) + h = place + j
        BY <1>1, <2>1, <3>1
      <3> QED
        BY <3>2, <3>3, <3>4
    <2> QED
      BY <1>1, <2>1, <2>2, <2>3
  <1> QED
    BY <1>2, <1>3 DEF FileInv, InOrder

-------------------------------------------------------------------------------
(* Steps of the downloads.                                                    *)

LEMMA DownloadSteps ==
  ASSUME LoaderIInv,
         \/ \E p \in Parts, resume \in BOOLEAN : DownloadStart(p, resume)
         \/ DownloadChunk \/ DownloadEnds
  PROVE  LoaderIInv'
  <1>1. PartsInv /\ FileInv /\ ToolInv /\ ReaderInv
    BY DEF LoaderIInv
  <1>2. /\ UNCHANGED <<present, cells, tool, pending, place, ctx, index, job, got>>
        /\ \/ tool.at = "idle" /\ ctx.at = "none"
           \/ part' = part /\ fetching' = 0
    <2>1. CASE \E p \in Parts, resume \in BOOLEAN : DownloadStart(p, resume)
      BY <2>1 DEF DownloadStart, bit1Vars, toolVars, readerVars
    <2>2. CASE DownloadChunk
      <3>1. fetching # 0 /\ UNCHANGED <<bit1Vars, toolVars, readerVars>>
        BY <2>2 DEF DownloadChunk
      <3>2. tool.at = "idle" /\ ctx.at = "none"
        BY <1>1, <3>1 DEF ToolInv, ReaderInv
      <3> QED
        BY <3>1, <3>2 DEF bit1Vars, toolVars, readerVars
    <2>3. CASE DownloadEnds
      BY <2>3 DEF DownloadEnds, bit1Vars, toolVars, readerVars
    <2> QED
      BY <2>1, <2>2, <2>3
  <1>3. PartsInv'
    <2>1. ASSUME NEW p \in Parts, NEW resume \in BOOLEAN, DownloadStart(p, resume)
          PROVE  PartsInv'
      <3>1. fetching' = p /\ (part' = part \/ part' = [part EXCEPT ![p] = 0])
        BY <2>1 DEF DownloadStart
      <3>2. Whole(p) \in Nat
        BY TablesTyped
      <3> QED
        BY <1>1, <3>1, <3>2 DEF PartsInv
    <2>2. CASE DownloadChunk
      <3>1. /\ fetching # 0 /\ part[fetching] < Whole(fetching)
            /\ part' = [part EXCEPT ![fetching] = part[fetching] + 1] /\ fetching' = fetching
        BY <2>2 DEF DownloadChunk
      <3>2. PICK p \in Parts : p = fetching
        BY <1>1, <3>1 DEF PartsInv
      <3>3. Whole(p) \in Nat /\ part[p] \in Nat /\ part[p] + 1 <= Whole(p)
        BY <1>1, <3>1, <3>2, TablesTyped DEF PartsInv
      <3> QED
        BY <1>1, <3>1, <3>2, <3>3 DEF PartsInv
    <2>3. CASE DownloadEnds
      BY <1>1, <2>3 DEF DownloadEnds, PartsInv
    <2> QED
      BY <2>1, <2>2, <2>3
  <1>4. FileInv'
    BY <1>1, <1>2 DEF FileInv, InOrder
  <1>5. ToolInv'
    BY <1>1, <1>2 DEF ToolInv, TablesRead
  <1>6. ReaderInv'
    <2>1. ReadIsOwn'
      BY <1>1, <1>2 DEF ReaderInv, ReadIsOwn
    <2> QED
      BY <1>1, <1>2, <2>1 DEF ReaderInv, TablesRead
  <1> QED
    BY <1>3, <1>4, <1>5, <1>6 DEF LoaderIInv

-------------------------------------------------------------------------------
(* Steps of the converter.                                                    *)

\* What is in the buffer fits into the file.
LEMMA PendingFits ==
  ASSUME FileInv, ToolInv, Running
  PROVE  /\ place <= Len(cells) /\ place + Len(pending) <= Total
         /\ place \in Nat /\ Len(pending) \in Nat /\ Len(cells) \in Nat
  <1>1. place \in Nat /\ Len(pending) \in Nat /\ Len(cells) \in Nat
    BY DEF FileInv
  <1>2. /\ tool.at \in Stages \ {"idle"} /\ tool.next \in 0..NLayers * NExperts
    BY DEF ToolInv, Running
  <1>3. tool.next * 3 \in Nat /\ tool.next * 3 <= NEntries
    <2>1. PICK N \in Nat : N = NLayers * NExperts
      BY Sizes
    <2>2. NEntries = N * 3
      BY <2>1, Sizes
    <2>3. PICK n \in 0..N : n = tool.next
      BY <1>2, <2>1
    <2>4. n * 3 \in Nat /\ n * 3 <= N * 3
      BY <2>1, <2>3
    <2> QED
      BY <2>2, <2>3, <2>4
  <1>4. CASE tool.at = "header"
    BY <1>1, <1>4, Sizes DEF ToolInv
  <1>5. CASE tool.at = "placeholder"
    BY <1>1, <1>5, Sizes DEF ToolInv
  <1>6. CASE tool.at = "data"
    <2>1. Len(cells) = place /\ place + Len(pending) = HeaderCells + NEntries + tool.next * 3
      BY <1>6 DEF ToolInv
    <2> QED
      BY <1>1, <1>3, <2>1, Sizes
  <1>7. CASE tool.at = "index"
    <2>1. Len(cells) = Total /\ pending = <<>> /\ place = HeaderCells
      BY <1>7 DEF ToolInv
    <2> QED
      BY <1>1, <2>1, Sizes
  <1>8. CASE tool.at = "close"
    <2>1. Len(cells) = Total /\ place + Len(pending) = HeaderCells + NEntries
      BY <1>8 DEF ToolInv
    <2> QED
      BY <1>1, <2>1, Sizes
  <1> QED
    BY <1>2, <1>4, <1>5, <1>6, <1>7, <1>8 DEF Stages

LEMMA IdleTyped ==
  /\ Idle \in [at : Stages, split : Splits, next : 0..NLayers * NExperts]
  /\ Idle.at = "idle"
  <1>1. NoSplit \in Splits
    BY DEF NoSplit, Splits, Refused
  <1>2. 0 \in 0..NLayers * NExperts
    BY Sizes
  <1> QED
    BY <1>1, <1>2 DEF Idle, Stages

LEMMA StepConvert == LoaderIInv /\ Convert => FileInv' /\ ToolInv'
  <1> SUFFICES ASSUME LoaderIInv, Convert PROVE FileInv' /\ ToolInv'
    OBVIOUS
  <1>1. /\ PartsInv /\ FileInv /\ fetching' = 0 /\ part' = part
        /\ tool' = [at |-> "header", split |-> SplitOpened, next |-> 0]
        /\ present' = TRUE /\ cells' = <<>> /\ pending' = <<>> /\ place' = 0
    BY DEF LoaderIInv, Convert, diskVars
  <1>2. SplitOpened \in Splits /\ TablesRead(SplitOpened)
    BY <1>1, SplitOpenedIsRead
  <1>3. FileInv'
    BY <1>1 DEF FileInv, InOrder
  <1>4. 0 \in 0..NLayers * NExperts
    BY Sizes
  <1>5. tool' \in [at : Stages, split : Splits, next : 0..NLayers * NExperts]
    BY <1>1, <1>2, <1>4 DEF Stages
  <1>6. tool'.at = "header" /\ tool'.split = SplitOpened
    BY <1>1
  <1>7. TablesRead(tool.split)'
    BY <1>1, <1>2, <1>6 DEF TablesRead
  <1> QED
    BY <1>1, <1>3, <1>5, <1>6, <1>7 DEF ToolInv

\* What a step of the converter that only fills its buffer leaves to be shown.
LEMMA StepWrite ==
  ASSUME LoaderIInv, NEW cs \in Seq(FileCells), Write(cs), NEW stage \in Stages \ {"idle"},
         NEW next \in 0..NLayers * NExperts, Running,
         tool' = [tool EXCEPT !.at = stage, !.next = next],
         UNCHANGED <<place, bit1Vars, diskVars>>,
         \A j \in DOMAIN cs : cs[j] \in CellsAt(place + Len(pending) + j, Len(cells) = Total),
         stage \in {"placeholder", "data"} => Len(cells) = place,
         stage = "placeholder" => next = 0 /\ place + Len(pending) + Len(cs) = HeaderCells,
         stage = "data" => place + Len(pending) + Len(cs) = HeaderCells + NEntries + next * 3,
         stage = "close" => /\ Len(cells) = Total
                            /\ place + Len(pending) + Len(cs) = HeaderCells + NEntries,
         stage \notin {"header", "index"}
  PROVE  FileInv' /\ ToolInv'
  <1>1. /\ FileInv /\ ToolInv /\ pending' = pending \o cs
        /\ UNCHANGED <<place, present, cells, part, fetching>>
    BY DEF LoaderIInv, Write, bit1Vars, diskVars
  <1>2. FileInv' /\ Len(pending') = Len(pending) + Len(cs)
    BY <1>1, BufferGrows
  <1>3. /\ tool' \in [at : Stages, split : Splits, next : 0..NLayers * NExperts]
        /\ tool'.at = stage /\ tool'.split = tool.split /\ tool'.next = next
    BY <1>1 DEF ToolInv
  <1>4. present /\ fetching = 0 /\ TablesRead(tool.split)
    BY <1>1 DEF ToolInv, Running
  <1>5. TablesRead(tool.split)'
    BY <1>1, <1>3, <1>4 DEF TablesRead
  <1>6. place \in Nat /\ Len(pending) \in Nat /\ Len(cs) \in Nat
    BY <1>1 DEF FileInv
  <1>7. place + Len(pending') = place + Len(pending) + Len(cs)
    BY <1>2, <1>6
  <1> QED
    BY <1>1, <1>2, <1>3, <1>4, <1>5, <1>7 DEF ToolInv

LEMMA StepWriteHeader == LoaderIInv /\ WriteHeader => FileInv' /\ ToolInv'
  <1> SUFFICES ASSUME LoaderIInv, WriteHeader PROVE FileInv' /\ ToolInv'
    OBVIOUS
  <1>1. /\ FileInv /\ ToolInv /\ tool.at = "header" /\ Write(<<Header>>)
        /\ tool' = [tool EXCEPT !.at = "placeholder"]
        /\ UNCHANGED <<place, bit1Vars, diskVars>>
    BY DEF LoaderIInv, WriteHeader
  <1>2. place \in Nat /\ Len(pending) \in Nat /\ place + Len(pending) = 0 /\ Len(cells) = place
    BY <1>1 DEF FileInv, ToolInv
  <1>3. Header \in CellsAt(1, FALSE) /\ Header \in CellsAt(1, TRUE) /\ Header \in FileCells
    <2>1. Header \in CellsAt(1, FALSE) /\ Header \in CellsAt(1, TRUE)
      BY Sizes DEF CellsAt
    <2>2. 1 \in Nat \ {0} /\ TRUE \in BOOLEAN
      OBVIOUS
    <2> QED
      BY <2>1, <2>2, CellsAreTyped
  <1>4. tool' = [tool EXCEPT !.at = "placeholder", !.next = tool.next]
    BY <1>1 DEF ToolInv
  <1>5. <<Header>> \in Seq(FileCells) /\ Len(<<Header>>) = 1
    BY <1>3
  <1>6. \A j \in DOMAIN <<Header>> :
          <<Header>>[j] \in CellsAt(place + Len(pending) + j, Len(cells) = Total)
    <2> TAKE j \in DOMAIN <<Header>>
    <2>1. j = 1 /\ place + Len(pending) + j = 1
      BY <1>2
    <2>2. Header \in CellsAt(1, Len(cells) = Total)
      <3>1. CASE Len(cells) = Total
        BY <1>3, <3>1
      <3>2. CASE Len(cells) # Total
        BY <1>3, <3>2
      <3> QED
        BY <3>1, <3>2
    <2> QED
      BY <2>1, <2>2
  <1>7. Running /\ tool.next \in 0..NLayers * NExperts /\ tool.next = 0
    BY <1>1 DEF Running, ToolInv
  <1>8. place + Len(pending) + Len(<<Header>>) = HeaderCells
    BY <1>2, <1>5, Sizes
  <1> QED
    BY <1>1, <1>2, <1>4, <1>5, <1>6, <1>7, <1>8, StepWrite DEF Stages

\* The entries of an index, empty or filled, at their positions.
LEMMA IndexCells ==
  ASSUME NEW x \in [1..NEntries -> {Unfilled} \cup {Filled(k) : k \in 1..NEntries}],
         NEW filled \in BOOLEAN,
         \A k \in 1..NEntries : x[k] \in {Unfilled} \cup (IF filled THEN {Filled(k)} ELSE {})
  PROVE  /\ x \in Seq(FileCells) /\ Len(x) = NEntries /\ DOMAIN x = 1..NEntries
         /\ \A k \in 1..NEntries : x[k] \in CellsAt(1 + k, filled)
  <1>1. \A k \in 1..NEntries : x[k] \in CellsAt(1 + k, filled)
    <2> TAKE k \in 1..NEntries
    <2>0. NEntries \in Nat /\ HeaderCells = 1
      BY Sizes
    <2>1. 1 + k # HeaderCells /\ 1 + k <= HeaderCells + NEntries /\ (1 + k) - HeaderCells = k
      BY <2>0
    <2>2. PICK i : i = 1 + k
      OBVIOUS
    <2>3. i # HeaderCells /\ i <= HeaderCells + NEntries /\ i - HeaderCells = k
      BY <2>1, <2>2
    <2>4. CellsAt(i, filled) = {Unfilled} \cup (IF filled THEN {Filled(k)} ELSE {})
      BY <2>3 DEF CellsAt
    <2> QED
      BY <2>2, <2>4
  <1>2. \A k \in 1..NEntries : x[k] \in FileCells
    <2> TAKE k \in 1..NEntries
    <2>1. 1 + k \in Nat \ {0}
      OBVIOUS
    <2> QED
      BY <1>1, <2>1, CellsAreTyped
  <1>3. x \in [1..NEntries -> FileCells] /\ NEntries \in Nat
    BY <1>2, Sizes
  <1> QED
    BY <1>1, <1>3

LEMMA StepWritePlaceholder == LoaderIInv /\ WritePlaceholder => FileInv' /\ ToolInv'
  <1> SUFFICES ASSUME LoaderIInv, WritePlaceholder PROVE FileInv' /\ ToolInv'
    OBVIOUS
  <1>1. /\ FileInv /\ ToolInv /\ tool.at = "placeholder" /\ Write(Placeholder)
        /\ tool' = [tool EXCEPT !.at = "data"]
        /\ UNCHANGED <<place, bit1Vars, diskVars>>
    BY DEF LoaderIInv, WritePlaceholder
  <1>2. /\ place \in Nat /\ Len(pending) \in Nat /\ place + Len(pending) = 1 /\ Len(cells) = place
    BY <1>1, Sizes DEF FileInv, ToolInv
  <1>3. tool.next = 0
    BY <1>1 DEF ToolInv
  <1>4. tool' = [tool EXCEPT !.at = "data", !.next = tool.next]
    BY <1>1 DEF ToolInv
  <1>5. /\ Placeholder \in Seq(FileCells) /\ Len(Placeholder) = NEntries
        /\ DOMAIN Placeholder = 1..NEntries
        /\ \A f \in BOOLEAN : \A k \in 1..NEntries : Placeholder[k] \in CellsAt(1 + k, f)
    <2>1. Placeholder \in [1..NEntries -> {Unfilled} \cup {Filled(k) : k \in 1..NEntries}]
      BY DEF Placeholder
    <2>2. \A k \in 1..NEntries : Placeholder[k] = Unfilled
      BY DEF Placeholder
    <2> HIDE DEF Placeholder
    <2>3. ASSUME NEW f \in BOOLEAN
          PROVE  /\ Placeholder \in Seq(FileCells) /\ Len(Placeholder) = NEntries
                 /\ DOMAIN Placeholder = 1..NEntries
                 /\ \A k \in 1..NEntries : Placeholder[k] \in CellsAt(1 + k, f)
      BY <2>1, <2>2, IndexCells
    <2> QED
      BY <2>3
  <1>6. \A j \in DOMAIN Placeholder :
          Placeholder[j] \in CellsAt(place + Len(pending) + j, Len(cells) = Total)
    <2>1. (Len(cells) = Total) \in BOOLEAN
      OBVIOUS
    <2>2. place + Len(pending) = 1
      BY <1>2
    <2> QED
      BY <1>5, <2>1, <2>2, Zenon
  <1>7. Running /\ tool.next \in 0..NLayers * NExperts
    BY <1>1 DEF Running, ToolInv
  <1>8. place + Len(pending) + Len(Placeholder) = HeaderCells + NEntries + tool.next * 3
    BY <1>2, <1>3, <1>5, Sizes
  <1>9. /\ LoaderIInv /\ Placeholder \in Seq(FileCells) /\ Write(Placeholder) /\ Len(cells) = place
        /\ UNCHANGED <<place, bit1Vars, diskVars>>
        /\ "data" \in Stages \ {"idle"}
    BY <1>1, <1>2, <1>5 DEF Stages
  <1> HIDE DEF Placeholder
  <1> QED
    BY <1>4, <1>6, <1>7, <1>8, <1>9, StepWrite

\* The matrices of an expert that the converter has read, quantised, at their
\* positions.
LEMMA ExpertCells ==
  ASSUME NEW n \in 0..NLayers * NExperts - 1, NEW filled \in BOOLEAN,
         NEW cs \in [Mats -> [kind : {"q1"}, layer : Int, mat : Int, expert : Int]],
         \A m \in Mats : cs[m] = Q1(Raw(<<n \div NExperts, m>>, n % NExperts))
  PROVE  /\ cs \in Seq(FileCells) /\ Len(cs) = 3 /\ DOMAIN cs = 1..3
         /\ \A m \in 1..3 : cs[m] \in CellsAt(HeaderCells + NEntries + n * 3 + m, filled)
  <1>1. n \in Nat /\ n * 3 \in Nat /\ NEntries \in Nat /\ HeaderCells = 1
    BY Sizes
  <1>2. ASSUME NEW m \in 1..3
        PROVE  cs[m] \in CellsAt(HeaderCells + NEntries + n * 3 + m, filled)
    <2> DEFINE i == HeaderCells + NEntries + n * 3 + m
    <2>1. i # HeaderCells /\ ~ (i <= HeaderCells + NEntries)
          /\ i - HeaderCells - NEntries = n * 3 + m
      BY <1>1
    <2>2. CellsAt(i, filled) = {Data(n * 3 + m)}
      <3> HIDE DEF i
      <3> QED
        BY <2>1 DEF CellsAt
    <2>3. ((n * 3 + m) - 1) \div 3 = n /\ (((n * 3 + m) - 1) % 3) + 1 = m
      <3>1. (n * 3 + m) - 1 = n * 3 + (m - 1) /\ m - 1 \in 0..3 - 1
        BY <1>1
      <3> QED
        BY <1>1, <3>1
    <2>4. Data(n * 3 + m) = Q1(Raw(<<n \div NExperts, m>>, n % NExperts))
      BY <2>3, Zenon DEF Data
    <2>5. cs[m] = Q1(Raw(<<n \div NExperts, m>>, n % NExperts))
      BY DEF Mats
    <2> QED
      BY <2>2, <2>4, <2>5
  <1>3. \A m \in 1..3 : cs[m] \in FileCells
    <2> TAKE m \in 1..3
    <2>1. HeaderCells + NEntries + n * 3 + m \in Nat \ {0}
      BY <1>1
    <2> QED
      BY <1>2, <2>1, CellsAreTyped
  <1>4. cs \in [1..3 -> FileCells]
    BY <1>3 DEF Mats
  <1>5. cs \in Seq(FileCells) /\ Len(cs) = 3 /\ DOMAIN cs = 1..3
    <2>1. 3 \in Nat
      OBVIOUS
    <2> QED
      BY <1>4, <2>1, FunctionIsSeq, Zenon
  <1> QED
    BY <1>2, <1>5

LEMMA StepWriteExpert == LoaderIInv /\ WriteExpert => FileInv' /\ ToolInv'
  <1> SUFFICES ASSUME LoaderIInv, WriteExpert PROVE FileInv' /\ ToolInv'
    OBVIOUS
  <1> DEFINE cs == [m \in Mats |-> Q1(CHOOSE w \in ToolRead(m) : TRUE)]
             n  == tool.next
  <1>1. /\ PartsInv /\ FileInv /\ ToolInv /\ tool.at = "data" /\ n < NLayers * NExperts
        /\ Write(cs)
        /\ tool' = [tool EXCEPT !.next = n + 1]
        /\ UNCHANGED <<place, bit1Vars, diskVars>>
        /\ \A m \in Mats : ToolRead(m) # {}
    BY DEF LoaderIInv, WriteExpert
  <1>2. n \in 0..NLayers * NExperts - 1 /\ n + 1 \in 0..NLayers * NExperts
    <2>1. PICK N \in Nat : N = NLayers * NExperts
      BY Sizes
    <2>2. n \in 0..N /\ n < N
      BY <1>1, <2>1 DEF ToolInv
    <2>3. n \in 0..N - 1 /\ n + 1 \in 0..N
      BY <2>2
    <2> QED
      BY <2>1, <2>3
  <1>3. /\ tool.split \in Splits /\ TablesRead(tool.split) /\ Running
        /\ Len(cells) = place /\ place + Len(pending) = HeaderCells + NEntries + n * 3
        /\ place \in Nat /\ Len(pending) \in Nat
    BY <1>1 DEF ToolInv, Running, FileInv
  <1>4. n \div NExperts \in Int /\ n % NExperts \in ExpertIds
    BY <1>2, Sizes DEF ExpertIds
  <1>5. ASSUME NEW m \in Mats
        PROVE  /\ cs[m] = Q1(Raw(<<n \div NExperts, m>>, n % NExperts))
               /\ cs[m] \in [kind : {"q1"}, layer : Int, mat : Int, expert : Int]
    <2>1. PICK w \in ToolRead(m) : cs[m] = Q1(w)
      BY <1>1
    <2>2. w = Raw(<<n \div NExperts, m>>, n % NExperts)
      BY <1>1, <1>3, <1>4, <2>1, GgufReadsOwn DEF ToolRead, ToolLayer, ToolExpert
    <2>3. cs[m] = Q1(Raw(<<n \div NExperts, m>>, n % NExperts))
      BY <2>1, <2>2
    <2> HIDE DEF cs, n
    <2>4. n % NExperts \in Int /\ m \in Int
      BY <1>4, Sizes DEF ExpertIds, Mats
    <2> QED
      BY <1>4, <2>3, <2>4 DEF Q1, Raw
  <1>6. cs \in [Mats -> [kind : {"q1"}, layer : Int, mat : Int, expert : Int]]
    BY <1>5
  <1>7. tool' = [tool EXCEPT !.at = "data", !.next = n + 1]
    BY <1>1 DEF ToolInv
  <1> HIDE DEF cs, n
  <1>8. /\ cs \in Seq(FileCells) /\ Len(cs) = 3 /\ DOMAIN cs = 1..3
        /\ \A m \in 1..3 :
             cs[m] \in CellsAt(HeaderCells + NEntries + n * 3 + m, Len(cells) = Total)
    <2>1. (Len(cells) = Total) \in BOOLEAN
      OBVIOUS
    <2>2. \A m \in Mats : cs[m] = Q1(Raw(<<n \div NExperts, m>>, n % NExperts))
      BY <1>5
    <2> QED
      BY <1>2, <1>6, <2>1, <2>2, ExpertCells
  <1>9. \A j \in DOMAIN cs : cs[j] \in CellsAt(place + Len(pending) + j, Len(cells) = Total)
    <2>1. place + Len(pending) = HeaderCells + NEntries + n * 3
      BY <1>3
    <2> QED
      BY <1>8, <2>1, Zenon
  <1>10. place + Len(pending) + Len(cs) = HeaderCells + NEntries + (n + 1) * 3
    <2>1. n \in Nat /\ (n + 1) * 3 = n * 3 + 3
      BY <1>2
    <2> QED
      BY <1>3, <1>8, <2>1, Sizes
  <1>11. "data" \in Stages \ {"idle"} /\ UNCHANGED <<place, bit1Vars, diskVars>> /\ Write(cs)
    BY <1>1 DEF Stages
  <1> QED
    BY <1>2, <1>3, <1>7, <1>8, <1>9, <1>10, <1>11, StepWrite

LEMMA StepWriteIndex == LoaderIInv /\ WriteIndex => FileInv' /\ ToolInv'
  <1> SUFFICES ASSUME LoaderIInv, WriteIndex PROVE FileInv' /\ ToolInv'
    OBVIOUS
  <1>1. /\ FileInv /\ ToolInv /\ tool.at = "index" /\ Write(FilledIndex)
        /\ tool' = [tool EXCEPT !.at = "close"]
        /\ UNCHANGED <<place, bit1Vars, diskVars>>
    BY DEF LoaderIInv, WriteIndex
  <1>2. pending = <<>> /\ place = 1 /\ Len(cells) = Total /\ place + Len(pending) = 1
    BY <1>1, Sizes DEF ToolInv
  <1>3. tool' = [tool EXCEPT !.at = "close", !.next = tool.next]
    BY <1>1 DEF ToolInv
  <1>4. /\ FilledIndex \in Seq(FileCells) /\ Len(FilledIndex) = NEntries
        /\ DOMAIN FilledIndex = 1..NEntries
        /\ \A k \in 1..NEntries : FilledIndex[k] \in CellsAt(1 + k, TRUE)
    <2>1. FilledIndex \in [1..NEntries -> {Unfilled} \cup {Filled(k) : k \in 1..NEntries}]
      BY DEF FilledIndex
    <2>2. \A k \in 1..NEntries :
            FilledIndex[k] \in {Unfilled} \cup (IF TRUE THEN {Filled(k)} ELSE {})
      BY DEF FilledIndex
    <2>3. TRUE \in BOOLEAN
      OBVIOUS
    <2> HIDE DEF FilledIndex
    <2> QED
      BY <2>1, <2>2, <2>3, IndexCells
  <1>5. \A j \in DOMAIN FilledIndex :
          FilledIndex[j] \in CellsAt(place + Len(pending) + j, Len(cells) = Total)
    <2>1. (Len(cells) = Total) = TRUE
      BY <1>2
    <2> QED
      BY <1>2, <1>4, <2>1, Zenon
  <1>6. Running /\ tool.next \in 0..NLayers * NExperts
    BY <1>1 DEF Running, ToolInv
  <1>7. place + Len(pending) + Len(FilledIndex) = HeaderCells + NEntries
    BY <1>2, <1>4, Sizes
  <1>8. /\ LoaderIInv /\ FilledIndex \in Seq(FileCells) /\ Write(FilledIndex)
        /\ Len(cells) = Total /\ UNCHANGED <<place, bit1Vars, diskVars>>
        /\ "close" \in Stages \ {"idle"}
    BY <1>1, <1>2, <1>4 DEF Stages
  <1> HIDE DEF FilledIndex
  <1> QED
    BY <1>3, <1>5, <1>6, <1>7, <1>8, StepWrite

LEMMA StepSpill == LoaderIInv /\ Spill => FileInv' /\ ToolInv'
  <1> SUFFICES ASSUME LoaderIInv, Spill PROVE FileInv' /\ ToolInv'
    OBVIOUS
  <1> DEFINE cs == <<Head(pending)>>
  <1>1. /\ FileInv /\ ToolInv /\ Running /\ pending # <<>>
        /\ cells' = Written(cells, place, cs)
        /\ pending' = Tail(pending) /\ place' = place + 1
        /\ UNCHANGED <<tool, present, part, fetching>>
    BY DEF LoaderIInv, Spill, diskVars
  <1>2. /\ place <= Len(cells) /\ place + Len(pending) <= Total
        /\ place \in Nat /\ Len(pending) \in Nat /\ Len(cells) \in Nat
    BY <1>1, PendingFits
  <1>3. /\ Len(pending) >= 1 /\ pending \in Seq(FileCells) /\ Head(pending) = pending[1]
        /\ Tail(pending) \in Seq(FileCells) /\ Len(Tail(pending)) = Len(pending) - 1
        /\ \A j \in 1..Len(pending) - 1 : Tail(pending)[j] = pending[j + 1]
    BY <1>1 DEF FileInv
  <1>4. /\ cs \in Seq(FileCells) /\ Len(cs) = 1 /\ Len(cs) <= Len(pending)
        /\ \A j \in DOMAIN cs : cs[j] = pending[j]
    BY <1>3
  <1> HIDE DEF cs
  <1>5. /\ cells' \in Seq(FileCells)
        /\ Len(cells') = IF Len(cells) >= place + 1 THEN Len(cells) ELSE place + 1
        /\ Len(cells) = Total => Len(cells') = Total
        /\ InOrder(cells', 0, Len(cells') = Total)
    BY <1>1, <1>2, <1>4, FileGrows
  <1>6. InOrder(pending', place', Len(cells') = Total)
    <2>1. ASSUME NEW j \in DOMAIN pending'
          PROVE  pending'[j] \in CellsAt(place' + j, Len(cells') = Total)
      <3>1. j \in 1..Len(pending) - 1
        BY <1>1, <1>3
      <3>2. pending'[j] = pending[j + 1] /\ j + 1 \in DOMAIN pending
        BY <1>1, <1>3, <3>1
      <3>3. pending[j + 1] \in CellsAt(place + (j + 1), Len(cells) = Total)
        BY <1>1, <3>2 DEF FileInv, InOrder
      <3>4. place + (j + 1) = place' + j
        BY <1>1, <1>2, <3>1
      <3>5. pending'[j] \in CellsAt(place' + j, Len(cells) = Total)
        BY <3>2, <3>3, <3>4
      <3>6. CASE Len(cells') = Total
        <4>1. pending'[j] \in CellsAt(place' + j, TRUE)
          BY <3>5, CellsGrow
        <4> QED
          BY <3>6, <4>1
      <3>7. CASE Len(cells') # Total
        <4>1. Len(cells) # Total
          BY <1>5, <3>7
        <4> QED
          BY <3>5, <3>7, <4>1
      <3> QED
        BY <3>6, <3>7
    <2> QED
      BY <2>1 DEF InOrder
  <1>7. FileInv'
    <2>1. present \in BOOLEAN /\ present
      BY <1>1 DEF FileInv, ToolInv, Running
    <2> QED
      BY <1>1, <1>2, <1>3, <1>5, <1>6, <2>1 DEF FileInv
  <1>8. place' + Len(pending') = place + Len(pending)
    BY <1>1, <1>2, <1>3
  <1>9. tool.at \in {"header", "placeholder", "data"} => Len(cells') = place'
    BY <1>1, <1>2, <1>5 DEF ToolInv
  <1>10. tool.at # "index" /\ tool.at # "idle"
    BY <1>1 DEF ToolInv, Running
  <1>11. TablesRead(tool.split)' <=> TablesRead(tool.split)
    BY <1>1 DEF TablesRead
  <1> QED
    BY <1>1, <1>5, <1>7, <1>8, <1>9, <1>10, <1>11 DEF ToolInv

LEMMA StepSeekBack == LoaderIInv /\ SeekBack => FileInv' /\ ToolInv'
  <1> SUFFICES ASSUME LoaderIInv, SeekBack PROVE FileInv' /\ ToolInv'
    OBVIOUS
  <1>1. /\ FileInv /\ ToolInv /\ tool.at = "data" /\ tool.next = NLayers * NExperts
        /\ cells' = Written(cells, place, pending)
        /\ pending' = <<>> /\ place' = HeaderCells
        /\ tool' = [tool EXCEPT !.at = "index"]
        /\ UNCHANGED <<present, part, fetching>>
    BY DEF LoaderIInv, SeekBack, diskVars
  <1>2. Running /\ pending \in Seq(FileCells)
    BY <1>1 DEF Running, FileInv
  <1>3. /\ place <= Len(cells) /\ place + Len(pending) <= Total
        /\ place \in Nat /\ Len(pending) \in Nat /\ Len(cells) \in Nat
    BY <1>1, <1>2, PendingFits
  <1>4. /\ cells' \in Seq(FileCells)
        /\ Len(cells') = IF Len(cells) >= place + Len(pending) THEN Len(cells)
                         ELSE place + Len(pending)
        /\ InOrder(cells', 0, Len(cells') = Total)
    BY <1>1, <1>2, <1>3, FileGrows
  <1>5. Len(cells') = Total
    <2>1. Len(cells) = place /\ place + Len(pending) = HeaderCells + NEntries + tool.next * 3
      BY <1>1 DEF ToolInv
    <2>2. tool.next * 3 = NEntries
      BY <1>1, Sizes
    <2>3. place + Len(pending) = Total
      BY <2>1, <2>2 DEF Total
    <2> QED
      BY <1>3, <1>4, <2>1, <2>3
  <1>6. HeaderCells \in Nat /\ present /\ fetching = 0 /\ TablesRead(tool.split)
    BY <1>1, Sizes DEF ToolInv
  <1>7. FileInv'
    BY <1>1, <1>4, <1>6 DEF FileInv, InOrder
  <1>8. /\ tool' \in [at : Stages, split : Splits, next : 0..NLayers * NExperts]
        /\ tool'.at = "index" /\ tool'.split = tool.split
    BY <1>1 DEF ToolInv, Stages
  <1>9. TablesRead(tool.split)'
    BY <1>1, <1>6, <1>8 DEF TablesRead
  <1> QED
    BY <1>1, <1>5, <1>6, <1>7, <1>8, <1>9 DEF ToolInv

\* A converter that is gone leaves what is in the file, and loses the buffer.
LEMMA StepGone ==
  ASSUME FileInv', tool' = Idle, pending' = <<>>, place' = 0
  PROVE  ToolInv'
  BY IdleTyped DEF ToolInv

LEMMA StepFinish == LoaderIInv /\ (Finish \/ Abort \/ Kill) => FileInv' /\ ToolInv'
  <1> SUFFICES ASSUME LoaderIInv, Finish \/ Abort \/ Kill PROVE FileInv' /\ ToolInv'
    OBVIOUS
  <1>1. /\ FileInv /\ ToolInv /\ Running
        /\ tool' = Idle /\ pending' = <<>> /\ place' = 0
    BY DEF LoaderIInv, Finish, Abort, Kill, Running
  <1>2. /\ place <= Len(cells) /\ place + Len(pending) <= Total /\ present
        /\ Len(pending) \in Nat
    BY <1>1, PendingFits DEF ToolInv, Running
  <1>3. ASSUME NEW n \in 0..Len(pending),
               cells' = Written(cells, place, SubSeq(pending, 1, n)), present' = TRUE
        PROVE  FileInv'
    <2> DEFINE cs == SubSeq(pending, 1, n)
    <2>1. /\ cs \in Seq(FileCells) /\ Len(cs) <= Len(pending)
          /\ \A j \in DOMAIN cs : cs[j] = pending[j]
      BY <1>1, <1>2 DEF FileInv
    <2>2. cells' = Written(cells, place, cs)
      BY <1>3
    <2> HIDE DEF cs
    <2>3. cells' \in Seq(FileCells) /\ InOrder(cells', 0, Len(cells') = Total)
      BY <1>1, <1>2, <2>1, <2>2, FileGrows
    <2> QED
      BY <1>1, <1>3, <2>3 DEF FileInv, InOrder
  <1>4. FileInv'
    <2>1. CASE Finish
      <3>1. PICK n \in 0..Len(pending) : cells' = Written(cells, place, SubSeq(pending, 1, n))
        BY <2>1 DEF Finish
      <3>2. present' = TRUE
        BY <1>1, <1>2, <2>1 DEF Finish, FileInv
      <3> QED
        BY <1>3, <3>1, <3>2
    <2>2. CASE Abort /\ ctx.bit1
      BY <1>3, <2>2 DEF Abort
    <2>3. CASE Abort /\ ~ ctx.bit1
      <3>1. present' = FALSE /\ cells' = <<>>
        BY <2>3 DEF Abort
      <3>2. \A at, filled : InOrder(<<>>, at, filled)
        BY DEF InOrder
      <3>3. InOrder(cells, 0, Len(cells) = Total)' /\ InOrder(pending, place, Len(cells) = Total)'
        BY <1>1, <3>1, <3>2
      <3>4. present' \in BOOLEAN /\ (cells' # <<>> => present')
        BY <3>1
      <3>5. cells' \in Seq(FileCells) /\ pending' \in Seq(FileCells) /\ place' \in Nat
        BY <1>1, <3>1
      <3> QED
        BY <3>3, <3>4, <3>5 DEF FileInv
    <2>4. CASE Kill
      <3>1. present' = present /\ cells' = cells
        BY <2>4 DEF Kill, bit1Vars
      <3>2. InOrder(cells, 0, Len(cells) = Total)'
        <4>1. InOrder(cells, 0, Len(cells) = Total)
          BY <1>1 DEF FileInv
        <4> QED
          BY <3>1, <4>1 DEF InOrder
      <3>3. InOrder(pending, place, Len(cells) = Total)'
        BY <1>1 DEF InOrder
      <3> QED
        BY <1>1, <3>1, <3>2, <3>3 DEF FileInv
    <2> QED
      BY <2>1, <2>2, <2>3, <2>4
  <1> QED
    BY <1>1, <1>4, StepGone

LEMMA ConverterSteps ==
  ASSUME LoaderIInv,
         \/ Convert \/ WriteHeader \/ WritePlaceholder \/ WriteExpert \/ Spill
         \/ SeekBack \/ WriteIndex \/ Finish \/ Abort \/ Kill
  PROVE  LoaderIInv'
  <1>1. UNCHANGED <<part, fetching, ctx, index, job, got>>
    BY DEF Convert, WriteHeader, WritePlaceholder, WriteExpert, Spill, SeekBack, WriteIndex,
           Finish, Abort, Kill, diskVars, readerVars
  <1>2. PartsInv'
    BY <1>1 DEF LoaderIInv, PartsInv
  <1>3. ReaderInv'
    <2>1. ReadIsOwn'
      BY <1>1 DEF LoaderIInv, ReaderInv, ReadIsOwn
    <2> QED
      BY <1>1, <2>1 DEF LoaderIInv, ReaderInv, TablesRead
  <1>4. FileInv' /\ ToolInv'
    BY StepConvert, StepWriteHeader, StepWritePlaceholder, StepWriteExpert, StepSpill,
       StepSeekBack, StepWriteIndex, StepFinish
  <1> QED
    BY <1>2, <1>3, <1>4 DEF LoaderIInv

-------------------------------------------------------------------------------
(* Steps of the engine.                                                       *)

\* The matrix that is asked for, as the file in use holds it.
Asked(m) ==
  IF ctx.bit1 THEN Q1(Raw(<<job.layer, m>>, job.expert)) ELSE Raw(<<job.layer, m>>, job.expert)

\* The data section of a file holds each matrix at its position.
LEMMA DataAt ==
  ASSUME FileInv, NEW k \in 1..NEntries, NEW o \in DOMAIN cells,
         o = HeaderCells + NEntries + k
  PROVE  cells[o] = Data(k)
  <1>1. NEntries \in Nat /\ HeaderCells = 1 /\ k \in Nat
    BY Sizes
  <1>2. PICK i : i = 0 + o
    OBVIOUS
  <1>3. PICK full \in BOOLEAN : full = (Len(cells) = Total)
    OBVIOUS
  <1>4. cells[o] \in CellsAt(i, full)
    <2>1. cells[o] \in CellsAt(0 + o, Len(cells) = Total)
      BY DEF FileInv, InOrder
    <2> QED
      BY <1>2, <1>3, <2>1, Zenon
  <1>5. i # HeaderCells /\ ~ (i <= HeaderCells + NEntries) /\ i - HeaderCells - NEntries = k
    BY <1>1, <1>2
  <1>6. CellsAt(i, full) = {Data(k)}
    BY <1>5 DEF CellsAt
  <1> QED
    BY <1>4, <1>6

\* An entry of the index delivers the data of its expert, or nothing.
LEMMA Bit1ReadsOwn ==
  ASSUME FileInv, NEW k \in 1..NEntries, NEW ent \in {Unfilled, Filled(k)},
         NEW w \in Bit1Read(ent)
  PROVE  w = Data(k)
  <1>1. ent = Filled(k)
    BY DEF Bit1Read, Unfilled
  <1>2. ent.offset = HeaderCells + NEntries + k /\ ent.size = 1
    BY <1>1 DEF Filled, Offset
  <1>3. PICK i \in {ent.offset} \cap DOMAIN cells : w = cells[i]
    BY <1>2 DEF Bit1Read
  <1>4. i = HeaderCells + NEntries + k /\ i \in DOMAIN cells
    BY <1>2, <1>3
  <1> QED
    BY <1>3, <1>4, DataAt

LEMMA DeliversAsked ==
  ASSUME LoaderIInv, job # NoJob, NEW m \in Mats, NEW w \in Delivered(m)
  PROVE  w = Asked(m) /\ w \in Matrices
  <1>1. /\ PartsInv /\ FileInv /\ ReaderInv
        /\ ctx.at = "ready" /\ job.layer \in Layers /\ job.expert \in ExpertIds
        /\ TablesRead(ctx.split) /\ ctx.split \in Splits
    BY DEF LoaderIInv, ReaderInv
  <1>4. w = Asked(m)
    <2>1. CASE ctx.bit1
      <3>1. PICK k \in 1..NEntries : /\ k = Nth(job.layer, job.expert, m)
                                    /\ Data(k) = Q1(Raw(<<job.layer, m>>, job.expert))
        BY <1>1, NthIsData
      <3>2. Len(index) = NEntries /\ DOMAIN index = 1..NEntries
        BY <1>1, <2>1 DEF ReaderInv
      <3>3. index[k] \in {Unfilled, Filled(k)}
        BY <1>1, <3>2 DEF ReaderInv
      <3>4. w \in Bit1Read(index[k])
        BY <2>1, <3>1 DEF Delivered
      <3>5. w = Data(k)
        BY <1>1, <3>3, <3>4, Bit1ReadsOwn
      <3> QED
        BY <2>1, <3>1, <3>5 DEF Asked
    <2>2. CASE ~ ctx.bit1
      <3>1. w \in GgufRead(ctx.split, <<job.layer, m>>, job.expert)
        BY <2>2 DEF Delivered
      <3>2. w = Raw(<<job.layer, m>>, job.expert)
        BY <1>1, <3>1, GgufReadsOwn
      <3> QED
        BY <2>2, <3>2 DEF Asked
    <2> QED
      BY <2>1, <2>2
  <1>5. job.layer \in Int /\ job.expert \in Int /\ m \in Int
    BY <1>1, Sizes DEF Layers, ExpertIds, Mats
  <1>6. Raw(<<job.layer, m>>, job.expert) \in Matrices
        /\ Q1(Raw(<<job.layer, m>>, job.expert)) \in Matrices
    BY <1>5 DEF Raw, Q1, Matrices
  <1> QED
    BY <1>4, <1>6 DEF Asked

\* Nothing is being read between two jobs.
LEMMA NothingReadIsOwn == ASSUME got' = <<>> PROVE ReadIsOwn'
  BY DEF ReadIsOwn

LEMMA StepEngineLoad == LoaderIInv /\ EngineLoad => ReaderInv'
  <1> SUFFICES ASSUME LoaderIInv, EngineLoad PROVE ReaderInv'
    OBVIOUS
  <1>1. /\ PartsInv /\ ReaderInv /\ ctx.at = "none" /\ fetching = 0
        /\ ctx' = [at    |-> IF present /\ cells # <<>> THEN "indexing" ELSE "ready",
                   split |-> SplitOpened,
                   bit1  |-> present /\ cells # <<>>]
        /\ UNCHANGED <<index, job, got, part, fetching>>
    BY DEF LoaderIInv, EngineLoad, diskVars
  <1>2. SplitOpened \in Splits /\ TablesRead(SplitOpened)
    BY <1>1, SplitOpenedIsRead
  <1>3. /\ ctx'.at \in {"indexing", "ready"} /\ ctx'.split = SplitOpened
        /\ ctx'.at = "ready" => ~ ctx'.bit1
        /\ ctx' \in [at : {"none", "indexing", "ready"}, split : Splits, bit1 : BOOLEAN]
    <2>1. PICK b \in BOOLEAN : b = (present /\ cells # <<>>)
      OBVIOUS
    <2>2. ctx' = [at |-> IF b THEN "indexing" ELSE "ready", split |-> SplitOpened, bit1 |-> b]
      BY <1>1, <2>1, Zenon
    <2> QED
      BY <1>2, <2>2
  <1>4. TablesRead(ctx.split)'
    BY <1>1, <1>2, <1>3 DEF TablesRead
  <1>5. job = NoJob /\ got' = <<>> /\ index' = <<>>
    BY <1>1 DEF ReaderInv
  <1>6. ReadIsOwn'
    BY <1>5, NothingReadIsOwn
  <1>7. /\ index \in Seq(FileCells) /\ Len(index) <= NEntries /\ got \in Seq(Matrices) /\ Len(got) <= 3
        /\ \A i \in DOMAIN index : index[i] \in {Unfilled, Filled(i)}
    BY <1>1 DEF ReaderInv
  <1> QED
    BY <1>1, <1>3, <1>4, <1>5, <1>6, <1>7 DEF ReaderInv

LEMMA StepIndexing == LoaderIInv /\ (ReadIndexEntry \/ RefuseBit1 \/ AcceptBit1) => ReaderInv'
  <1> SUFFICES ASSUME LoaderIInv, ReadIndexEntry \/ RefuseBit1 \/ AcceptBit1 PROVE ReaderInv'
    OBVIOUS
  <1>1. /\ ReaderInv /\ FileInv /\ ctx.at = "indexing"
        /\ UNCHANGED <<job, got, part, fetching>>
    BY DEF LoaderIInv, ReadIndexEntry, RefuseBit1, AcceptBit1, diskVars
  <1>2. /\ job = NoJob /\ got = <<>> /\ fetching = 0 /\ TablesRead(ctx.split)
        /\ index \in Seq(FileCells) /\ Len(index) <= NEntries /\ Len(index) \in Nat
        /\ \A i \in DOMAIN index : index[i] \in {Unfilled, Filled(i)}
        /\ ctx \in [at : {"none", "indexing", "ready"}, split : Splits, bit1 : BOOLEAN]
    BY <1>1 DEF ReaderInv
  <1>3. ReadIsOwn' /\ got' \in Seq(Matrices) /\ Len(got') <= 3
    BY <1>1, <1>2, NothingReadIsOwn
  <1>4. CASE ReadIndexEntry
    <2> DEFINE i == HeaderCells + Len(index) + 1
    <2>1. /\ Len(index) < NEntries /\ Len(cells) > HeaderCells + Len(index)
          /\ index' = Append(index, cells[i]) /\ ctx' = ctx
      BY <1>4 DEF ReadIndexEntry
    <2>2. i \in DOMAIN cells /\ i \in Nat \ {0}
      <3>1. Len(cells) \in Nat /\ DOMAIN cells = 1..Len(cells) /\ HeaderCells = 1
        BY <1>1, Sizes DEF FileInv
      <3> QED
        BY <1>2, <2>1, <3>1
    <2>3. cells[i] \in CellsAt(0 + i, Len(cells) = Total)
      BY <1>1, <2>2 DEF FileInv, InOrder
    <2>4. cells[i] \in CellsAt(0 + i, TRUE)
      BY <2>3, CellsGrow
    <2>5. /\ 0 + i # HeaderCells /\ 0 + i <= HeaderCells + NEntries
          /\ (0 + i) - HeaderCells = Len(index) + 1
      BY <1>2, <2>1, Sizes
    <2>6. CellsAt(0 + i, TRUE) = {Unfilled, Filled(Len(index) + 1)}
      <3> HIDE DEF i
      <3>1. (0 + i) - HeaderCells = Len(index) + 1
        BY <2>5
      <3> QED
        BY <2>5, <3>1 DEF CellsAt
    <2>7. cells[i] \in {Unfilled, Filled(Len(index) + 1)} /\ cells[i] \in FileCells
      <3>1. 0 + i \in Nat \ {0}
        BY <2>2
      <3> QED
        BY <2>4, <2>6, <3>1, CellsAreTyped
    <2>8. PICK x \in FileCells : x = cells[i] /\ x \in {Unfilled, Filled(Len(index) + 1)}
      BY <2>7
    <2>9. index' = Append(index, x)
      BY <2>1, <2>8
    <2>10. /\ index' \in Seq(FileCells) /\ Len(index') = Len(index) + 1
           /\ \A j \in 1..Len(index) : index'[j] = index[j]
           /\ index'[Len(index) + 1] = x
      BY <1>2, <2>9
    <2>11. \A j \in DOMAIN index' : index'[j] \in {Unfilled, Filled(j)}
      <3> TAKE j \in DOMAIN index'
      <3>1. j \in 1..Len(index) \/ j = Len(index) + 1
        BY <1>2, <2>10
      <3>2. CASE j \in 1..Len(index)
        BY <1>2, <2>10, <3>2
      <3>3. CASE j = Len(index) + 1
        BY <2>8, <2>10, <3>3
      <3> QED
        BY <3>1, <3>2, <3>3
    <2>12. Len(index') <= NEntries
      BY <1>2, <2>1, <2>10, Sizes
    <2>13. TablesRead(ctx.split)'
      BY <1>1, <1>2, <2>1 DEF TablesRead
    <2> QED
      BY <1>1, <1>2, <1>3, <2>1, <2>10, <2>11, <2>12, <2>13 DEF ReaderInv
  <1>5. CASE RefuseBit1
    <2>1. ctx' = [ctx EXCEPT !.at = "ready", !.bit1 = FALSE] /\ index' = <<>>
      BY <1>5 DEF RefuseBit1
    <2>2. /\ ctx' \in [at : {"none", "indexing", "ready"}, split : Splits, bit1 : BOOLEAN]
          /\ ctx'.at = "ready" /\ ~ ctx'.bit1 /\ ctx'.split = ctx.split
      BY <1>2, <2>1
    <2>3. TablesRead(ctx.split)'
      BY <1>1, <1>2, <2>2 DEF TablesRead
    <2>4. index' \in Seq(FileCells) /\ Len(index') <= NEntries
      BY <2>1, Sizes
    <2>5. \A j \in DOMAIN index' : index'[j] \in {Unfilled, Filled(j)}
      BY <2>1
    <2> QED
      BY <1>1, <1>2, <1>3, <2>2, <2>3, <2>4, <2>5 DEF ReaderInv
  <1>6. CASE AcceptBit1
    <2>1. ctx' = [ctx EXCEPT !.at = "ready"] /\ index' = index /\ Len(index) = NEntries
      BY <1>6 DEF AcceptBit1
    <2>2. /\ ctx' \in [at : {"none", "indexing", "ready"}, split : Splits, bit1 : BOOLEAN]
          /\ ctx'.at = "ready" /\ ctx'.split = ctx.split
      BY <1>2, <2>1
    <2>3. TablesRead(ctx.split)'
      BY <1>1, <1>2, <2>2 DEF TablesRead
    <2> QED
      BY <1>1, <1>2, <1>3, <2>1, <2>2, <2>3 DEF ReaderInv
  <1> QED
    BY <1>4, <1>5, <1>6

\* A context that is freed, a job that begins and one that ends.
LEMMA StepJob ==
  ASSUME LoaderIInv,
         EngineFree \/ EndRead \/ \E l \in Layers, e \in ExpertIds : StartRead(l, e)
  PROVE  ReaderInv'
  <1>1. ReaderInv /\ UNCHANGED <<part, fetching>>
    BY DEF LoaderIInv, EngineFree, EndRead, StartRead, diskVars
  <1>2. /\ index \in Seq(FileCells) /\ Len(index) <= NEntries
        /\ \A i \in DOMAIN index : index[i] \in {Unfilled, Filled(i)}
        /\ ctx \in [at : {"none", "indexing", "ready"}, split : Splits, bit1 : BOOLEAN]
        /\ got \in Seq(Matrices) /\ Len(got) <= 3
    BY <1>1 DEF ReaderInv
  <1>3. CASE EngineFree
    <2>1. ctx' = NoCtx /\ index' = <<>> /\ job = NoJob /\ UNCHANGED <<job, got>>
      BY <1>3 DEF EngineFree
    <2>2. ctx' \in [at : {"none", "indexing", "ready"}, split : Splits, bit1 : BOOLEAN]
          /\ ctx'.at = "none"
      <3>1. NoSplit \in Splits
        BY DEF NoSplit, Splits, Refused
      <3> QED
        BY <2>1, <3>1 DEF NoCtx
    <2>3. got' = <<>> /\ ReadIsOwn'
      BY <1>1, <2>1, NothingReadIsOwn DEF ReaderInv
    <2>4. index' \in Seq(FileCells) /\ Len(index') <= NEntries
      BY <2>1, Sizes
    <2>5. \A j \in DOMAIN index' : index'[j] \in {Unfilled, Filled(j)}
      BY <2>1
    <2> QED
      BY <1>1, <1>2, <2>1, <2>2, <2>3, <2>4, <2>5 DEF ReaderInv
  <1>4. CASE EndRead
    <2>1. job' = NoJob /\ got' = <<>> /\ UNCHANGED <<ctx, index>>
      BY <1>4 DEF EndRead
    <2>2. ReadIsOwn' /\ got' \in Seq(Matrices) /\ Len(got') <= 3
      BY <2>1, NothingReadIsOwn
    <2>3. TablesRead(ctx.split)' <=> TablesRead(ctx.split)
      BY <1>1, <2>1 DEF TablesRead
    <2> QED
      BY <1>1, <1>2, <2>1, <2>2, <2>3 DEF ReaderInv
  <1>5. ASSUME NEW l \in Layers, NEW e \in ExpertIds, StartRead(l, e) PROVE ReaderInv'
    <2>1. /\ job' = [layer |-> l, expert |-> e] /\ got' = <<>> /\ ctx.at = "ready"
          /\ UNCHANGED <<ctx, index>>
      BY <1>5 DEF StartRead
    <2>2. ReadIsOwn' /\ got' \in Seq(Matrices) /\ Len(got') <= 3
      BY <2>1, NothingReadIsOwn
    <2>3. TablesRead(ctx.split)' <=> TablesRead(ctx.split)
      BY <1>1, <2>1 DEF TablesRead
    <2>4. job' \in [layer : Layers, expert : ExpertIds]
      BY <2>1
    <2> QED
      BY <1>1, <1>2, <2>1, <2>2, <2>3, <2>4 DEF ReaderInv
  <1> QED
    BY <1>3, <1>4, <1>5

LEMMA StepReadMatrix == LoaderIInv /\ ReadMatrix => ReaderInv'
  <1> SUFFICES ASSUME LoaderIInv, ReadMatrix PROVE ReaderInv'
    OBVIOUS
  <1>1. /\ ReaderInv /\ job # NoJob /\ Len(got) < 3
        /\ UNCHANGED <<ctx, index, job, part, fetching>>
        /\ got \in Seq(Matrices) /\ Len(got) \in Nat
    BY DEF LoaderIInv, ReadMatrix, ReaderInv, diskVars
  <1>2. PICK w \in Delivered(Len(got) + 1) : got' = Append(got, w)
    BY DEF ReadMatrix
  <1>3. Len(got) + 1 \in Mats
    BY <1>1 DEF Mats
  <1>4. w = Asked(Len(got) + 1) /\ w \in Matrices
    BY <1>1, <1>2, <1>3, DeliversAsked
  <1>5. /\ got' \in Seq(Matrices) /\ Len(got') = Len(got) + 1 /\ got' # <<>>
        /\ \A m \in 1..Len(got) : got'[m] = got[m]
        /\ got'[Len(got) + 1] = w
    BY <1>1, <1>2, <1>4
  <1>6. ASSUME NEW m \in DOMAIN got' PROVE got'[m] = Asked(m)
    <2>1. m \in 1..Len(got) \/ m = Len(got) + 1
      BY <1>1, <1>5
    <2>2. CASE m \in 1..Len(got)
      <3>1. got[m] = Asked(m)
        BY <1>1, <2>2 DEF ReaderInv, ReadIsOwn, Asked
      <3> QED
        BY <1>5, <2>2, <3>1
    <2>3. CASE m = Len(got) + 1
      BY <1>4, <1>5, <2>3
    <2> QED
      BY <2>1, <2>2, <2>3
  <1>7. ReadIsOwn'
    BY <1>1, <1>6 DEF ReadIsOwn, Asked
  <1>8. Len(got') <= 3
    BY <1>1, <1>5
  <1>9. TablesRead(ctx.split)' <=> TablesRead(ctx.split)
    BY <1>1 DEF TablesRead
  <1> QED
    BY <1>1, <1>5, <1>7, <1>8, <1>9 DEF ReaderInv

LEMMA EngineSteps ==
  ASSUME LoaderIInv,
         \/ EngineLoad \/ ReadIndexEntry \/ RefuseBit1 \/ AcceptBit1 \/ EngineFree
         \/ \E l \in Layers, e \in ExpertIds : StartRead(l, e)
         \/ ReadMatrix \/ EndRead
  PROVE  LoaderIInv'
  <1>1. UNCHANGED <<part, fetching, present, cells, tool, pending, place>>
    BY DEF EngineLoad, ReadIndexEntry, RefuseBit1, AcceptBit1, EngineFree, StartRead, ReadMatrix,
           EndRead, diskVars, bit1Vars, toolVars
  <1>2. PartsInv' /\ FileInv' /\ ToolInv'
    BY <1>1 DEF LoaderIInv, PartsInv, FileInv, InOrder, ToolInv, TablesRead
  <1>3. ReaderInv'
    BY StepEngineLoad, StepIndexing, StepJob, StepReadMatrix
  <1> QED
    BY <1>2, <1>3 DEF LoaderIInv

-------------------------------------------------------------------------------
LEMMA InitLoader == Init => LoaderIInv
  <1> SUFFICES ASSUME Init PROVE LoaderIInv
    OBVIOUS
  <1>1. PartsInv
    BY TablesTyped DEF Init, PartsInv
  <1>2. FileInv
    <2>1. cells = <<>> /\ pending = <<>> /\ place = 0 /\ present = FALSE
      BY DEF Init
    <2>2. \A at, filled : InOrder(<<>>, at, filled)
      BY DEF InOrder
    <2>3. InOrder(cells, 0, Len(cells) = Total) /\ InOrder(pending, place, Len(cells) = Total)
      BY <2>1, <2>2
    <2>4. cells \in Seq(FileCells) /\ pending \in Seq(FileCells) /\ place \in Nat
      BY <2>1
    <2>5. present \in BOOLEAN /\ (cells # <<>> => present)
      BY <2>1
    <2> QED
      BY <2>3, <2>4, <2>5 DEF FileInv
  <1>3. ToolInv
    BY IdleTyped DEF Init, ToolInv
  <1>4. NoCtx \in [at : {"none", "indexing", "ready"}, split : Splits, bit1 : BOOLEAN]
        /\ NoCtx.at = "none"
    BY DEF NoCtx, NoSplit, Splits, Refused
  <1>5. ReaderInv
    BY <1>4, Sizes DEF Init, ReaderInv, ReadIsOwn
  <1> QED
    BY <1>1, <1>2, <1>3, <1>5 DEF LoaderIInv

LEMMA NextLoader == LoaderIInv /\ [Next]_vars => LoaderIInv'
  <1> SUFFICES ASSUME LoaderIInv, [Next]_vars PROVE LoaderIInv'
    OBVIOUS
  <1>1. CASE UNCHANGED vars
    <2>1. UNCHANGED <<part, fetching, present, cells, tool, pending, place, ctx, index, job, got>>
      BY <1>1 DEF vars, diskVars, bit1Vars, toolVars, readerVars
    <2>2. PartsInv' /\ FileInv' /\ ToolInv'
      BY <2>1 DEF LoaderIInv, PartsInv, FileInv, InOrder, ToolInv, TablesRead
    <2>3. ReadIsOwn'
      BY <2>1 DEF LoaderIInv, ReaderInv, ReadIsOwn
    <2>4. ReaderInv'
      BY <2>1, <2>3 DEF LoaderIInv, ReaderInv, TablesRead
    <2> QED
      BY <2>2, <2>4 DEF LoaderIInv
  <1> QED
    BY <1>1, DownloadSteps, ConverterSteps, EngineSteps DEF Next

\* What is in the files, the buffer, the tables and the index, wherever the
\* downloads, the converter and the engine are.
THEOREM LoaderInvariant == LoaderSpec => []LoaderIInv
  BY InitLoader, NextLoader, PTL DEF LoaderSpec

\* Every matrix the engine reads is the one it asked for, whatever is missing
\* of the parts, while a converter rewrites the file that is in use, and after
\* one that was stopped at any point.
THEOREM ReadsAreOwn == LoaderSpec => []LoaderInv
  <1>1. LoaderIInv => LoaderInv
    <2> SUFFICES ASSUME LoaderIInv PROVE LoaderInv
      OBVIOUS
    <2>1. LoaderTypeOK
      BY DEF LoaderIInv, PartsInv, FileInv, ToolInv, ReaderInv, LoaderTypeOK, Stages
    <2> QED
      BY <2>1 DEF LoaderInv, LoaderIInv, ReaderInv
  <1> QED
    BY <1>1, LoaderInvariant, PTL

\* An entry of the index that is filled points to the data of its expert, which
\* is in the file: entries are written when all data has been.
THEOREM EntriesPointToData == LoaderSpec => []IndexedIsPresent
  <1>1. LoaderIInv => IndexedIsPresent
    <2> SUFFICES ASSUME FileInv, NEW l \in Layers, NEW e \in ExpertIds, NEW m \in Mats,
                        NEW i, i = HeaderCells + Nth(l, e, m), i \in DOMAIN cells,
                        cells[i].size # 0
                 PROVE  /\ cells[i].offset \in DOMAIN cells
                        /\ cells[cells[i].offset] = Q1(Raw(<<l, m>>, e))
      BY DEF LoaderIInv, IndexedIsPresent
    <2>1. PICK k \in 1..NEntries : k = Nth(l, e, m) /\ Data(k) = Q1(Raw(<<l, m>>, e))
      BY NthIsData
    <2>2. cells[i] \in CellsAt(0 + i, Len(cells) = Total)
      BY DEF FileInv, InOrder
    <2>3. /\ 0 + i # HeaderCells /\ 0 + i <= HeaderCells + NEntries
          /\ (0 + i) - HeaderCells = k
      BY <2>1, Sizes
    <2>4. cells[i] \in {Unfilled} \cup (IF Len(cells) = Total THEN {Filled(k)} ELSE {})
      BY <2>2, <2>3 DEF CellsAt
    <2>5. Len(cells) = Total /\ cells[i] = Filled(k)
      BY <2>4 DEF Unfilled
    <2>6. PICK o \in Nat : o = HeaderCells + NEntries + k /\ cells[i].offset = o
      BY <2>5, Sizes DEF Filled, Offset
    <2>7. o \in DOMAIN cells
      <3>1. cells \in Seq(FileCells) /\ DOMAIN cells = 1..Len(cells)
        BY DEF FileInv
      <3>2. o \in 1..Total
        BY <2>6, Sizes
      <3> QED
        BY <2>5, <3>1, <3>2, Zenon
    <2>8. cells[o] = Data(k)
      BY <2>6, <2>7, DataAt
    <2> QED
      BY <2>1, <2>6, <2>7, <2>8
  <1> QED
    BY <1>1, LoaderInvariant, PTL
===============================================================================
