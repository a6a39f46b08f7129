----------------------------- MODULE BackendsProofs -----------------------------
(* Proofs about the two backends, for any shape of either: the cache of the   *)
(* reference transformer holds its context, and every layer of a pass attends *)
(* to all of it (KvCache); a layer of the DeepSeek context attends to the     *)
(* prompt's own rows and multiplies by its own weights, for any number of     *)
(* failing reads (Ds4Forward); and so does whichever of the two an engine     *)
(* has (Backends). The router of the transformer picks the largest scores,    *)
(* for any number of experts.                                                 *)
EXTENDS Backends, SequenceTheorems, Recursion, TLAPS

-------------------------------------------------------------------------------
(* The reference transformer and its cache.                                   *)

CacheType ==
  /\ max_ctx \in Contexts /\ n_tokens \in Nat
  /\ k \in [1..Size -> Cells] /\ v \in [1..Size -> Cells]
  /\ layer \in 0..Layers
  /\ row \in [tok : Tokens, pos : Nat] \cup {Zero}
  /\ ~ Idle => row \in [tok : Tokens, pos : Nat]
  /\ t_k \in Cells /\ t_v \in Cells
  /\ context \in Seq(Entries)

\* The row of a token at a layer that an array of a kind has, and the layers
\* that have lost it.
Own(kind, e, l) == IF kind = "k" THEN Key(e, l) ELSE Value(e, l)
NotHeld(kind, e) == IF kind = "k" THEN e.noKey ELSE e.noValue
Kinds == {"k", "v"}

\* The rows of a context that the first len cells of an array hold for a cache of
\* c positions, n of them counted, from the cell behind the offset on.
Holds(kind, a, offset, len, c, ctx, n) ==
  \A l \in LayersOf, i \in DOMAIN ctx :
    l \notin NotHeld(kind, ctx[i]) =>
      /\ i <= n /\ i <= c
      /\ offset + l * c + i <= len => a[offset + l * c + i] = Own(kind, ctx[i], l)

\* What was written of a file holds the context of the cache it was saved from.
FileIsContext ==
  /\ file.hdr = 2 => file.n_tokens \in Nat
  /\ file.hdr = 3 =>
       /\ file.ctx \in Contexts /\ file.n_tokens \in Nat
       /\ file.cells \in Seq(Cells)
       /\ file.context \in Seq(Entries)
       /\ file.n_tokens <= Len(file.context)
       /\ Holds("k", file.cells, 0, Len(file.cells), file.ctx, file.context, file.n_tokens)
       /\ Holds("v", file.cells, Layers * file.ctx, Len(file.cells), file.ctx,
                file.context, file.n_tokens)

\* No row is held of a position past the end of the cache.
HeldWithinArrays ==
  \A i \in DOMAIN context : i > max_ctx =>
    context[i].noKey = LayersOf /\ context[i].noValue = LayersOf

\* A pass under way is for a token of the context, or for one past the end of
\* the cache; its activations are the token's until a step of it fails.
PassIsForToken ==
  ~ Idle =>
    /\ n_tokens <= max_ctx
    /\ t_x \in {row.tok, "spoilt"}
    /\ row.pos < max_ctx =>
         /\ row.pos + 1 \in DOMAIN context
         /\ context[row.pos + 1].tok = row.tok /\ context[row.pos + 1].pos = row.pos

KvInductive ==
  /\ CacheType
  /\ FileIsContext
  /\ HeldWithinArrays
  /\ PassIsForToken
  /\ CacheHoldsContext
  /\ AttendsToContext

-------------------------------------------------------------------------------
(* Cells.                                                                     *)

LEMMA SizesTyped ==
  ASSUME NEW c \in Contexts
  PROVE  c \in Nat \ {0} /\ Layers \in Nat \ {0} /\ Layers * c \in Nat \ {0}
  BY KvAssumption

\* A position of a layer has a cell in the arrays.
LEMMA CellInArray ==
  ASSUME NEW c \in Nat \ {0}, NEW l \in 0..Layers - 1, NEW i \in 1..c
  PROVE  l * c + i \in 1..Layers * c
  <1>1. Layers \in Nat \ {0}
    BY KvAssumption
  <1>2. (l + 1) * c <= Layers * c
    BY <1>1
  <1>3. (l + 1) * c = l * c + c
    BY <1>1
  <1>4. l * c >= 0 /\ l * c \in Int /\ Layers * c \in Int
    BY <1>1
  <1> QED
    BY <1>2, <1>3, <1>4

\* No two positions share a cell.
LEMMA CellsDiffer ==
  ASSUME NEW c \in Nat \ {0}, NEW l \in Nat, NEW m \in Nat,
         NEW i \in 1..c, NEW j \in 1..c, l * c + i = m * c + j
  PROVE  l = m /\ i = j
  <1>1. CASE l < m
    <2>1. (l + 1) * c <= m * c
      BY <1>1
    <2>2. (l + 1) * c = l * c + c
      OBVIOUS
    <2> QED
      BY <2>1, <2>2
  <1>2. CASE m < l
    <2>1. (m + 1) * c <= l * c
      BY <1>2
    <2>2. (m + 1) * c = m * c + c
      OBVIOUS
    <2> QED
      BY <2>1, <2>2
  <1> QED
    BY <1>1, <1>2

\* The layer and the position of a cell.
LEMMA CellCoordinates ==
  ASSUME NEW c \in Nat \ {0}, NEW l \in Nat, NEW i \in 1..c
  PROVE  ((l * c + i) - 1) \div c = l /\ ((l * c + i) - 1) % c = i - 1
  OBVIOUS

\* A cache that holds its context holds it from the first cell of each array.
LEMMA HoldsBetweenPasses ==
  ASSUME CacheType, HeldWithinArrays, CacheHoldsContext, Idle
  PROVE  /\ n_tokens <= Len(context)
         /\ Holds("k", k, 0, Size, max_ctx, context, n_tokens)
         /\ Holds("v", v, 0, Size, max_ctx, context, n_tokens)
  <1>1. max_ctx \in Nat \ {0} /\ Layers \in Nat \ {0} /\ context \in Seq(Entries)
    BY SizesTyped DEF CacheType
  <1>2. ASSUME NEW l \in LayersOf, NEW i \in DOMAIN context
        PROVE  /\ Cell(l, i - 1) = 0 + l * max_ctx + i /\ i \in Nat /\ l < layer
               /\ i > max_ctx => l \in context[i].noKey /\ l \in context[i].noValue
    BY <1>1 DEF Cell, LayersOf, HeldWithinArrays, Idle
  <1>3. ASSUME NEW l \in LayersOf, NEW i \in DOMAIN context, l \notin context[i].noKey
        PROVE  /\ i <= n_tokens /\ i <= max_ctx
               /\ k[0 + l * max_ctx + i] = Key(context[i], l)
    BY <1>1, <1>2, <1>3 DEF CacheHoldsContext
  <1>4. ASSUME NEW l \in LayersOf, NEW i \in DOMAIN context, l \notin context[i].noValue
        PROVE  /\ i <= n_tokens /\ i <= max_ctx
               /\ v[0 + l * max_ctx + i] = Value(context[i], l)
    BY <1>1, <1>2, <1>4 DEF CacheHoldsContext
  <1>5. n_tokens <= Len(context)
    BY DEF CacheHoldsContext
  <1> QED
    BY <1>3, <1>4, <1>5 DEF Holds, Own, NotHeld

\* Between two passes there is nothing else to show.
LEMMA InductiveBetweenPasses ==
  ASSUME CacheType', FileIsContext', Idle', attended' = <<>>,
         n_tokens' <= Len(context'),
         Holds("k", k', 0, Layers * max_ctx', max_ctx', context', n_tokens'),
         Holds("v", v', 0, Layers * max_ctx', max_ctx', context', n_tokens')
  PROVE  KvInductive'
  <1>1. max_ctx' \in Nat \ {0} /\ Layers \in Nat \ {0} /\ context' \in Seq(Entries)
    BY SizesTyped DEF CacheType
  <1>2. ASSUME NEW l \in LayersOf, NEW i \in DOMAIN context'
        PROVE  /\ Cell(l, i - 1)' = 0 + l * max_ctx' + i
               /\ l \in Nat /\ i \in Nat
               /\ i <= max_ctx' => 0 + l * max_ctx' + i <= Layers * max_ctx'
    <2>1. l \in 0..Layers - 1 /\ i \in Nat \ {0}
      BY <1>1 DEF LayersOf
    <2>2. ASSUME i <= max_ctx' PROVE l * max_ctx' + i <= Layers * max_ctx'
      <3>1. i \in 1..max_ctx'
        BY <2>1, <2>2
      <3>2. l * max_ctx' + i \in 1..Layers * max_ctx'
        BY <1>1, <2>1, <3>1, CellInArray
      <3> QED
        BY <3>2
    <2> QED
      BY <1>1, <2>1, <2>2 DEF Cell
  <1>3. ASSUME NEW l \in LayersOf, NEW i \in DOMAIN context', l \notin context'[i].noKey
        PROVE  i <= n_tokens' /\ i <= max_ctx' /\ k'[Cell(l, i - 1)'] = Key(context'[i], l)
    <2>1. /\ i <= n_tokens' /\ i <= max_ctx'
          /\ 0 + l * max_ctx' + i <= Layers * max_ctx' =>
               k'[0 + l * max_ctx' + i] = Key(context'[i], l)
      BY <1>3 DEF Holds, Own, NotHeld
    <2> QED
      BY <1>2, <2>1
  <1>4. ASSUME NEW l \in LayersOf, NEW i \in DOMAIN context', l \notin context'[i].noValue
        PROVE  i <= n_tokens' /\ i <= max_ctx' /\ v'[Cell(l, i - 1)'] = Value(context'[i], l)
    <2>1. /\ i <= n_tokens' /\ i <= max_ctx'
          /\ 0 + l * max_ctx' + i <= Layers * max_ctx' =>
               v'[0 + l * max_ctx' + i] = Value(context'[i], l)
      BY <1>4 DEF Holds, Own, NotHeld
    <2> QED
      BY <1>2, <2>1
  <1>5. CacheHoldsContext'
    BY <1>3, <1>4 DEF CacheHoldsContext, Key, Value
  <1>6. HeldWithinArrays'
    <2>1. ASSUME NEW i \in DOMAIN context', i > max_ctx'
          PROVE  context'[i].noKey = LayersOf /\ context'[i].noValue = LayersOf
      <3>1. context'[i] \in Entries /\ ~ (i <= max_ctx')
        BY <1>1, <2>1
      <3>2. context'[i].noKey \subseteq LayersOf /\ context'[i].noValue \subseteq LayersOf
        BY <3>1 DEF Entries
      <3>3. \A l \in LayersOf : l \in context'[i].noKey /\ l \in context'[i].noValue
        BY <1>3, <1>4, <3>1
      <3> QED
        BY <3>2, <3>3
    <2> QED
      BY <2>1 DEF HeldWithinArrays
  <1>7. PassIsForToken' /\ AttendsToContext'
    BY DEF PassIsForToken, AttendsToContext
  <1> QED
    BY <1>5, <1>6, <1>7 DEF KvInductive

-------------------------------------------------------------------------------
LEMMA ZeroIsCell == Zero \in Cells
  BY DEF Cells, Zero

LEMMA NothingHeld ==
  ASSUME NEW kind, NEW a, NEW offset, NEW len, NEW c, NEW n
  PROVE  Holds(kind, a, offset, len, c, <<>>, n)
  BY DEF Holds

LEMMA ForeignIsEntry == Foreign \in Entries
  BY DEF Foreign, Entries

\* The layers of an entry that has lost all of its rows hold none.
LEMMA ForeignNotHeld ==
  ASSUME NEW kind \in Kinds
  PROVE  NotHeld(kind, Foreign) = LayersOf
  BY DEF Foreign, NotHeld

LEMMA InitInductive == Init => KvInductive
  <1> SUFFICES ASSUME Init PROVE KvInductive
    OBVIOUS
  <1>1. Layers \in Nat \ {0}
    BY KvAssumption
  <1>2. CacheType
    BY <1>1, ZeroIsCell DEF Init, CacheType, Idle
  <1>3. CacheHoldsContext /\ HeldWithinArrays
    BY DEF Init, CacheHoldsContext, HeldWithinArrays
  <1>4. FileIsContext
    BY DEF Init, FileIsContext, NoFile
  <1> QED
    BY <1>2, <1>3, <1>4 DEF Init, KvInductive, PassIsForToken, AttendsToContext, Idle

LEMMA ResetInductive == KvInductive /\ Reset => KvInductive'
  <1> SUFFICES ASSUME KvInductive, Reset PROVE KvInductive'
    OBVIOUS
  <1>1. CacheType' /\ Idle'
    BY DEF Reset, passState, KvInductive, CacheType, Idle, Size
  <1>2. FileIsContext'
    BY DEF Reset, KvInductive, FileIsContext, Holds, Own, NotHeld, Key, Value
  <1>3. context' = <<>> /\ n_tokens' = 0 /\ attended' = <<>>
    BY DEF Reset
  <1>4. n_tokens' <= Len(context')
    BY <1>3
  <1>5. /\ Holds("k", k', 0, Layers * max_ctx', max_ctx', context', n_tokens')
        /\ Holds("v", v', 0, Layers * max_ctx', max_ctx', context', n_tokens')
    BY <1>3, NothingHeld
  <1> QED
    BY <1>1, <1>2, <1>3, <1>4, <1>5, InductiveBetweenPasses

\* A fresh cache is empty.
LEMMA FreshInductive ==
  ASSUME KvInductive, NEW c \in Contexts, Restart(c)
  PROVE  KvInductive'
  <1>1. c \in Nat \ {0} /\ Layers \in Nat \ {0}
    BY SizesTyped
  <1>2. CacheType' /\ Idle'
    BY <1>1, ZeroIsCell DEF Restart, Fresh, CacheType, Idle, Size
  <1>3. FileIsContext'
    BY DEF Restart, KvInductive, FileIsContext, Holds, Own, NotHeld, Key, Value
  <1>4. context' = <<>> /\ n_tokens' = 0 /\ attended' = <<>>
    BY DEF Restart, Fresh
  <1>5. n_tokens' <= Len(context')
    BY <1>4
  <1>6. /\ Holds("k", k', 0, Layers * max_ctx', max_ctx', context', n_tokens')
        /\ Holds("v", v', 0, Layers * max_ctx', max_ctx', context', n_tokens')
    BY <1>4, NothingHeld
  <1> QED
    BY <1>2, <1>3, <1>4, <1>5, <1>6, InductiveBetweenPasses

-------------------------------------------------------------------------------
(* Compression.                                                               *)

\* What is left of a length: the positions that are kept fit into it.
LEMMA ShorterLength ==
  ASSUME NEW n \in Nat, NEW step \in Nat \ {0, 1}, n >= 2
  PROVE  /\ Shorter(n, step) \in 1..n
         /\ \A i \in 1..Shorter(n, step) : (i - 1) * step \in 0..n - 1
  <1>1. Shorter(n, step) \in Int
    BY DEF Shorter
  <1> DEFINE q == Shorter(n, step)
  <1>2. q * step <= n + step - 1 /\ n + step - 1 < (q + 1) * step
    BY DEF Shorter
  <1> HIDE DEF q
  <1>3. q \in Int
    BY <1>1 DEF q
  <1>4. (q + 1) * step = q * step + step
    BY <1>3
  <1>5. q >= 1
    <2>1. ASSUME q <= 0 PROVE FALSE
      <3>1. q * step <= 0
        BY <1>3, <2>1
      <3> QED
        BY <1>2, <1>3, <1>4, <3>1
    <2> QED
      BY <1>3, <2>1
  <1>6. q <= n
    <2>1. ASSUME q > n PROVE FALSE
      <3>1. (n + 1) * step <= q * step
        BY <1>3, <2>1
      <3>2. (n + 1) * step = n * step + step
        OBVIOUS
      <3>3. n * step >= n * 2
        OBVIOUS
      <3> QED
        BY <1>2, <1>3, <3>1, <3>2, <3>3
    <2> QED
      BY <1>3, <2>1
  <1>7. ASSUME NEW i \in 1..q PROVE (i - 1) * step \in 0..n - 1
    <2>1. (i - 1) * step <= (q - 1) * step
      BY <1>3
    <2>2. (q - 1) * step = q * step - step
      BY <1>3
    <2>3. (i - 1) * step >= 0 /\ (i - 1) * step \in Int
      BY <1>3
    <2> QED
      BY <1>2, <1>3, <2>1, <2>2, <2>3
  <1> QED
    BY <1>3, <1>5, <1>6, <1>7 DEF q

\* An array that is squeezed holds the rows that are kept, in order.
LEMMA SqueezedHolds ==
  ASSUME NEW kind \in Kinds, NEW a \in [1..Size -> Cells], max_ctx \in Contexts,
         NEW step \in Ratios, context \in Seq(Entries), n_tokens \in Nat,
         n_tokens <= Len(context), n_tokens <= max_ctx, n_tokens >= 2,
         Holds(kind, a, 0, Size, max_ctx, context, n_tokens)
  PROVE  /\ Squeezed(a, step) \in [1..Size -> Cells]
         /\ Holds(kind, Squeezed(a, step), 0, Size, max_ctx,
                  [i \in 1..Shorter(n_tokens, step) |-> context[(i - 1) * step + 1]],
                  Shorter(n_tokens, step))
  <1> DEFINE left == [i \in 1..Shorter(n_tokens, step) |-> context[(i - 1) * step + 1]]
  <1>1. max_ctx \in Nat \ {0} /\ Layers \in Nat \ {0} /\ Size \in Nat \ {0}
    BY SizesTyped DEF Size
  <1>2. step \in Nat \ {0, 1}
    BY KvAssumption
  <1>3. ASSUME NEW l \in LayersOf, NEW p \in 0..n_tokens - 1
        PROVE  /\ Get(a, l, p) \in Cells
               /\ l \notin NotHeld(kind, context[p + 1]) =>
                    Get(a, l, p) = Own(kind, context[p + 1], l)
    <2>1. p + 1 \in 1..max_ctx /\ p + 1 \in DOMAIN context /\ l \in 0..Layers - 1
      BY <1>1 DEF LayersOf
    <2>2. Cell(l, p) = 0 + l * max_ctx + (p + 1) /\ Cell(l, p) \in 1..Size
      BY <1>1, <2>1, CellInArray DEF Cell, Size
    <2>3. Get(a, l, p) \in Cells
      BY <2>2 DEF Get
    <2>4. ASSUME l \notin NotHeld(kind, context[p + 1])
          PROVE  Get(a, l, p) = Own(kind, context[p + 1], l)
      <3>1. 0 + l * max_ctx + (p + 1) <= Size
        BY <1>1, <2>2
      <3>2. a[0 + l * max_ctx + (p + 1)] = Own(kind, context[p + 1], l)
        BY <2>1, <2>4, <3>1 DEF Holds
      <3> QED
        BY <2>2, <3>2 DEF Get
    <2> QED
      BY <2>3, <2>4
  <1>4. Squeezed(a, step) \in [1..Size -> Cells]
    <2>1. ASSUME NEW i \in 1..Size, ((i - 1) % max_ctx) * step < n_tokens
          PROVE  Get(a, (i - 1) \div max_ctx, ((i - 1) % max_ctx) * step) \in Cells
      <3>1. (i - 1) \div max_ctx \in LayersOf
        <4> DEFINE d == (i - 1) \div max_ctx
        <4>1. d \in Int /\ d >= 0 /\ d * max_ctx <= i - 1
          BY <1>1
        <4> HIDE DEF d
        <4>2. ASSUME d >= Layers PROVE FALSE
          <5>1. d * max_ctx >= Layers * max_ctx
            BY <1>1, <4>1, <4>2
          <5> QED
            BY <1>1, <4>1, <5>1 DEF Size
        <4> QED
          BY <1>1, <4>1, <4>2 DEF d, LayersOf
      <3>2. ((i - 1) % max_ctx) * step \in 0..n_tokens - 1
        <4>1. (i - 1) % max_ctx \in Nat
          BY <1>1
        <4>2. ((i - 1) % max_ctx) * step \in Nat
          BY <1>2, <4>1
        <4> QED
          BY <2>1, <4>2
      <3> QED
        BY <1>3, <3>1, <3>2
    <2> QED
      BY <2>1 DEF Squeezed
  <1>5. ASSUME NEW l \in LayersOf, NEW i \in DOMAIN left, l \notin NotHeld(kind, left[i])
        PROVE  /\ i <= Shorter(n_tokens, step) /\ i <= max_ctx
               /\ Squeezed(a, step)[0 + l * max_ctx + i] = Own(kind, left[i], l)
    <2>1. /\ i \in 1..max_ctx /\ (i - 1) * step \in 0..n_tokens - 1 /\ l \in 0..Layers - 1
          /\ i <= Shorter(n_tokens, step) /\ left[i] = context[(i - 1) * step + 1]
      <3>1. i \in 1..Shorter(n_tokens, step)
        OBVIOUS
      <3>2. Shorter(n_tokens, step) \in 1..n_tokens /\ (i - 1) * step \in 0..n_tokens - 1
        BY <1>2, <3>1, ShorterLength
      <3> QED
        BY <1>1, <3>1, <3>2 DEF LayersOf
    <2> HIDE DEF left
    <2>2. l * max_ctx + i \in 1..Size
      BY <1>1, <2>1, CellInArray DEF Size
    <2>3. ((l * max_ctx + i) - 1) \div max_ctx = l /\ ((l * max_ctx + i) - 1) % max_ctx = i - 1
      <3>1. l \in Nat /\ max_ctx \in Nat \ {0} /\ i \in 1..max_ctx
        BY <1>1, <2>1
      <3> QED
        BY <3>1, CellCoordinates
    <2>4. Squeezed(a, step)[l * max_ctx + i] = Get(a, l, (i - 1) * step)
      <3> DEFINE j == l * max_ctx + i
      <3>1. j \in 1..Size /\ (j - 1) \div max_ctx = l /\ (j - 1) % max_ctx = i - 1
        BY <2>2, <2>3
      <3> HIDE DEF j
      <3>2. Squeezed(a, step)[j] = Get(a, l, (i - 1) * step)
        BY <2>1, <3>1 DEF Squeezed
      <3> QED
        BY <3>2 DEF j
    <2>5. 0 + l * max_ctx + i = l * max_ctx + i
      BY <1>1, <2>1
    <2>6. Get(a, l, (i - 1) * step) = Own(kind, left[i], l)
      BY <1>3, <1>5, <2>1
    <2> QED
      BY <2>1, <2>4, <2>5, <2>6
  <1> QED
    BY <1>4, <1>5 DEF Holds

LEMMA CompressInductive ==
  ASSUME KvInductive, NEW step \in Ratios, Compress(step)
  PROVE  KvInductive'
  <1>1. /\ CacheType /\ CacheHoldsContext /\ HeldWithinArrays /\ Idle
        /\ n_tokens >= 2 /\ n_tokens <= max_ctx
    BY DEF KvInductive, Compress, WithinArrays
  <1>2. step \in Nat \ {0, 1} /\ max_ctx \in Nat \ {0}
    BY <1>1, KvAssumption, SizesTyped DEF CacheType
  <1>3. /\ n_tokens <= Len(context)
        /\ Holds("k", k, 0, Size, max_ctx, context, n_tokens)
        /\ Holds("v", v, 0, Size, max_ctx, context, n_tokens)
    BY <1>1, HoldsBetweenPasses
  <1>4. Shorter(n_tokens, step) \in 1..n_tokens
    BY <1>1, <1>2, ShorterLength DEF CacheType
  <1>5. context' \in Seq(Entries) /\ Len(context') = Shorter(n_tokens, step)
    <2>1. \A i \in 1..Shorter(n_tokens, step) : context[(i - 1) * step + 1] \in Entries
      <3> TAKE i \in 1..Shorter(n_tokens, step)
      <3>1. (i - 1) * step \in 0..n_tokens - 1
        BY <1>1, <1>2, ShorterLength DEF CacheType
      <3>2. (i - 1) * step + 1 \in DOMAIN context
        BY <1>1, <1>3, <3>1 DEF CacheType
      <3> QED
        BY <1>1, <3>2 DEF CacheType
    <2>2. context' = [i \in 1..Shorter(n_tokens, step) |-> context[(i - 1) * step + 1]]
      BY DEF Compress
    <2> QED
      BY <1>4, <2>1, <2>2
  <1>6. /\ k' \in [1..Size -> Cells]
        /\ Holds("k", k', 0, Size, max_ctx, context', Shorter(n_tokens, step))
    BY <1>1, <1>3, SqueezedHolds DEF Compress, CacheType, Kinds
  <1>7. /\ v' \in [1..Size -> Cells]
        /\ Holds("v", v', 0, Size, max_ctx, context', Shorter(n_tokens, step))
    BY <1>1, <1>3, SqueezedHolds DEF Compress, CacheType, Kinds
  <1>8. n_tokens' = Shorter(n_tokens, step) /\ max_ctx' = max_ctx /\ attended' = <<>>
    BY DEF Compress
  <1>9. CacheType' /\ Idle'
    BY <1>1, <1>4, <1>5, <1>6, <1>7, <1>8 DEF Compress, passState, CacheType, Idle, Size
  <1>10. FileIsContext'
    BY DEF Compress, KvInductive, FileIsContext, Holds, Own, NotHeld, Key, Value
  <1>11. n_tokens' <= Len(context')
    BY <1>4, <1>5, <1>8
  <1>12. /\ Holds("k", k', 0, Layers * max_ctx', max_ctx', context', n_tokens')
         /\ Holds("v", v', 0, Layers * max_ctx', max_ctx', context', n_tokens')
    BY <1>6, <1>7, <1>8 DEF Size
  <1> QED
    BY <1>8, <1>9, <1>10, <1>11, <1>12, InductiveBetweenPasses

-------------------------------------------------------------------------------
(* Saving and loading.                                                        *)

\* Both arrays one after the other, as far as they are written.
LEMMA FileHolds ==
  ASSUME max_ctx \in Contexts, context \in Seq(Entries), n_tokens \in Nat,
         k \in [1..Size -> Cells], v \in [1..Size -> Cells],
         Holds("k", k, 0, Size, max_ctx, context, n_tokens),
         Holds("v", v, 0, Size, max_ctx, context, n_tokens),
         NEW n \in 0..2 * Size
  PROVE  LET cells == SubSeq(k \o v, 1, n)
         IN  /\ cells \in Seq(Cells)
             /\ Holds("k", cells, 0, Len(cells), max_ctx, context, n_tokens)
             /\ Holds("v", cells, Size, Len(cells), max_ctx, context, n_tokens)
  <1>1. max_ctx \in Nat \ {0} /\ Layers \in Nat \ {0} /\ Size \in Nat \ {0}
    BY SizesTyped DEF Size
  <1>2. k \in Seq(Cells) /\ Len(k) = Size /\ v \in Seq(Cells) /\ Len(v) = Size
    BY <1>1
  <1>3. k \o v \in Seq(Cells) /\ Len(k \o v) = 2 * Size
    BY <1>1, <1>2
  <1>4. ASSUME NEW i \in 1..Size
        PROVE  (k \o v)[i] = k[i] /\ (k \o v)[Size + i] = v[i]
    <2>1. /\ i \in 1..Size + Size /\ i <= Size
          /\ Size + i \in 1..Size + Size /\ ~ (Size + i <= Size) /\ (Size + i) - Size = i
      BY <1>1
    <2>2. \A j \in 1..Len(k) + Len(v) :
            (k \o v)[j] = IF j <= Len(k) THEN k[j] ELSE v[j - Len(k)]
      BY <1>2, ConcatProperties, Zenon
    <2> QED
      BY <1>2, <2>1, <2>2
  <1> DEFINE cells == SubSeq(k \o v, 1, n)
  <1>5. cells \in Seq(Cells) /\ Len(cells) = n /\ \A i \in 1..n : cells[i] = (k \o v)[i]
    BY <1>1, <1>3
  <1> HIDE DEF cells
  <1>6. ASSUME NEW l \in LayersOf, NEW i \in DOMAIN context, i <= max_ctx
        PROVE  /\ l * max_ctx + i \in 1..Size
               /\ 0 + l * max_ctx + i = l * max_ctx + i
               /\ Size + l * max_ctx + i = Size + (l * max_ctx + i)
    <2>1. i \in 1..max_ctx /\ l \in 0..Layers - 1
      BY <1>1, <1>6 DEF LayersOf
    <2>2. l * max_ctx + i \in 1..Layers * max_ctx
      BY <1>1, <2>1, CellInArray
    <2> QED
      BY <1>1, <2>1, <2>2 DEF Size
  <1>7. ASSUME NEW l \in LayersOf, NEW i \in DOMAIN context, l \notin NotHeld("k", context[i])
        PROVE  /\ i <= n_tokens /\ i <= max_ctx
               /\ 0 + l * max_ctx + i <= n => cells[0 + l * max_ctx + i] = Own("k", context[i], l)
    <2>1. /\ i <= n_tokens /\ i <= max_ctx
          /\ 0 + l * max_ctx + i <= Size => k[0 + l * max_ctx + i] = Own("k", context[i], l)
      BY <1>7 DEF Holds
    <2>2. PICK j \in 1..Size : j = l * max_ctx + i /\ 0 + l * max_ctx + i = j
      BY <1>6, <2>1
    <2>3. k[j] = Own("k", context[i], l)
      BY <1>1, <2>1, <2>2
    <2>4. ASSUME j <= n PROVE cells[j] = k[j]
      <3>1. j \in 1..n
        BY <1>1, <2>4
      <3> QED
        BY <1>4, <1>5, <3>1
    <2> QED
      BY <2>1, <2>2, <2>3, <2>4
  <1>8. ASSUME NEW l \in LayersOf, NEW i \in DOMAIN context, l \notin NotHeld("v", context[i])
        PROVE  /\ i <= n_tokens /\ i <= max_ctx
               /\ Size + l * max_ctx + i <= n =>
                    cells[Size + l * max_ctx + i] = Own("v", context[i], l)
    <2>1. /\ i <= n_tokens /\ i <= max_ctx
          /\ 0 + l * max_ctx + i <= Size => v[0 + l * max_ctx + i] = Own("v", context[i], l)
      BY <1>8 DEF Holds
    <2>2. PICK j \in 1..Size : /\ j = l * max_ctx + i /\ 0 + l * max_ctx + i = j
                               /\ Size + l * max_ctx + i = Size + j
      BY <1>6, <2>1
    <2>3. v[j] = Own("v", context[i], l)
      BY <1>1, <2>1, <2>2
    <2>4. ASSUME Size + j <= n PROVE cells[Size + j] = v[j]
      <3>1. Size + j \in 1..n
        BY <1>1, <2>4
      <3> QED
        BY <1>4, <1>5, <3>1
    <2> QED
      BY <2>1, <2>2, <2>3, <2>4
  <1>9. Holds("k", cells, 0, Len(cells), max_ctx, context, n_tokens)
    BY <1>5, <1>7 DEF Holds
  <1>10. Holds("v", cells, Size, Len(cells), max_ctx, context, n_tokens)
    BY <1>5, <1>8 DEF Holds
  <1> QED
    BY <1>5, <1>9, <1>10 DEF cells

\* Writing a file changes nothing in memory.
LEMMA WrittenInductive ==
  ASSUME KvInductive, NEW written, Written(written), FileIsContext'
  PROVE  KvInductive'
  <1>1. CacheType /\ CacheHoldsContext /\ HeldWithinArrays /\ Idle
    BY DEF KvInductive, Written
  <1>2. /\ n_tokens <= Len(context)
        /\ Holds("k", k, 0, Size, max_ctx, context, n_tokens)
        /\ Holds("v", v, 0, Size, max_ctx, context, n_tokens)
    BY <1>1, HoldsBetweenPasses
  <1>3. CacheType' /\ Idle' /\ attended' = <<>>
    BY <1>1 DEF Written, cacheVars, passState, CacheType, Idle, Size
  <1>4. /\ n_tokens' = n_tokens /\ context' = context /\ max_ctx' = max_ctx
        /\ k' = k /\ v' = v
    BY DEF Written, cacheVars
  <1>5. /\ n_tokens' <= Len(context')
        /\ Holds("k", k', 0, Layers * max_ctx', max_ctx', context', n_tokens')
        /\ Holds("v", v', 0, Layers * max_ctx', max_ctx', context', n_tokens')
    BY <1>2, <1>4 DEF Size
  <1> QED
    BY <1>3, <1>5, InductiveBetweenPasses

LEMMA SaveHeaderInductive == KvInductive /\ SaveHeader => KvInductive'
  <1> SUFFICES ASSUME KvInductive, SaveHeader PROVE KvInductive'
    OBVIOUS
  <1>1. n_tokens \in Nat
    BY DEF KvInductive, CacheType
  <1>2. CASE Written(NoFile)
    <2>1. file' = NoFile
      BY <1>2 DEF Written
    <2>2. FileIsContext'
      BY <2>1 DEF FileIsContext, NoFile
    <2> QED
      BY <1>2, <2>2, WrittenInductive
  <1>3. CASE Written([hdr |-> 2, n_tokens |-> n_tokens])
    <2>1. file' = [hdr |-> 2, n_tokens |-> n_tokens]
      BY <1>3 DEF Written
    <2>2. FileIsContext'
      BY <1>1, <2>1 DEF FileIsContext
    <2> QED
      BY <1>3, <2>2, WrittenInductive
  <1> QED
    BY <1>2, <1>3 DEF SaveHeader

LEMMA SaveInductive ==
  ASSUME KvInductive, NEW n \in 0..2 * Size, Save(n)
  PROVE  KvInductive'
  <1>1. CacheType /\ CacheHoldsContext /\ HeldWithinArrays /\ Idle
    BY DEF KvInductive, Save, Written
  <1>2. /\ n_tokens <= Len(context)
        /\ Holds("k", k, 0, Size, max_ctx, context, n_tokens)
        /\ Holds("v", v, 0, Size, max_ctx, context, n_tokens)
    BY <1>1, HoldsBetweenPasses
  <1>3. /\ max_ctx \in Contexts /\ n_tokens \in Nat /\ context \in Seq(Entries)
        /\ k \in [1..Size -> Cells] /\ v \in [1..Size -> Cells]
    BY <1>1 DEF CacheType
  <1>4. /\ file'.hdr = 3 /\ file'.ctx = max_ctx /\ file'.n_tokens = n_tokens
        /\ file'.context = context /\ file'.cells = SubSeq(k \o v, 1, n)
    BY DEF Save, Written
  <1>5. LET cells == SubSeq(k \o v, 1, n)
        IN  /\ cells \in Seq(Cells)
            /\ Holds("k", cells, 0, Len(cells), max_ctx, context, n_tokens)
            /\ Holds("v", cells, Size, Len(cells), max_ctx, context, n_tokens)
    BY <1>2, <1>3, FileHolds
  <1>6. /\ file'.cells \in Seq(Cells)
        /\ Holds("k", file'.cells, 0, Len(file'.cells), file'.ctx, file'.context, file'.n_tokens)
        /\ Holds("v", file'.cells, Layers * file'.ctx, Len(file'.cells), file'.ctx,
                 file'.context, file'.n_tokens)
    BY <1>4, <1>5 DEF Size
  <1>7. FileIsContext'
    BY <1>2, <1>3, <1>4, <1>6 DEF FileIsContext, Holds, Own, NotHeld, Key, Value
  <1> QED
    BY <1>7, WrittenInductive DEF Save

LEMMA LoadFailsInductive == KvInductive /\ LoadFails => KvInductive'
  <1> SUFFICES ASSUME KvInductive, LoadFails PROVE KvInductive'
    OBVIOUS
  <1>1. CacheType /\ CacheHoldsContext /\ HeldWithinArrays /\ FileIsContext /\ Idle
    BY DEF KvInductive, LoadFails
  <1>2. /\ n_tokens <= Len(context)
        /\ Holds("k", k, 0, Size, max_ctx, context, n_tokens)
        /\ Holds("v", v, 0, Size, max_ctx, context, n_tokens)
    BY <1>1, HoldsBetweenPasses
  <1>3. /\ k' = k /\ v' = v /\ max_ctx' = max_ctx /\ attended' = <<>> /\ file' = file
        /\ context \in Seq(Entries) /\ n_tokens \in Nat
    BY <1>1 DEF LoadFails, CacheType
  <1>4. CASE file.hdr # 2
    <2>1. n_tokens' = n_tokens /\ context' = context
      BY <1>4 DEF LoadFails
    <2>2. CacheType' /\ Idle'
      BY <1>1, <2>1 DEF LoadFails, passState, CacheType, Idle, Size
    <2>3. FileIsContext'
      BY <1>1, <1>3 DEF FileIsContext, Holds, Own, NotHeld, Key, Value
    <2>4. /\ n_tokens' <= Len(context')
          /\ Holds("k", k', 0, Layers * max_ctx', max_ctx', context', n_tokens')
          /\ Holds("v", v', 0, Layers * max_ctx', max_ctx', context', n_tokens')
      BY <1>2, <1>3, <2>1 DEF Size
    <2> QED
      BY <1>3, <2>2, <2>3, <2>4, InductiveBetweenPasses
  <1>5. CASE file.hdr = 2
    <2>1. /\ n_tokens' \in Nat
          /\ context' = [i \in 1..n_tokens' |-> IF i <= Len(context) THEN context[i] ELSE Foreign]
      BY <1>1, <1>5 DEF LoadFails, FileIsContext
    <2>2. context' \in Seq(Entries) /\ Len(context') = n_tokens'
      <3>1. \A i \in 1..n_tokens' : (IF i <= Len(context) THEN context[i] ELSE Foreign) \in Entries
        BY <1>3, <2>1, ForeignIsEntry
      <3> QED
        BY <2>1, <3>1
    <2>3. CacheType' /\ Idle'
      BY <1>1, <2>1, <2>2 DEF LoadFails, passState, CacheType, Idle, Size
    <2>4. FileIsContext'
      BY <1>1, <1>3 DEF FileIsContext, Holds, Own, NotHeld, Key, Value
    <2>5. ASSUME NEW kind \in Kinds, NEW a, Holds(kind, a, 0, Size, max_ctx, context, n_tokens)
          PROVE  Holds(kind, a, 0, Size, max_ctx, context', n_tokens')
      <3>1. ASSUME NEW l \in LayersOf, NEW i \in DOMAIN context',
                   l \notin NotHeld(kind, context'[i])
            PROVE  /\ i <= n_tokens' /\ i <= max_ctx
                   /\ 0 + l * max_ctx + i <= Size =>
                        a[0 + l * max_ctx + i] = Own(kind, context'[i], l)
        <4>1. i \in 1..n_tokens'
          BY <2>2
        <4>2. i <= Len(context)
          BY <2>1, <3>1, <4>1, ForeignNotHeld
        <4>3. i \in DOMAIN context /\ context'[i] = context[i]
          BY <1>3, <2>1, <4>1, <4>2
        <4>4. l \notin NotHeld(kind, context[i])
          BY <3>1, <4>3
        <4>5. /\ i <= max_ctx
              /\ 0 + l * max_ctx + i <= Size =>
                   a[0 + l * max_ctx + i] = Own(kind, context[i], l)
          BY <2>5, <4>3, <4>4 DEF Holds
        <4> QED
          BY <4>1, <4>3, <4>5
      <3> QED
        BY <3>1 DEF Holds
    <2>6. n_tokens' <= Len(context')
      BY <2>1, <2>2
    <2>7. Holds("k", k', 0, Layers * max_ctx', max_ctx', context', n_tokens')
      BY <1>2, <1>3, <2>5 DEF Size, Kinds
    <2>8. Holds("v", v', 0, Layers * max_ctx', max_ctx', context', n_tokens')
      BY <1>2, <1>3, <2>5 DEF Size, Kinds
    <2> QED
      BY <1>3, <2>3, <2>4, <2>6, <2>7, <2>8, InductiveBetweenPasses
  <1> QED
    BY <1>4, <1>5

\* A context that is restored has lost what is behind the end of the file.
LEMMA RestoredEntries ==
  ASSUME NEW ctx \in Seq(Entries), NEW cells
  PROVE  /\ Restored(ctx, cells) \in Seq(Entries)
         /\ Len(Restored(ctx, cells)) = Len(ctx)
         /\ \A i \in DOMAIN ctx, l \in LayersOf :
              LET e == Restored(ctx, cells)[i]
              IN  /\ e.tok = ctx[i].tok /\ e.pos = ctx[i].pos
                  /\ l \notin e.noKey =>
                       l \notin ctx[i].noKey /\ ~ (Cell(l, i - 1) > Len(cells))
                  /\ l \notin e.noValue =>
                       l \notin ctx[i].noValue /\ ~ (Size + Cell(l, i - 1) > Len(cells))
  <1> DEFINE shortKey(i) == {l \in LayersOf : Cell(l, i - 1) > Len(cells)}
             shortValue(i) == {l \in LayersOf : Size + Cell(l, i - 1) > Len(cells)}
             entry(i) == Without(ctx[i], shortKey(i), shortValue(i))
  <1>1. Restored(ctx, cells) = [i \in DOMAIN ctx |-> entry(i)]
    BY DEF Restored
  <1>2. ASSUME NEW i \in DOMAIN ctx
        PROVE  /\ entry(i) \in Entries
               /\ entry(i).tok = ctx[i].tok /\ entry(i).pos = ctx[i].pos
               /\ entry(i).noKey = ctx[i].noKey \cup shortKey(i)
               /\ entry(i).noValue = ctx[i].noValue \cup shortValue(i)
    <2>1. shortKey(i) \subseteq LayersOf /\ shortValue(i) \subseteq LayersOf
      OBVIOUS
    <2>2. ctx[i] \in Entries
      OBVIOUS
    <2> HIDE DEF shortKey, shortValue
    <2> QED
      BY <2>1, <2>2 DEF Entries, Without
  <1> HIDE DEF entry
  <1>3. Restored(ctx, cells) \in Seq(Entries) /\ Len(Restored(ctx, cells)) = Len(ctx)
    BY <1>1, <1>2
  <1> QED
    BY <1>1, <1>2, <1>3

\* An array that is read from a file holds what the file held.
LEMMA LoadedHolds ==
  ASSUME max_ctx \in Contexts, NEW a \in [1..Size -> Cells], NEW cells \in Seq(Cells),
         NEW kind \in Kinds, NEW from, from = IF kind = "k" THEN 0 ELSE Size,
         NEW ctx \in Seq(Entries), NEW n,
         Holds(kind, cells, from, Len(cells), max_ctx, ctx, n)
  PROVE  Holds(kind, Loaded(a, from, cells), 0, Size, max_ctx, Restored(ctx, cells), n)
  <1>1. /\ max_ctx \in Nat \ {0} /\ Layers \in Nat \ {0} /\ Size \in Nat \ {0}
        /\ from \in Nat /\ Len(cells) \in Nat
    BY SizesTyped DEF Size
  <1>2. ASSUME NEW l \in LayersOf, NEW i \in DOMAIN Restored(ctx, cells),
               l \notin NotHeld(kind, Restored(ctx, cells)[i])
        PROVE  /\ i <= n /\ i <= max_ctx
               /\ Loaded(a, from, cells)[0 + l * max_ctx + i] = Own(kind, Restored(ctx, cells)[i], l)
    <2>1. i \in DOMAIN ctx /\ i \in Nat \ {0} /\ l \in 0..Layers - 1
      BY RestoredEntries DEF LayersOf
    <2>2. Own(kind, Restored(ctx, cells)[i], l) = Own(kind, ctx[i], l)
      BY <2>1, RestoredEntries DEF Own, Key, Value
    <2>3. Cell(l, i - 1) = l * max_ctx + i
      BY <1>1, <2>1 DEF Cell
    <2>4. l \notin NotHeld(kind, ctx[i]) /\ ~ (from + (l * max_ctx + i) > Len(cells))
      <3>1. CASE kind = "k"
        <4>1. l \notin ctx[i].noKey /\ ~ (Cell(l, i - 1) > Len(cells))
          BY <1>2, <2>1, <3>1, RestoredEntries DEF NotHeld
        <4> QED
          BY <1>1, <2>1, <2>3, <3>1, <4>1 DEF NotHeld
      <3>2. CASE kind # "k"
        <4>1. l \notin ctx[i].noValue /\ ~ (Size + Cell(l, i - 1) > Len(cells))
          BY <1>2, <2>1, <3>2, RestoredEntries DEF NotHeld
        <4> QED
          BY <1>1, <2>1, <2>3, <3>2, <4>1 DEF NotHeld
      <3> QED
        BY <3>1, <3>2
    <2>5. /\ i <= n /\ i <= max_ctx
          /\ from + l * max_ctx + i <= Len(cells) =>
               cells[from + l * max_ctx + i] = Own(kind, ctx[i], l)
      BY <2>1, <2>4 DEF Holds
    <2>6. l * max_ctx + i \in 1..Size
      <3>1. i \in 1..max_ctx
        BY <1>1, <2>1, <2>5
      <3>2. l * max_ctx + i \in 1..Layers * max_ctx
        BY <1>1, <2>1, <3>1, CellInArray
      <3> QED
        BY <3>2 DEF Size
    <2>7. PICK j \in 1..Size : /\ j = l * max_ctx + i /\ 0 + l * max_ctx + i = j
                               /\ from + l * max_ctx + i = from + j
      <3>1. l * max_ctx \in Int /\ i \in Int /\ from \in Int
        BY <1>1, <2>1
      <3>2. 0 + l * max_ctx + i = l * max_ctx + i
            /\ from + l * max_ctx + i = from + (l * max_ctx + i)
        BY <3>1
      <3> QED
        BY <2>6, <3>2
    <2>8. from + j <= Len(cells)
      BY <1>1, <2>4, <2>7
    <2>9. Loaded(a, from, cells)[j] = cells[from + j]
      BY <2>8 DEF Loaded
    <2> QED
      BY <2>2, <2>5, <2>7, <2>8, <2>9
  <1> QED
    BY <1>2 DEF Holds

LEMMA LoadedTyped ==
  ASSUME NEW s \in Nat, NEW a \in [1..s -> Cells], NEW cells \in Seq(Cells), NEW from \in Nat
  PROVE  Loaded(a, from, cells) \in [1..s -> Cells]
  BY DEF Loaded

LEMMA LoadInductive == KvInductive /\ Load => KvInductive'
  <1> SUFFICES ASSUME KvInductive, Load PROVE KvInductive'
    OBVIOUS
  <1>1. CacheType /\ FileIsContext /\ Idle /\ file.hdr = 3 /\ max_ctx \in Contexts
    BY DEF KvInductive, Load, CacheType
  <1>2. /\ file.n_tokens \in Nat /\ file.cells \in Seq(Cells) /\ file.context \in Seq(Entries)
        /\ file.n_tokens <= Len(file.context)
        /\ k \in [1..Size -> Cells] /\ v \in [1..Size -> Cells] /\ Size \in Nat
    BY <1>1, SizesTyped DEF FileIsContext, CacheType, Size
  <1>3. /\ k' = Loaded(k, 0, file.cells) /\ v' = Loaded(v, Size, file.cells)
        /\ n_tokens' = file.n_tokens /\ max_ctx' = max_ctx /\ file' = file /\ attended' = <<>>
    BY DEF Load
  <1>4. k' \in [1..Size -> Cells] /\ v' \in [1..Size -> Cells]
    BY <1>2, <1>3, LoadedTyped
  <1>5. FileIsContext'
    BY <1>1, <1>3 DEF FileIsContext, Holds, Own, NotHeld, Key, Value
  <1>6. CASE file.ctx = max_ctx
    <2>1. context' = Restored(file.context, file.cells)
      BY <1>6 DEF Load
    <2>2. context' \in Seq(Entries) /\ n_tokens' <= Len(context')
      BY <1>2, <1>3, <2>1, RestoredEntries
    <2>3. CacheType' /\ Idle'
      BY <1>1, <1>2, <1>3, <1>4, <2>2 DEF Load, passState, CacheType, Idle, Size
    <2>4. /\ Holds("k", file.cells, 0, Len(file.cells), max_ctx, file.context, file.n_tokens)
          /\ Holds("v", file.cells, Size, Len(file.cells), max_ctx, file.context, file.n_tokens)
      BY <1>1, <1>6 DEF FileIsContext, Size
    <2>5. Holds("k", Loaded(k, 0, file.cells), 0, Size, max_ctx,
                Restored(file.context, file.cells), file.n_tokens)
      BY <1>1, <1>2, <2>4, LoadedHolds DEF Kinds
    <2>6. Holds("v", Loaded(v, Size, file.cells), 0, Size, max_ctx,
                Restored(file.context, file.cells), file.n_tokens)
      BY <1>1, <1>2, <2>4, LoadedHolds DEF Kinds
    <2>7. /\ Holds("k", k', 0, Layers * max_ctx', max_ctx', context', n_tokens')
          /\ Holds("v", v', 0, Layers * max_ctx', max_ctx', context', n_tokens')
      BY <1>3, <2>1, <2>5, <2>6 DEF Size
    <2> QED
      BY <1>3, <1>5, <2>2, <2>3, <2>7, InductiveBetweenPasses
  <1>7. CASE file.ctx # max_ctx
    <2>1. context' = [i \in 1..n_tokens' |-> Foreign] /\ n_tokens' \in Nat
      BY <1>2, <1>7 DEF Load
    <2>2. context' \in Seq(Entries) /\ Len(context') = n_tokens'
      BY <2>1, ForeignIsEntry
    <2>3. CacheType' /\ Idle'
      BY <1>1, <1>2, <1>3, <1>4, <2>1, <2>2 DEF Load, passState, CacheType, Idle, Size
    <2>4. \A i \in DOMAIN context' : context'[i] = Foreign
      BY <2>1
    <2>5. \A kind \in Kinds : \A a : Holds(kind, a, 0, Layers * max_ctx', max_ctx', context', n_tokens')
      BY <2>4, ForeignNotHeld DEF Holds
    <2>6. /\ n_tokens' <= Len(context')
          /\ Holds("k", k', 0, Layers * max_ctx', max_ctx', context', n_tokens')
          /\ Holds("v", v', 0, Layers * max_ctx', max_ctx', context', n_tokens')
      BY <2>1, <2>2, <2>5 DEF Kinds
    <2> QED
      BY <1>3, <1>5, <2>3, <2>6, InductiveBetweenPasses
  <1> QED
    BY <1>6, <1>7

-------------------------------------------------------------------------------
(* A forward pass.                                                            *)

\* The rows of a context that an array of a cache for c positions holds, n of
\* them counted, when a pass for position p has passed some of the layers.
HoldsSoFar(kind, a, c, ctx, n, p, passed) ==
  \A l \in LayersOf, i \in DOMAIN ctx :
    (i # p + 1 \/ l < passed) /\ l \notin NotHeld(kind, ctx[i]) =>
      i <= n /\ i <= c /\ a[l * c + i] = Own(kind, ctx[i], l)

LEMMA HeldSoFar ==
  ASSUME CacheType, HeldWithinArrays, CacheHoldsContext
  PROVE  /\ HoldsSoFar("k", k, max_ctx, context, n_tokens, row.pos, layer)
         /\ HoldsSoFar("v", v, max_ctx, context, n_tokens, row.pos, layer)
  <1>1. max_ctx \in Nat \ {0} /\ Layers \in Nat \ {0} /\ context \in Seq(Entries)
    BY SizesTyped DEF CacheType
  <1>2. ASSUME NEW l \in LayersOf, NEW i \in DOMAIN context
        PROVE  /\ Cell(l, i - 1) = l * max_ctx + i /\ i \in Nat
               /\ i > max_ctx => l \in context[i].noKey /\ l \in context[i].noValue
    BY <1>1 DEF Cell, LayersOf, HeldWithinArrays
  <1>3. ASSUME NEW l \in LayersOf, NEW i \in DOMAIN context, i # row.pos + 1 \/ l < layer,
               l \notin context[i].noKey
        PROVE  i <= n_tokens /\ i <= max_ctx /\ k[l * max_ctx + i] = Key(context[i], l)
    BY <1>1, <1>2, <1>3 DEF CacheHoldsContext
  <1>4. ASSUME NEW l \in LayersOf, NEW i \in DOMAIN context, i # row.pos + 1 \/ l < layer,
               l \notin context[i].noValue
        PROVE  i <= n_tokens /\ i <= max_ctx /\ v[l * max_ctx + i] = Value(context[i], l)
    BY <1>1, <1>2, <1>4 DEF CacheHoldsContext
  <1> QED
    BY <1>3, <1>4 DEF HoldsSoFar, Own, NotHeld

\* The converse, for the state a step leads to.
LEMMA HeldAfterStep ==
  ASSUME CacheType', n_tokens' <= Len(context'),
         HoldsSoFar("k", k', max_ctx', context', n_tokens', row'.pos, layer'),
         HoldsSoFar("v", v', max_ctx', context', n_tokens', row'.pos, layer')
  PROVE  CacheHoldsContext'
  <1>1. max_ctx' \in Nat \ {0} /\ Layers \in Nat \ {0} /\ context' \in Seq(Entries)
    BY SizesTyped DEF CacheType
  <1>2. ASSUME NEW l \in LayersOf, NEW i \in DOMAIN context'
        PROVE  Cell(l, i - 1)' = l * max_ctx' + i
    BY <1>1 DEF Cell, LayersOf
  <1>3. ASSUME NEW l \in LayersOf, NEW i \in DOMAIN context', i # row'.pos + 1 \/ l < layer',
               l \notin context'[i].noKey
        PROVE  i <= n_tokens' /\ k'[Cell(l, i - 1)'] = Key(context'[i], l)
    BY <1>2, <1>3 DEF HoldsSoFar, Own, NotHeld
  <1>4. ASSUME NEW l \in LayersOf, NEW i \in DOMAIN context', i # row'.pos + 1 \/ l < layer',
               l \notin context'[i].noValue
        PROVE  i <= n_tokens' /\ v'[Cell(l, i - 1)'] = Value(context'[i], l)
    BY <1>2, <1>4 DEF HoldsSoFar, Own, NotHeld
  <1> QED
    BY <1>3, <1>4 DEF CacheHoldsContext, Key, Value

\* The context a pass begins with has an entry for its token, when that fits.
LEMMA ContextFed ==
  ASSUME CacheType, CacheHoldsContext, NEW t \in Tokens, NEW p \in Nat,
         NEW embedded \in BOOLEAN, Forward(t, p, embedded)
  PROVE  /\ context' \in Seq(Entries)
         /\ Len(context) <= Len(context')
         /\ \A i \in DOMAIN context' : i # p + 1 => i \in DOMAIN context /\ context'[i] = context[i]
         /\ p >= max_ctx => context' = context
         /\ p < max_ctx =>
              /\ p + 1 \in DOMAIN context'
              /\ context'[p + 1].tok = t /\ context'[p + 1].pos = p
  <1> DEFINE e == [tok |-> t, pos |-> p, noKey |-> {}, noValue |-> {}]
  <1>1. p \in 0..Len(context) /\ context \in Seq(Entries) /\ max_ctx \in Nat
    BY SizesTyped DEF Forward, CacheType
  <1>2. e \in Entries /\ e.tok = t /\ e.pos = p
    BY DEF Entries
  <1>3. context' = IF p >= max_ctx THEN context
                   ELSE IF p < Len(context) THEN [context EXCEPT ![p + 1] = e]
                   ELSE Append(context, e)
    BY DEF Forward
  <1> HIDE DEF e
  <1>4. CASE p >= max_ctx
    BY <1>1, <1>3, <1>4
  <1>5. CASE p < max_ctx /\ p < Len(context)
    <2>1. context' = [context EXCEPT ![p + 1] = e] /\ p + 1 \in DOMAIN context
      BY <1>1, <1>3, <1>5
    <2>2. context' \in Seq(Entries) /\ Len(context') = Len(context)
      BY <1>1, <1>2, <2>1
    <2> QED
      BY <1>1, <1>2, <1>5, <2>1, <2>2
  <1>6. CASE p < max_ctx /\ ~ (p < Len(context))
    <2>1. context' = Append(context, e) /\ p = Len(context)
      BY <1>1, <1>3, <1>6
    <2>2. context' \in Seq(Entries) /\ Len(context') = Len(context) + 1
      BY <1>1, <1>2, <2>1
    <2>3. \A i \in DOMAIN context : context'[i] = context[i]
      BY <1>1, <1>2, <2>1
    <2>4. context'[p + 1] = e /\ p + 1 \in DOMAIN context'
      BY <1>1, <1>2, <2>1, <2>2
    <2> QED
      BY <1>1, <1>2, <1>6, <2>1, <2>2, <2>3, <2>4
  <1> QED
    BY <1>1, <1>4, <1>5, <1>6

LEMMA ForwardInductive ==
  ASSUME KvInductive, NEW t \in Tokens, NEW p \in Nat, NEW embedded \in BOOLEAN,
         Forward(t, p, embedded)
  PROVE  KvInductive'
  <1>1. CacheType /\ CacheHoldsContext /\ HeldWithinArrays /\ Idle /\ n_tokens <= max_ctx
    BY DEF KvInductive, Forward, WithinArrays
  <1>2. /\ layer' = 0 /\ ~ Idle' /\ max_ctx' = max_ctx /\ n_tokens' = n_tokens
        /\ k' = k /\ v' = v /\ t_k' = t_k /\ t_v' = t_v /\ file' = file /\ attended' = <<>>
    BY KvAssumption DEF Forward, cacheVars, Idle
  <1>3. row' = [tok |-> t, pos |-> p] /\ row' \in [tok : Tokens, pos : Nat]
        /\ row'.tok = t /\ row'.pos = p /\ t_x' \in {t, "spoilt"}
    BY DEF Forward
  <1>4. CacheType'
    <2>1. context' \in Seq(Entries)
      BY <1>1, ContextFed
    <2> QED
      BY <1>1, <1>2, <1>3, <2>1, KvAssumption DEF CacheType, Size
  <1>5. FileIsContext'
    BY <1>2 DEF KvInductive, FileIsContext, Holds, Own, NotHeld, Key, Value
  <1>6. PassIsForToken'
    BY <1>1, <1>2, <1>3, ContextFed DEF PassIsForToken
  <1>7. HeldWithinArrays'
    <2>1. ASSUME NEW i \in DOMAIN context', i > max_ctx
          PROVE  i \in DOMAIN context /\ context'[i] = context[i]
      <3>1. CASE i # p + 1
        BY <1>1, <3>1, ContextFed
      <3>2. CASE i = p + 1
        <4>1. p >= max_ctx
          BY <1>1, <2>1, <3>2, SizesTyped DEF CacheType
        <4> QED
          BY <1>1, <4>1, ContextFed
      <3> QED
        BY <3>1, <3>2
    <2> QED
      BY <1>1, <1>2, <2>1 DEF HeldWithinArrays
  <1>8. ASSUME NEW kind \in Kinds, NEW a,
               HoldsSoFar(kind, a, max_ctx, context, n_tokens, row.pos, layer)
        PROVE  HoldsSoFar(kind, a, max_ctx', context', n_tokens', row'.pos, layer')
    <2>1. ASSUME NEW l \in LayersOf, NEW i \in DOMAIN context',
                 i # p + 1 \/ l < 0, l \notin NotHeld(kind, context'[i])
          PROVE  /\ i <= n_tokens /\ i <= max_ctx
                 /\ a[l * max_ctx + i] = Own(kind, context'[i], l)
      <3>1. i # p + 1 /\ l < layer
        BY <1>1, <2>1, KvAssumption DEF Idle, LayersOf
      <3>2. i \in DOMAIN context /\ context'[i] = context[i]
        BY <1>1, <3>1, ContextFed
      <3> QED
        BY <1>8, <2>1, <3>1, <3>2 DEF HoldsSoFar
    <2> QED
      BY <1>2, <1>3, <2>1 DEF HoldsSoFar
  <1>9. n_tokens' <= Len(context')
    <2>1. n_tokens <= Len(context) /\ Len(context) <= Len(context')
      BY <1>1, ContextFed DEF CacheHoldsContext
    <2>2. n_tokens \in Nat /\ Len(context) \in Nat /\ Len(context') \in Nat
      BY <1>1, <1>4 DEF CacheType
    <2> QED
      BY <1>2, <2>1, <2>2
  <1>10. CacheHoldsContext'
    <2>1. /\ HoldsSoFar("k", k, max_ctx, context, n_tokens, row.pos, layer)
          /\ HoldsSoFar("v", v, max_ctx, context, n_tokens, row.pos, layer)
      BY <1>1, HeldSoFar
    <2>2. /\ HoldsSoFar("k", k', max_ctx', context', n_tokens', row'.pos, layer')
          /\ HoldsSoFar("v", v', max_ctx', context', n_tokens', row'.pos, layer')
      BY <1>2, <1>8, <2>1 DEF Kinds
    <2> QED
      BY <1>4, <1>9, <2>2, HeldAfterStep
  <1> QED
    BY <1>2, <1>4, <1>5, <1>6, <1>7, <1>10 DEF KvInductive, AttendsToContext

LEMMA MaxOfTwo ==
  ASSUME NEW a \in Nat, NEW b \in Nat
  PROVE  Max({a, b}) = IF a >= b THEN a ELSE b
  BY DEF Max

\* The rows a layer's projections leave are the token's own unless a step that
\* they depend on has failed.
LEMMA RowsProjected ==
  ASSUME CacheType, PassIsForToken, ~ Idle, NEW failed \in SUBSET Steps, Projected(failed)
  PROVE  /\ t_k' \in Cells /\ t_v' \in Cells
         /\ ~ Spoilt("k", failed) => t_k' = Key(row, layer)
         /\ ~ Spoilt("v", failed) => t_v' = Value(row, layer)
  <1>1. /\ row.tok \in Tokens /\ row.pos \in Nat /\ layer \in Nat
        /\ t_x \in Tokens \cup {"spoilt"} /\ t_k \in Cells /\ t_v \in Cells
    BY KvAssumption DEF CacheType, PassIsForToken
  <1> DEFINE h == [tok |-> IF "norm" \in failed THEN "spoilt" ELSE t_x, pos |-> row.pos]
  <1>2. h.tok \in Tokens \cup {"spoilt"} /\ h.pos = row.pos
    BY <1>1
  <1>3. /\ t_k' = IF "k" \in failed THEN [t_k EXCEPT !.turned = @ + row.pos] ELSE Key(h, layer)
        /\ t_v' = IF "v" \in failed THEN t_v ELSE Value(h, layer)
    BY DEF Projected
  <1>4. ("norm" \notin failed /\ t_x # "spoilt") => h.tok = row.tok
    BY DEF PassIsForToken
  <1> HIDE DEF h
  <1>5. Key(h, layer) \in Cells /\ Value(h, layer) \in Cells
    BY <1>1, <1>2 DEF Key, Value, Cells
  <1>6. [t_k EXCEPT !.turned = @ + row.pos] \in Cells
    BY <1>1 DEF Cells
  <1>7. t_k' \in Cells /\ t_v' \in Cells
    BY <1>1, <1>3, <1>5, <1>6
  <1>8. ASSUME ~ Spoilt("k", failed) PROVE t_k' = Key(row, layer)
    <2>1. "k" \notin failed /\ h.tok = row.tok
      BY <1>4, <1>8 DEF Spoilt
    <2> QED
      BY <1>2, <1>3, <2>1 DEF Key
  <1>9. ASSUME ~ Spoilt("v", failed) PROVE t_v' = Value(row, layer)
    <2>1. "v" \notin failed /\ h.tok = row.tok
      BY <1>4, <1>9 DEF Spoilt
    <2> QED
      BY <1>2, <1>3, <2>1 DEF Value
  <1> QED
    BY <1>7, <1>8, <1>9

\* An array after a row was stored for the pass in its layer, when it fits.
StoredIn(a, b, r) ==
  /\ row.pos >= max_ctx => b = a
  /\ row.pos < max_ctx => b = [a EXCEPT ![layer * max_ctx + (row.pos + 1)] = r]

\* What a layer stores: nothing but the rows of the pass, in its own layer.
LEMMA RowStored ==
  ASSUME CacheType, ~ Idle, t_k' \in Cells, t_v' \in Cells, Appended
  PROVE  /\ k' \in [1..Size -> Cells] /\ v' \in [1..Size -> Cells] /\ n_tokens' \in Nat
         /\ row.pos >= max_ctx => n_tokens' = n_tokens
         /\ row.pos < max_ctx =>
              n_tokens' = IF n_tokens >= row.pos + 1 THEN n_tokens ELSE row.pos + 1
         /\ StoredIn(k, k', t_k') /\ StoredIn(v, v', t_v')
  <1>1. /\ row.pos \in Nat
        /\ max_ctx \in Nat \ {0} /\ n_tokens \in Nat /\ layer \in Nat
        /\ k \in [1..Size -> Cells] /\ v \in [1..Size -> Cells]
    BY SizesTyped, KvAssumption DEF CacheType
  <1>2. CASE row.pos >= max_ctx
    BY <1>1, <1>2 DEF Appended, StoredIn
  <1>3. CASE row.pos < max_ctx
    <2>1. Cell(layer, row.pos) = layer * max_ctx + (row.pos + 1)
      BY <1>1 DEF Cell
    <2>2. /\ k' = [k EXCEPT ![Cell(layer, row.pos)] = t_k']
          /\ v' = [v EXCEPT ![Cell(layer, row.pos)] = t_v']
          /\ n_tokens' = Max({n_tokens, row.pos + 1})
      BY <1>1, <1>3 DEF Appended
    <2>3. n_tokens' = IF n_tokens >= row.pos + 1 THEN n_tokens ELSE row.pos + 1
      <3>1. n_tokens \in Nat /\ row.pos + 1 \in Nat
        BY <1>1
      <3> QED
        BY <2>2, <3>1, MaxOfTwo
    <2>4. n_tokens' \in Nat
      BY <1>1, <2>3
    <2>5. k' \in [1..Size -> Cells] /\ v' \in [1..Size -> Cells]
      BY <1>1, <2>2
    <2>6. ~ (row.pos >= max_ctx)
      BY <1>1, <1>3
    <2>7. StoredIn(k, k', t_k') /\ StoredIn(v, v', t_v')
      BY <2>1, <2>2, <2>6 DEF StoredIn
    <2> QED
      BY <2>3, <2>4, <2>5, <2>6, <2>7
  <1> QED
    BY <1>1, <1>2, <1>3

\* The context after some rows of the pass's token were lost.
LEMMA EntriesLost ==
  ASSUME CacheType, PassIsForToken, ~ Idle,
         NEW keys \in SUBSET LayersOf, NEW values \in SUBSET LayersOf, Lost(keys, values)
  PROVE  /\ context' \in Seq(Entries) /\ Len(context') = Len(context)
         /\ \A i \in DOMAIN context : i # row.pos + 1 => context'[i] = context[i]
         /\ row.pos >= max_ctx => context' = context
         /\ row.pos < max_ctx =>
              LET e == context'[row.pos + 1]
                  d == context[row.pos + 1]
              IN  /\ row.pos + 1 \in DOMAIN context
                  /\ e.tok = row.tok /\ e.pos = row.pos
                  /\ e.noKey = d.noKey \cup keys /\ e.noValue = d.noValue \cup values
  <1>1. context \in Seq(Entries) /\ row.pos \in Nat /\ max_ctx \in Nat
    BY SizesTyped DEF CacheType
  <1>2. CASE row.pos >= max_ctx
    BY <1>1, <1>2 DEF Lost
  <1>3. CASE row.pos < max_ctx
    <2> DEFINE p == row.pos + 1
               d == context[p]
               e == Without(d, keys, values)
    <2>1. p \in DOMAIN context /\ d \in Entries /\ d.tok = row.tok /\ d.pos = row.pos
      BY <1>1, <1>3 DEF PassIsForToken
    <2>3. ~ (row.pos >= max_ctx)
      BY <1>1, <1>3
    <2>2. context' = [context EXCEPT ![p] = e]
      <3>1. context' = IF row.pos >= max_ctx THEN context ELSE [context EXCEPT ![p] = e]
        BY DEF Lost
      <3> HIDE DEF p, d, e
      <3> QED
        BY <2>3, <3>1
    <2> HIDE DEF p, d
    <2>4. /\ e \in Entries /\ e.tok = d.tok /\ e.pos = d.pos
          /\ e.noKey = d.noKey \cup keys /\ e.noValue = d.noValue \cup values
      BY <2>1 DEF Entries, Without
    <2> HIDE DEF e
    <2>5. /\ context' \in Seq(Entries) /\ Len(context') = Len(context) /\ context'[p] = e
          /\ \A i \in DOMAIN context : i # p => context'[i] = context[i]
      BY <1>1, <2>1, <2>2, <2>4
    <2> QED
      BY <2>1, <2>3, <2>4, <2>5 DEF p, d
  <1> QED
    BY <1>1, <1>2, <1>3

\* A layer that stores a row, its token's own unless that is lost, holds what was
\* held and that row.
LEMMA StoredHolds ==
  ASSUME CacheType, PassIsForToken, ~ Idle, NEW kind \in Kinds, NEW lost,
         NEW a \in [1..Size -> Cells], NEW b, NEW r \in Cells, NEW n \in Nat,
         StoredIn(a, b, r), layer \notin lost => r = Own(kind, row, layer),
         n_tokens <= n, row.pos < max_ctx => row.pos + 1 <= n,
         HeldWithinArrays,
         HoldsSoFar(kind, a, max_ctx, context, n_tokens, row.pos, layer),
         DOMAIN context' = DOMAIN context,
         \A i \in DOMAIN context : i # row.pos + 1 => context'[i] = context[i],
         row.pos >= max_ctx => context' = context,
         row.pos < max_ctx =>
           /\ context'[row.pos + 1].tok = row.tok /\ context'[row.pos + 1].pos = row.pos
           /\ NotHeld(kind, context'[row.pos + 1]) = NotHeld(kind, context[row.pos + 1]) \cup lost
  PROVE  HoldsSoFar(kind, b, max_ctx, context', n, row.pos, layer + 1)
  <1>1. /\ row.pos \in Nat /\ context \in Seq(Entries) /\ n_tokens \in Nat
        /\ max_ctx \in Nat \ {0} /\ layer \in 0..Layers - 1 /\ Layers \in Nat \ {0}
    BY SizesTyped, KvAssumption DEF CacheType, Idle
  <1>2. ASSUME NEW l \in LayersOf, NEW i \in DOMAIN context,
               i # row.pos + 1 \/ l < layer + 1, l \notin NotHeld(kind, context'[i])
        PROVE  i <= n /\ i <= max_ctx /\ b[l * max_ctx + i] = Own(kind, context'[i], l)
    <2>1. i \in Nat \ {0} /\ l \in 0..Layers - 1
      BY <1>1 DEF LayersOf
    <2>2. CASE row.pos >= max_ctx
      <3>1. context'[i] = context[i] /\ b = a
        BY <2>2 DEF StoredIn
      <3>2. i # row.pos + 1
        <4>1. ASSUME i = row.pos + 1 PROVE FALSE
          <5>1. i > max_ctx
            BY <1>1, <2>2, <4>1
          <5>2. NotHeld(kind, context[i]) = LayersOf
            BY <5>1 DEF HeldWithinArrays, NotHeld
          <5> QED
            BY <1>2, <3>1, <5>2
        <4> QED
          BY <4>1
      <3>3. i <= n_tokens /\ i <= max_ctx /\ a[l * max_ctx + i] = Own(kind, context[i], l)
        BY <1>2, <3>1, <3>2 DEF HoldsSoFar
      <3> QED
        BY <1>1, <2>1, <3>1, <3>3
    <2>3. CASE row.pos < max_ctx /\ l = layer /\ i = row.pos + 1
      <3>1. i \in 1..max_ctx
        BY <1>1, <2>1, <2>3
      <3>2. l * max_ctx + i \in 1..Size
        <4>1. l * max_ctx + i \in 1..Layers * max_ctx
          BY <1>1, <2>1, <3>1, CellInArray
        <4> QED
          BY <4>1 DEF Size
      <3>3. PICK j \in 1..Size : j = l * max_ctx + i
        BY <3>2
      <3>4. b = [a EXCEPT ![j] = r]
        BY <2>3, <3>3 DEF StoredIn
      <3>5. b[j] = r
        BY <3>4
      <3>6. r = Own(kind, row, layer)
        BY <1>2, <2>3
      <3>7. Own(kind, row, layer) = Own(kind, context'[i], l)
        BY <2>3 DEF Own, Key, Value
      <3>8. i <= n
        BY <2>3
      <3> QED
        BY <3>1, <3>3, <3>5, <3>6, <3>7, <3>8
    <2>4. CASE row.pos < max_ctx /\ ~ (l = layer /\ i = row.pos + 1)
      <3>1. i # row.pos + 1 \/ l < layer
        BY <1>1, <1>2, <2>1, <2>4
      <3>2. l \notin NotHeld(kind, context[i]) /\ Own(kind, context'[i], l) = Own(kind, context[i], l)
        <4>1. CASE i # row.pos + 1
          <5>1. context'[i] = context[i]
            BY <4>1
          <5> QED
            BY <1>2, <5>1
        <4>2. CASE i = row.pos + 1
          <5>1. l \notin NotHeld(kind, context[i])
            BY <1>2, <2>4, <4>2
          <5>2. context[i].tok = row.tok /\ context[i].pos = row.pos
            BY <2>4, <4>2 DEF PassIsForToken
          <5>3. context'[i].tok = row.tok /\ context'[i].pos = row.pos
            BY <2>4, <4>2
          <5> QED
            BY <5>1, <5>2, <5>3 DEF Own, Key, Value
        <4> QED
          BY <4>1, <4>2
      <3>3. i <= n_tokens /\ i <= max_ctx /\ a[l * max_ctx + i] = Own(kind, context[i], l)
        BY <3>1, <3>2 DEF HoldsSoFar
      <3>4. i \in 1..max_ctx /\ row.pos + 1 \in 1..max_ctx
        BY <1>1, <2>1, <2>4, <3>3
      <3>5. l * max_ctx + i \in 1..Size
        <4>1. l * max_ctx + i \in 1..Layers * max_ctx
          BY <1>1, <2>1, <3>4, CellInArray
        <4> QED
          BY <4>1 DEF Size
      <3>6. PICK q \in 1..max_ctx : q = row.pos + 1
        BY <3>4
      <3>7. l * max_ctx + i # layer * max_ctx + q
        <4>1. l \in Nat /\ layer \in Nat
          BY <1>1, <2>1
        <4>2. ~ (l = layer /\ i = q)
          BY <2>4, <3>6
        <4>3. ASSUME l * max_ctx + i = layer * max_ctx + q PROVE FALSE
          <5>1. /\ max_ctx \in Nat \ {0} /\ l \in Nat /\ layer \in Nat
                /\ i \in 1..max_ctx /\ q \in 1..max_ctx
            BY <1>1, <3>4, <4>1
          <5>2. l = layer /\ i = q
            BY <4>3, <5>1, CellsDiffer
          <5> QED
            BY <4>2, <5>2
        <4> QED
          BY <4>3
      <3>8. PICK j \in 1..Size : j = l * max_ctx + i
        BY <3>5
      <3>9. PICK w : w = layer * max_ctx + q /\ w # j
        BY <3>7, <3>8
      <3>10. b = [a EXCEPT ![w] = r]
        BY <2>4, <3>6, <3>9 DEF StoredIn
      <3>11. b[j] = a[j]
        BY <3>9, <3>10
      <3>12. i <= n
        BY <1>1, <2>1, <3>3
      <3> QED
        BY <3>2, <3>3, <3>8, <3>11, <3>12
    <2> QED
      BY <1>1, <2>2, <2>3, <2>4
  <1> QED
    BY <1>2 DEF HoldsSoFar

\* What is known of the context and of the length after a layer.
LEMMA PassGoesOn ==
  ASSUME CacheType, PassIsForToken, HeldWithinArrays, ~ Idle,
         NEW keys \in SUBSET LayersOf, NEW values \in SUBSET LayersOf, Lost(keys, values),
         n_tokens' <= max_ctx, max_ctx' = max_ctx, row' = row, t_x' \in {t_x, "spoilt"}
  PROVE  PassIsForToken' /\ HeldWithinArrays'
  <1>1. /\ row.pos \in Nat /\ max_ctx \in Nat /\ context \in Seq(Entries)
        /\ context' \in Seq(Entries) /\ Len(context') = Len(context)
    BY EntriesLost, SizesTyped DEF CacheType
  <1>2. PassIsForToken'
    <2>1. t_x' \in {row.tok, "spoilt"}
      BY DEF PassIsForToken
    <2>2. row.pos < max_ctx =>
            /\ row.pos + 1 \in DOMAIN context'
            /\ context'[row.pos + 1].tok = row.tok /\ context'[row.pos + 1].pos = row.pos
      <3>1. ASSUME row.pos < max_ctx
            PROVE  /\ row.pos + 1 \in DOMAIN context
                   /\ context'[row.pos + 1].tok = row.tok
                   /\ context'[row.pos + 1].pos = row.pos
        BY <3>1, EntriesLost
      <3>2. DOMAIN context' = DOMAIN context
        BY <1>1
      <3> QED
        BY <3>1, <3>2
    <2> QED
      BY <2>1, <2>2 DEF PassIsForToken
  <1>3. HeldWithinArrays'
    <2>1. ASSUME NEW i \in DOMAIN context', i > max_ctx
          PROVE  context'[i] = context[i] /\ i \in DOMAIN context
      <3>1. i \in DOMAIN context /\ i \in Nat
        BY <1>1
      <3>2. CASE i # row.pos + 1
        BY <3>1, <3>2, EntriesLost
      <3>3. CASE i = row.pos + 1
        <4>1. row.pos >= max_ctx
          BY <1>1, <2>1, <3>3
        <4> QED
          BY <3>1, <4>1, EntriesLost
      <3> QED
        BY <3>2, <3>3
    <2> QED
      BY <2>1 DEF HeldWithinArrays
  <1> QED
    BY <1>2, <1>3

LEMMA LayerInductive ==
  ASSUME KvInductive, NEW failed \in SUBSET Steps, Layer(failed)
  PROVE  KvInductive'
  <1> DEFINE keys == IF Spoilt("k", failed) THEN {layer} ELSE {}
             values == IF Spoilt("v", failed) THEN {layer} ELSE {}
  <1>1. /\ CacheType /\ CacheHoldsContext /\ HeldWithinArrays /\ PassIsForToken
        /\ ~ Idle /\ Projected(failed) /\ Appended /\ Lost(keys, values)
    BY DEF KvInductive, Layer
  <1>2. /\ layer' = layer + 1 /\ max_ctx' = max_ctx /\ row' = row /\ file' = file
        /\ t_x' \in {t_x, "spoilt"} /\ attended' = Attention
    BY DEF Layer
  <1>3. /\ layer \in 0..Layers - 1 /\ Layers \in Nat \ {0} /\ max_ctx \in Nat \ {0}
        /\ row \in [tok : Tokens, pos : Nat] /\ row.pos \in Nat /\ context \in Seq(Entries)
        /\ n_tokens \in Nat /\ n_tokens <= max_ctx /\ n_tokens <= Len(context)
    BY <1>1, SizesTyped, KvAssumption DEF CacheType, Idle, PassIsForToken, CacheHoldsContext
  <1>4. keys \in SUBSET LayersOf /\ values \in SUBSET LayersOf
    BY <1>3 DEF LayersOf
  <1>5. /\ t_k' \in Cells /\ t_v' \in Cells
        /\ layer \notin keys => t_k' = Own("k", row, layer)
        /\ layer \notin values => t_v' = Own("v", row, layer)
    BY <1>1, RowsProjected DEF Own
  <1> HIDE DEF keys, values
  <1>6. /\ k' \in [1..Size -> Cells] /\ v' \in [1..Size -> Cells] /\ n_tokens' \in Nat
        /\ StoredIn(k, k', t_k') /\ StoredIn(v, v', t_v')
    BY <1>1, <1>5, RowStored
  <1>7. /\ n_tokens <= n_tokens' /\ n_tokens' <= max_ctx
        /\ row.pos < max_ctx => row.pos + 1 <= n_tokens'
        /\ n_tokens' <= Len(context)
    <2>1. CASE row.pos >= max_ctx
      <3>1. n_tokens' = n_tokens
        BY <1>1, <1>5, <2>1, RowStored
      <3> QED
        BY <1>3, <2>1, <3>1
    <2>2. CASE row.pos < max_ctx
      <3>1. n_tokens' = IF n_tokens >= row.pos + 1 THEN n_tokens ELSE row.pos + 1
        BY <1>1, <1>5, <2>2, RowStored
      <3>2. row.pos + 1 <= Len(context)
        BY <1>1, <1>3, <2>2 DEF PassIsForToken
      <3> QED
        BY <1>3, <2>2, <3>1, <3>2
    <2> QED
      BY <1>3, <2>1, <2>2
  <1>8. context' \in Seq(Entries) /\ Len(context') = Len(context) /\ DOMAIN context' = DOMAIN context
    <2>1. context' \in Seq(Entries) /\ Len(context') = Len(context)
      BY <1>1, <1>4, EntriesLost
    <2> QED
      BY <1>3, <2>1
  <1>9. CacheType'
    BY <1>1, <1>2, <1>3, <1>5, <1>6, <1>8 DEF CacheType, Size
  <1>10. FileIsContext'
    BY <1>2 DEF KvInductive, FileIsContext, Holds, Own, NotHeld, Key, Value
  <1>11. PassIsForToken' /\ HeldWithinArrays'
    BY <1>1, <1>2, <1>4, <1>7, PassGoesOn
  <1>12. /\ HoldsSoFar("k", k, max_ctx, context, n_tokens, row.pos, layer)
         /\ HoldsSoFar("v", v, max_ctx, context, n_tokens, row.pos, layer)
    BY <1>1, HeldSoFar
  <1>13. /\ \A i \in DOMAIN context : i # row.pos + 1 => context'[i] = context[i]
         /\ row.pos >= max_ctx => context' = context
         /\ row.pos < max_ctx =>
              /\ context'[row.pos + 1].tok = row.tok /\ context'[row.pos + 1].pos = row.pos
              /\ NotHeld("k", context'[row.pos + 1]) = NotHeld("k", context[row.pos + 1]) \cup keys
              /\ NotHeld("v", context'[row.pos + 1]) = NotHeld("v", context[row.pos + 1]) \cup values
    BY <1>1, <1>4, EntriesLost DEF NotHeld
  <1>14. HoldsSoFar("k", k', max_ctx, context', n_tokens', row.pos, layer + 1)
    <2>1. k \in [1..Size -> Cells] /\ "k" \in Kinds
      BY <1>1 DEF CacheType, Kinds
    <2> QED
      BY <1>1, <1>5, <1>6, <1>7, <1>8, <1>12, <1>13, <2>1, StoredHolds
  <1>15. HoldsSoFar("v", v', max_ctx, context', n_tokens', row.pos, layer + 1)
    <2>1. v \in [1..Size -> Cells] /\ "v" \in Kinds
      BY <1>1 DEF CacheType, Kinds
    <2> QED
      BY <1>1, <1>5, <1>6, <1>7, <1>8, <1>12, <1>13, <2>1, StoredHolds
  <1>16. CacheHoldsContext'
    <2>1. /\ HoldsSoFar("k", k', max_ctx', context', n_tokens', row'.pos, layer')
          /\ HoldsSoFar("v", v', max_ctx', context', n_tokens', row'.pos, layer')
      BY <1>2, <1>14, <1>15
    <2>2. n_tokens' <= Len(context')
      BY <1>7, <1>8
    <2> QED
      BY <1>9, <2>1, <2>2, HeldAfterStep
  <1>17. AttendsToContext'
    <2>1. attended' = [p \in 1..n_tokens' |-> <<Get(k', layer, p - 1), Get(v', layer, p - 1)>>]
      BY <1>2 DEF Attention
    <2>2. Len(attended') = n_tokens' /\ DOMAIN attended' = 1..n_tokens'
      BY <1>6, <2>1
    <2>3. row.pos < max_ctx => row.pos < n_tokens'
      BY <1>3, <1>6, <1>7
    <2>4. layer' - 1 = layer /\ layer \in LayersOf /\ layer < layer + 1
      BY <1>2, <1>3 DEF LayersOf
    <2>5. ASSUME NEW i \in 1..n_tokens'
          PROVE  /\ i \in DOMAIN context' /\ Cell(layer, i - 1) = layer * max_ctx + i
                 /\ attended'[i][1] = k'[layer * max_ctx + i]
                 /\ attended'[i][2] = v'[layer * max_ctx + i]
      <3>1. i \in DOMAIN context'
        BY <1>3, <1>6, <1>7, <1>8
      <3>2. Cell(layer, i - 1) = layer * max_ctx + i
        BY <1>3, <1>6 DEF Cell
      <3>3. attended'[i] = <<Get(k', layer, i - 1), Get(v', layer, i - 1)>>
        BY <2>1
      <3> QED
        BY <3>1, <3>2, <3>3 DEF Get
    <2>6. ASSUME NEW i \in 1..n_tokens', layer \notin context'[i].noKey
          PROVE  attended'[i][1] = Key(context'[i], layer)
      <3>1. k'[layer * max_ctx + i] = Own("k", context'[i], layer)
        BY <1>14, <2>4, <2>5, <2>6 DEF HoldsSoFar, NotHeld
      <3> QED
        BY <2>5, <3>1 DEF Own
    <2>7. ASSUME NEW i \in 1..n_tokens', layer \notin context'[i].noValue
          PROVE  attended'[i][2] = Value(context'[i], layer)
      <3>1. v'[layer * max_ctx + i] = Own("v", context'[i], layer)
        BY <1>15, <2>4, <2>5, <2>7 DEF HoldsSoFar, NotHeld
      <3> QED
        BY <2>5, <3>1 DEF Own
    <2> QED
      BY <1>2, <2>2, <2>3, <2>4, <2>6, <2>7 DEF AttendsToContext, Key, Value
  <1> QED
    BY <1>9, <1>10, <1>11, <1>16, <1>17 DEF KvInductive

LEMMA LayerSkippedInductive == KvInductive /\ LayerSkipped => KvInductive'
  <1> SUFFICES ASSUME KvInductive, LayerSkipped PROVE KvInductive'
    OBVIOUS
  <1>1. /\ CacheType /\ CacheHoldsContext /\ HeldWithinArrays /\ PassIsForToken
        /\ ~ Idle /\ Lost({layer}, {layer})
    BY DEF KvInductive, LayerSkipped
  <1>2. /\ layer' = layer + 1 /\ max_ctx' = max_ctx /\ n_tokens' = n_tokens /\ row' = row
        /\ k' = k /\ v' = v /\ t_k' = t_k /\ t_v' = t_v /\ file' = file
        /\ t_x' = "spoilt" /\ attended' = <<>>
    BY DEF LayerSkipped, cacheVars
  <1>3. /\ layer \in 0..Layers - 1 /\ Layers \in Nat \ {0} /\ context \in Seq(Entries)
        /\ n_tokens <= max_ctx /\ n_tokens <= Len(context) /\ max_ctx \in Nat \ {0}
    BY <1>1, SizesTyped, KvAssumption DEF CacheType, Idle, PassIsForToken, CacheHoldsContext
  <1>4. {layer} \in SUBSET LayersOf
    BY <1>3 DEF LayersOf
  <1>5. context' \in Seq(Entries) /\ Len(context') = Len(context) /\ DOMAIN context' = DOMAIN context
    <2>1. context' \in Seq(Entries) /\ Len(context') = Len(context)
      BY <1>1, <1>4, EntriesLost
    <2> QED
      BY <1>3, <2>1
  <1>6. CacheType'
    BY <1>1, <1>2, <1>3, <1>5 DEF CacheType, Size
  <1>7. FileIsContext'
    BY <1>2 DEF KvInductive, FileIsContext, Holds, Own, NotHeld, Key, Value
  <1>8. PassIsForToken' /\ HeldWithinArrays'
    BY <1>1, <1>2, <1>3, <1>4, PassGoesOn
  <1>9. /\ \A i \in DOMAIN context : i # row.pos + 1 => context'[i] = context[i]
        /\ row.pos >= max_ctx => context' = context
        /\ row.pos < max_ctx =>
             /\ context'[row.pos + 1].tok = row.tok /\ context'[row.pos + 1].pos = row.pos
             /\ context[row.pos + 1].tok = row.tok /\ context[row.pos + 1].pos = row.pos
             /\ NotHeld("k", context'[row.pos + 1]) = NotHeld("k", context[row.pos + 1]) \cup {layer}
             /\ NotHeld("v", context'[row.pos + 1]) = NotHeld("v", context[row.pos + 1]) \cup {layer}
    BY <1>1, <1>4, EntriesLost DEF NotHeld, PassIsForToken
  <1>10. ASSUME NEW kind \in Kinds, NEW a,
                HoldsSoFar(kind, a, max_ctx, context, n_tokens, row.pos, layer)
         PROVE  HoldsSoFar(kind, a, max_ctx, context', n_tokens, row.pos, layer + 1)
    <2>1. ASSUME NEW l \in LayersOf, NEW i \in DOMAIN context,
                 i # row.pos + 1 \/ l < layer + 1, l \notin NotHeld(kind, context'[i])
          PROVE  /\ i <= n_tokens /\ i <= max_ctx
                 /\ a[l * max_ctx + i] = Own(kind, context'[i], l)
      <3>1. CASE i # row.pos + 1
        <4>1. context'[i] = context[i]
          BY <1>9, <3>1
        <4> QED
          BY <1>10, <2>1, <3>1, <4>1 DEF HoldsSoFar
      <3>2. CASE i = row.pos + 1 /\ row.pos >= max_ctx
        <4>1. context'[i] = context[i] /\ i > max_ctx
          BY <1>1, <1>3, <1>9, <3>2 DEF CacheType
        <4>2. NotHeld(kind, context[i]) = LayersOf
          BY <1>1, <4>1 DEF HeldWithinArrays, NotHeld
        <4> QED
          BY <2>1, <4>1, <4>2
      <3>3. CASE i = row.pos + 1 /\ row.pos < max_ctx
        <4>1. NotHeld(kind, context'[i]) = NotHeld(kind, context[i]) \cup {layer}
          BY <1>9, <3>3 DEF Kinds
        <4>2. l < layer /\ l \notin NotHeld(kind, context[i])
          BY <1>3, <2>1, <3>3, <4>1 DEF LayersOf
        <4>3. Own(kind, context'[i], l) = Own(kind, context[i], l)
          BY <1>9, <3>3 DEF Own, Key, Value
        <4> QED
          BY <1>10, <4>2, <4>3 DEF HoldsSoFar
      <3> QED
        BY <1>1, <1>3, <3>1, <3>2, <3>3 DEF CacheType
    <2> QED
      BY <1>5, <2>1 DEF HoldsSoFar
  <1>11. CacheHoldsContext'
    <2>1. /\ HoldsSoFar("k", k, max_ctx, context, n_tokens, row.pos, layer)
          /\ HoldsSoFar("v", v, max_ctx, context, n_tokens, row.pos, layer)
      BY <1>1, HeldSoFar
    <2>2. /\ HoldsSoFar("k", k', max_ctx', context', n_tokens', row'.pos, layer')
          /\ HoldsSoFar("v", v', max_ctx', context', n_tokens', row'.pos, layer')
      BY <1>2, <1>10, <2>1 DEF Kinds
    <2>3. n_tokens' <= Len(context')
      BY <1>2, <1>3, <1>5
    <2> QED
      BY <1>6, <2>2, <2>3, HeldAfterStep
  <1> QED
    BY <1>2, <1>6, <1>7, <1>8, <1>11 DEF KvInductive, AttendsToContext

LEMMA NextInductive == KvInductive /\ [Next]_kvVars => KvInductive'
  <1> SUFFICES ASSUME KvInductive, [Next]_kvVars PROVE KvInductive'
    OBVIOUS
  <1>1. ASSUME NEW t \in Tokens, NEW p \in 0..max_ctx, NEW embedded \in BOOLEAN,
               Forward(t, p, embedded)
        PROVE  KvInductive'
    <2>1. p \in Nat
      BY DEF KvInductive, CacheType
    <2> QED
      BY <1>1, <2>1, ForwardInductive
  <1>2. CASE UNCHANGED kvVars
    <2>1. UNCHANGED <<max_ctx, n_tokens, k, v, file, layer, row, t_x, t_k, t_v, context, attended>>
      BY <1>2 DEF kvVars, cacheVars, passState
    <2>2. CacheType'
      BY <2>1 DEF KvInductive, CacheType, Idle, Size
    <2>3. FileIsContext'
      BY <2>1 DEF KvInductive, FileIsContext, Holds, Own, NotHeld, Key, Value
    <2>4. HeldWithinArrays' /\ PassIsForToken'
      BY <2>1 DEF KvInductive, HeldWithinArrays, PassIsForToken, Idle
    <2>5. CacheHoldsContext'
      BY <2>1 DEF KvInductive, CacheHoldsContext, Key, Value, Cell
    <2>6. AttendsToContext'
      BY <2>1 DEF KvInductive, AttendsToContext, Key, Value
    <2> QED
      BY <2>2, <2>3, <2>4, <2>5, <2>6 DEF KvInductive
  <1> QED
    BY <1>1, <1>2, ResetInductive, CompressInductive, SaveHeaderInductive, SaveInductive,
       LoadFailsInductive, LoadInductive, FreshInductive, LayerInductive,
       LayerSkippedInductive DEF Next

LEMMA OneRowStored ==
  ASSUME KvInductive, [Next]_kvVars
  PROVE  [~ Idle /\ row' = row =>
            \A i \in 1..Size :
              i # layer * max_ctx + row.pos + 1 => k'[i] = k[i] /\ v'[i] = v[i]]_kvVars
  <1> SUFFICES ASSUME ~ Idle, row' = row, NEW i \in 1..Size,
                      i # layer * max_ctx + row.pos + 1
               PROVE  k'[i] = k[i] /\ v'[i] = v[i]
    OBVIOUS
  <1>1. /\ CacheType /\ PassIsForToken /\ row.pos \in Nat /\ row.tok # "zero"
        /\ max_ctx \in Nat \ {0} /\ layer \in Nat
        /\ k \in [1..Size -> Cells] /\ v \in [1..Size -> Cells]
    BY SizesTyped, KvAssumption DEF KvInductive, CacheType
  <1>2. ASSUME NEW failed \in SUBSET Steps, Layer(failed)
        PROVE  k'[i] = k[i] /\ v'[i] = v[i]
    <2>1. StoredIn(k, k', t_k') /\ StoredIn(v, v', t_v')
      <3>1. Projected(failed) /\ Appended
        BY <1>2 DEF Layer
      <3> QED
        BY <1>1, <3>1, RowsProjected, RowStored
    <2>2. CASE row.pos >= max_ctx
      BY <2>1, <2>2 DEF StoredIn
    <2>3. CASE row.pos < max_ctx
      <3> DEFINE w == layer * max_ctx + (row.pos + 1)
      <3>1. i # w
        BY <1>1
      <3>2. k' = [k EXCEPT ![w] = t_k'] /\ v' = [v EXCEPT ![w] = t_v']
        BY <2>1, <2>3 DEF StoredIn
      <3> HIDE DEF w
      <3> QED
        BY <1>1, <3>1, <3>2
    <2> QED
      BY <1>1, <2>2, <2>3
  <1>3. CASE LayerSkipped \/ UNCHANGED kvVars
    BY <1>3 DEF LayerSkipped, kvVars, cacheVars
  <1>4. ASSUME NEW c \in Contexts, Restart(c) PROVE FALSE
    BY <1>1, <1>4 DEF Restart, Zero
  <1> QED
    BY <1>2, <1>3, <1>4
    DEF Next, Reset, Compress, SaveHeader, Save, Written, LoadFails, Load, Forward

-------------------------------------------------------------------------------
\* The cache and what is known of it in the middle of a pass, and of what was
\* written of a file, is known from the start on.
THEOREM CacheInvariant == KvSpec => []KvInductive
  BY InitInductive, NextInductive, PTL DEF KvSpec

\* Both arrays hold the rows of the tokens fed, in every layer, through resets,
\* compressions, saves, loads and restarts, for every shape of the cache and any
\* number of failures, but for the rows that a failure kept from being computed
\* or a file did not have (kv_cache.c, transformer.c).
THEOREM CacheHoldsItsContext == KvSpec => []CacheHoldsContext
  <1>1. KvInductive => CacheHoldsContext
    BY DEF KvInductive
  <1> QED
    BY <1>1, CacheInvariant, PTL

\* Every layer of a pass attends to the rows of the context in their order, its
\* own token among them, whatever failed before: a row that was lost is one of
\* its own token and layer, and spoils no other.
THEOREM LayersAttendToContext == KvSpec => []AttendsToContext
  <1>1. KvInductive => AttendsToContext
    BY DEF KvInductive
  <1> QED
    BY <1>1, CacheInvariant, PTL

\* A layer stores a row over no other: what was cached for the other positions
\* and the other layers stays as it is within a pass.
THEOREM LayerStoresOneRow == KvSpec => OtherRowsStay
  BY OneRowStored, CacheInvariant, PTL DEF KvSpec, OtherRowsStay

-------------------------------------------------------------------------------
(* The DeepSeek context.                                                      *)

\* Whether a layer's row of a position has been computed since the reset: the
\* pass under way has not come to the layers from at on.
Computed(l, p) == p < Len(fed) /\ ~ (at < NLayers /\ p = pos /\ l >= at)

\* The rows a computed row may be.
OwnRows(p) ==
  {<<fed[p + 1], p>>} \cup (IF failures > 0 THEN {<<Nothing, p>>} ELSE {})

PassType ==
  /\ fast \in BOOLEAN /\ ignored \in BOOLEAN
  /\ ram \in [LayerIds -> LayerIds \cup {Junk}]
  /\ half \in [LayerIds -> LayerIds \cup {Junk, None}]
  /\ scratch \in [Weights -> LayerIds \cup {Junk}]
  /\ kv \in [LayerIds -> [Positions -> (Vocab \cup {Nothing}) \X Nat]]
  /\ acts \in Vocab \cup {Nothing}
  /\ at \in 0..Rest /\ failures \in 0..MaxFailures
  /\ fed \in Seq(Vocab) /\ pos \in Nat /\ kvLen \in Nat

\* Between two passes kv_len counts the tokens fed; during one, those before.
LengthIsPrompt ==
  /\ at = Rest => kvLen = Len(fed)
  /\ at # Rest => pos = Len(fed) - 1 /\ kvLen = pos

\* The activations started from the token that was fed, or from nothing after
\* a read that failed.
ActsAreTokens ==
  at # Rest => \/ acts = fed[pos + 1]
               \/ acts = Nothing /\ failures > 0

\* What is computed is the prompt's, and what is not is zero.
CacheIsPrompts ==
  \A l \in LayerIds, p \in Positions :
    IF Computed(l, p) THEN kv[l][p] \in OwnRows(p) ELSE kv[l][p] = <<Nothing, p>>

\* Without ignored failures the weights in RAM are those of their layer.
RamIsOwn ==
  ~ ignored => \A l \in LayerIds : /\ fast => ram[l] = l
                                   /\ half[l] \in {l, None}

PassInv ==
  /\ PassType /\ LengthIsPrompt /\ ActsAreTokens /\ CacheIsPrompts /\ RamIsOwn
  /\ AttendsToPrompt /\ MultipliesByOwn

-------------------------------------------------------------------------------
LEMMA OneMoreIsFinite ==
  ASSUME NEW S, NEW x, NEW T, IsFiniteSet(S), T = S \cup {x}
  PROVE  IsFiniteSet(T)
  <1>1. IsFiniteSet(S \cup {x})
    BY FS_AddElement, Zenon
  <1> QED
    BY <1>1

LEMMA WeightsFinite == IsFiniteSet(Weights)
  <1>1. IsFiniteSet({"attn_norm"})
    BY FS_Singleton, Zenon
  <1>2. {"attn_norm", "attn_q_a"} = {"attn_norm"} \cup {"attn_q_a"}
    OBVIOUS
  <1>3. IsFiniteSet({"attn_norm", "attn_q_a"})
    BY <1>1, <1>2, OneMoreIsFinite, Zenon
  <1>4. {"attn_norm", "attn_q_a", "attn_kv"} = {"attn_norm", "attn_q_a"} \cup {"attn_kv"}
    OBVIOUS
  <1>5. IsFiniteSet({"attn_norm", "attn_q_a", "attn_kv"})
    BY <1>3, <1>4, OneMoreIsFinite, Zenon
  <1>6. BeforeFfn = {"attn_norm", "attn_q_a", "attn_kv"} \cup {"ffn_norm"}
    BY DEF BeforeFfn
  <1>7. IsFiniteSet(BeforeFfn)
    BY <1>5, <1>6, OneMoreIsFinite
  <1>8. Weights = BeforeFfn \cup {"shexp"}
    BY DEF Weights, BeforeFfn
  <1> QED
    BY <1>7, <1>8, OneMoreIsFinite, Zenon

\* The number of failed reads only grows, and does grow when one fails; the
\* buffers keep their type.
LEMMA ReadCounts ==
  ASSUME PassType, NEW tried \in SUBSET Weights, NEW got, Read(tried, got), at \in LayerIds
  PROVE  /\ failures' \in 0..MaxFailures /\ failures <= failures'
         /\ tried \ got # {} => failures' > 0
         /\ scratch' \in [Weights -> LayerIds \cup {Junk}]
  <1>1. IsFiniteSet(tried)
    BY WeightsFinite, FS_Subset
  <1>2. IsFiniteSet(tried \ got)
    BY <1>1, FS_Difference
  <1>3. Cardinality(tried \ got) \in Nat /\ (Cardinality(tried \ got) = 0 => tried \ got = {})
    BY <1>2, FS_CardinalityType, FS_EmptySet
  <1>4. /\ failures' = failures + Cardinality(tried \ got)
        /\ failures + Cardinality(tried \ got) <= MaxFailures
    BY DEF Read
  <1>5. scratch' \in [Weights -> LayerIds \cup {Junk}]
    BY DEF Read, PassType
  <1> QED
    BY <1>3, <1>4, <1>5, Ds4Assumption DEF PassType
\* After a layer attended, its row is the token's, and it read the prompt's.
LEMMA StepAttend ==
  ASSUME PassInv, at \in LayerIds, NEW got, Attended(got),
         failures' \in Nat, failures <= failures',
         ~ fast /\ "attn_kv" \notin got => failures' > 0,
         at' = at + 1, UNCHANGED <<fast, acts, pos, fed>>
  PROVE  /\ kv' \in [LayerIds -> [Positions -> (Vocab \cup {Nothing}) \X Nat]]
         /\ CacheIsPrompts'
         /\ AttendsToPrompt'
  <1>0. /\ PassType /\ at # Rest /\ pos = Len(fed) - 1 /\ pos \in Nat /\ Len(fed) \in Nat
        /\ NLayers \in Nat \ {0} /\ CtxSize \in Nat \ {0} /\ failures \in Nat
    BY Ds4Assumption DEF PassInv, PassType, LengthIsPrompt, Rest, LayerIds
  <1>1. kv' = Stored(Row(got)) /\ rows' = [p \in 1..NPos |-> kv'[at][p - 1]]
    BY DEF Attended
  <1>2. Row(got) \in (Vocab \cup {Nothing}) \X Nat
    BY <1>0 DEF Row, PassType
  <1>3. kv' \in [LayerIds -> [Positions -> (Vocab \cup {Nothing}) \X Nat]]
    BY <1>0, <1>1, <1>2 DEF Stored, PassType, Positions
  <1>4. Row(got) \in OwnRows(pos)'
    <2>1. acts = fed[pos + 1] \/ (acts = Nothing /\ failures > 0)
      BY <1>0 DEF PassInv, ActsAreTokens
    <2> QED
      BY <1>0, <2>1 DEF Row, OwnRows
  <1>5. \A p : OwnRows(p) \subseteq OwnRows(p)'
    BY <1>0 DEF OwnRows
  <1>6. ASSUME NEW l \in LayerIds, NEW p \in Positions
        PROVE  IF Computed(l, p)' THEN kv'[l][p] \in OwnRows(p)' ELSE kv'[l][p] = <<Nothing, p>>
    <2>1. IF Computed(l, p) THEN kv[l][p] \in OwnRows(p) ELSE kv[l][p] = <<Nothing, p>>
      BY DEF PassInv, CacheIsPrompts
    <2>2. CASE l = at /\ p = pos
      <3>1. kv'[l][p] = Row(got)
        BY <1>0, <1>1, <2>2 DEF Stored, PassType, Positions
      <3>2. Computed(l, p)'
        BY <1>0, <2>2 DEF Computed, LayerIds
      <3> QED
        BY <1>4, <2>2, <3>1, <3>2
    <2>3. CASE ~ (l = at /\ p = pos)
      <3>1. kv'[l][p] = kv[l][p]
        BY <1>0, <1>1, <2>3 DEF Stored, PassType
      <3>2. Computed(l, p)' = Computed(l, p)
        BY <1>0, <2>3 DEF Computed, LayerIds
      <3> QED
        BY <1>5, <2>1, <3>1, <3>2
    <2> QED
      BY <2>2, <2>3
  <1>7. ASSUME NEW p \in DOMAIN rows'
        PROVE  rows'[p] \in OwnRows(p - 1)'
    <2>1. p \in 1..NPos /\ rows'[p] = kv'[at][p - 1]
      BY <1>1
    <2>2. p - 1 \in Positions /\ p - 1 <= pos /\ p \in Nat
      BY <1>0, <2>1 DEF NPos, Positions
    <2>3. PICK l \in LayerIds : l = at
      OBVIOUS
    <2>4. PICK q \in Positions : q = p - 1
      BY <2>2
    <2>5. Computed(l, q)'
      BY <1>0, <2>2, <2>3, <2>4 DEF Computed, LayerIds
    <2>6. kv'[l][q] \in OwnRows(q)'
      BY <1>6, <2>5
    <2> QED
      BY <2>1, <2>3, <2>4, <2>6
  <1>8. AttendsToPrompt'
    <2>1. ASSUME NEW p \in DOMAIN rows' PROVE p \in Nat
      BY <1>0, <1>1, <2>1 DEF NPos
    <2>2. ASSUME NEW p \in DOMAIN rows'
          PROVE  rows'[p] \in {<<fed'[p], p - 1>>}
                              \cup (IF failures' > 0 THEN {<<Nothing, p - 1>>} ELSE {})
      <3>1. (p - 1) + 1 = p
        BY <2>1
      <3> QED
        BY <1>7, <3>1 DEF OwnRows
    <2> QED
      BY <2>2 DEF AttendsToPrompt
  <1> QED
    BY <1>3, <1>6, <1>8 DEF CacheIsPrompts

\* A layer multiplies by its own weights.
LEMMA StepMultiply ==
  ASSUME PassInv, at \in LayerIds, NEW got, got \subseteq Weights,
         used' = Multiplied(got), at' = at + 1,
         ~ fast => \A w \in got : scratch'[w] = at,
         UNCHANGED weightVars
  PROVE  MultipliesByOwn'
  <1>1. SUFFICES ASSUME ~ ignored, NEW w \in Weights, ~ fast => w \in got
                 PROVE  Source(w) = at
    BY Ds4Assumption DEF MultipliesByOwn, Multiplied, weightVars, LayerIds
  <1>2. (fast => ram[at] = at) /\ half[at] \in {at, None}
    BY <1>1 DEF PassInv, RamIsOwn
  <1> QED
    BY <1>1, <1>2 DEF Source
-------------------------------------------------------------------------------
\* A context that was just created satisfies the invariant.
LEMMA CreateInv == ASSUME Ds4Create PROVE PassInv
  <1>1. PICK loaded \in 0..NLayers : \E failed, unhalved \in SUBSET (0..loaded - 1) :
               /\ fast = (loaded = NLayers)
               /\ ram = RamAfter(loaded, failed)
               /\ half = HalfAfter(loaded, failed, unhalved)
               /\ ignored = (failed # {})
    BY DEF Ds4Create, LayersLoaded
  <1>2. PICK failed \in SUBSET (0..loaded - 1), unhalved \in SUBSET (0..loaded - 1) :
               /\ fast = (loaded = NLayers)
               /\ ram = RamAfter(loaded, failed)
               /\ half = HalfAfter(loaded, failed, unhalved)
               /\ ignored = (failed # {})
    BY <1>1
  <1>3. ram \in [LayerIds -> LayerIds \cup {Junk}]
    BY <1>2 DEF RamAfter
  <1>4. half \in [LayerIds -> LayerIds \cup {Junk, None}]
    BY <1>2, <1>3 DEF HalfAfter, RamAfter
  <1>5. RamIsOwn
    <2>1. SUFFICES ASSUME ~ ignored, NEW l \in LayerIds
                   PROVE  (fast => ram[l] = l) /\ half[l] \in {l, None}
      BY DEF RamIsOwn
    <2>2. failed = {}
      BY <1>2, <2>1
    <2>3. l < NLayers
      BY Ds4Assumption DEF LayerIds
    <2>4. ram[l] = IF l < loaded THEN l ELSE Junk
      BY <1>2, <2>2 DEF RamAfter
    <2>5. half[l] = IF l < loaded /\ l \notin unhalved THEN ram[l] ELSE None
      BY <1>2 DEF HalfAfter
    <2> QED
      BY <1>2, <2>3, <2>4, <2>5
  <1>6. kv = Cleared /\ kv \in [LayerIds -> [Positions -> (Vocab \cup {Nothing}) \X Nat]]
    BY Ds4Assumption DEF Ds4Create, Cleared, Positions
  <1>7. fast \in BOOLEAN /\ ignored \in BOOLEAN
    BY <1>2
  <1>8. at = Rest /\ fed = <<>> /\ failures = 0 /\ kvLen = 0 /\ pos = 0 /\ acts = Nothing
        /\ rows = <<>> /\ used = {} /\ scratch = [w \in Weights |-> Junk]
    BY DEF Ds4Create
  <1>9. PassType
    BY <1>3, <1>4, <1>6, <1>7, <1>8, Ds4Assumption DEF PassType, Rest
  <1>10. CacheIsPrompts
    BY <1>6, <1>8 DEF CacheIsPrompts, Computed, Cleared, Positions
  <1> QED
    BY <1>5, <1>8, <1>9, <1>10
    DEF PassInv, LengthIsPrompt, ActsAreTokens, AttendsToPrompt, MultipliesByOwn

LEMMA StepReset == ASSUME PassInv, Ds4Reset PROVE PassInv'
  <1>1. /\ kv' = Cleared /\ fed' = <<>> /\ failures' = 0 /\ rows' = <<>> /\ used' = {}
        /\ kvLen' = 0 /\ at = Rest
        /\ UNCHANGED <<fast, ram, half, ignored, scratch, acts, at, pos>>
    BY DEF Ds4Reset, Emptied, weightVars
  <1>2. PassType'
    BY <1>1, Ds4Assumption DEF PassInv, PassType, Cleared, Positions
  <1>3. CacheIsPrompts'
    BY <1>1 DEF CacheIsPrompts, Computed, Cleared, Positions
  <1> QED
    BY <1>1, <1>2, <1>3
    DEF PassInv, LengthIsPrompt, ActsAreTokens, AttendsToPrompt, MultipliesByOwn, RamIsOwn

LEMMA StepEmbed == ASSUME PassInv, NEW t \in Vocab, Embed(t) PROVE PassInv'
  <1>0. PassType /\ NLayers \in Nat \ {0} /\ CtxSize \in Nat \ {0} /\ MaxFailures \in Nat
    BY Ds4Assumption DEF PassInv
  <1>1. /\ at = Rest /\ at' = 0 /\ pos' = Len(fed) /\ fed' = Append(fed, t)
        /\ rows' = <<>> /\ used' = {}
        /\ UNCHANGED <<fast, ram, half, ignored, scratch, kv, kvLen>>
    BY DEF Embed, weightVars
  <1>2. /\ failures' \in 0..MaxFailures /\ failures <= failures'
        /\ acts' = t \/ (acts' = Nothing /\ failures' > 0)
    BY <1>0 DEF Embed, PassType
  <1>3. Len(fed') = Len(fed) + 1 /\ fed'[pos' + 1] = t /\ kvLen = Len(fed) /\ fed' \in Seq(Vocab)
    BY <1>0, <1>1 DEF PassInv, PassType, LengthIsPrompt
  <1>4. PassType'
    BY <1>0, <1>1, <1>2, <1>3 DEF PassType, Rest
  <1>5. LengthIsPrompt' /\ ActsAreTokens'
    BY <1>0, <1>1, <1>2, <1>3 DEF LengthIsPrompt, ActsAreTokens, Rest, PassType
  <1>6. ASSUME NEW l \in LayerIds, NEW p \in Positions
        PROVE  IF Computed(l, p)' THEN kv'[l][p] \in OwnRows(p)' ELSE kv'[l][p] = <<Nothing, p>>
    <2>1. IF Computed(l, p) THEN kv[l][p] \in OwnRows(p) ELSE kv[l][p] = <<Nothing, p>>
      BY DEF PassInv, CacheIsPrompts
    <2>2. Computed(l, p)' = Computed(l, p)
      BY <1>0, <1>1, <1>3 DEF Computed, LayerIds, Positions, Rest, PassType
    <2>3. Computed(l, p) => fed'[p + 1] = fed[p + 1]
      BY <1>0, <1>1 DEF Computed, Positions, PassType
    <2>4. Computed(l, p) => OwnRows(p) \subseteq OwnRows(p)'
      BY <1>0, <1>2, <2>3 DEF OwnRows, PassType
    <2> QED
      BY <1>1, <2>1, <2>2, <2>4
  <1> QED
    BY <1>1, <1>4, <1>5, <1>6
    DEF PassInv, CacheIsPrompts, AttendsToPrompt, MultipliesByOwn, RamIsOwn
-------------------------------------------------------------------------------
LEMMA BeforeFfnAreWeights == BeforeFfn \subseteq Weights
  BY DEF BeforeFfn, Weights

\* The layer a pass is at.
LEMMA AtALayer ==
  ASSUME PassType, at < NLayers
  PROVE  at \in LayerIds /\ at # Rest /\ at + 1 # Rest /\ at + 1 \in 0..Rest
  BY Ds4Assumption DEF PassType, LayerIds, Rest

\* What a step from one layer to the next leaves to be shown.
LEMMA StepToNextLayer ==
  ASSUME PassInv, at < NLayers, at' = at + 1,
         UNCHANGED weightVars, UNCHANGED <<acts, kvLen, pos, fed>>,
         failures' \in 0..MaxFailures, failures <= failures',
         scratch' \in [Weights -> LayerIds \cup {Junk}],
         kv' \in [LayerIds -> [Positions -> (Vocab \cup {Nothing}) \X Nat]],
         CacheIsPrompts', AttendsToPrompt', MultipliesByOwn'
  PROVE  PassInv'
  <1>1. PassType /\ MaxFailures \in Nat /\ failures \in Nat
    BY Ds4Assumption DEF PassInv, PassType
  <1>2. PassType'
    BY <1>1, AtALayer DEF PassType, weightVars
  <1>3. LengthIsPrompt' /\ ActsAreTokens'
    BY <1>1, AtALayer DEF PassInv, LengthIsPrompt, ActsAreTokens
  <1>4. RamIsOwn'
    BY DEF PassInv, RamIsOwn, weightVars
  <1> QED
    BY <1>2, <1>3, <1>4 DEF PassInv

LEMMA StepPassedOver == ASSUME PassInv, LayerPassedOver PROVE PassInv'
  <1>0. PassType /\ at < NLayers /\ at \in LayerIds /\ ~ fast
    BY AtALayer DEF PassInv, LayerPassedOver
  <1>1. /\ at' = at + 1 /\ rows' = <<>> /\ used' = {} /\ kv' = kv
        /\ UNCHANGED weightVars /\ UNCHANGED <<acts, kvLen, pos, fed>>
        /\ Read({"attn_norm"}, {})
    BY DEF LayerPassedOver
  <1>2. /\ failures' \in 0..MaxFailures /\ failures <= failures' /\ failures' > 0
        /\ scratch' \in [Weights -> LayerIds \cup {Junk}]
    <2>1. {"attn_norm"} \in SUBSET Weights /\ {"attn_norm"} \ {} # {}
      BY DEF Weights
    <2> QED
      BY <1>0, <1>1, <2>1, ReadCounts
  <1>3. ASSUME NEW l \in LayerIds, NEW p \in Positions
        PROVE  IF Computed(l, p)' THEN kv'[l][p] \in OwnRows(p)' ELSE kv'[l][p] = <<Nothing, p>>
    <2>1. IF Computed(l, p) THEN kv[l][p] \in OwnRows(p) ELSE kv[l][p] = <<Nothing, p>>
      BY DEF PassInv, CacheIsPrompts
    <2>2. OwnRows(p) \subseteq OwnRows(p)' /\ <<Nothing, p>> \in OwnRows(p)'
      BY <1>1, <1>2 DEF OwnRows
    <2>3. Computed(l, p) => Computed(l, p)'
      BY <1>0, <1>1 DEF Computed, LayerIds
    <2> QED
      BY <1>1, <2>1, <2>2, <2>3
  <1>4. CacheIsPrompts' /\ AttendsToPrompt' /\ MultipliesByOwn'
    BY <1>1, <1>3 DEF CacheIsPrompts, AttendsToPrompt, MultipliesByOwn
  <1>5. kv' \in [LayerIds -> [Positions -> (Vocab \cup {Nothing}) \X Nat]]
    BY <1>0, <1>1 DEF PassType
  <1> QED
    BY <1>0, <1>1, <1>2, <1>4, <1>5, StepToNextLayer

\* A layer that reads its weights, some or all of which arrive.
LEMMA StepFromFiles ==
  ASSUME PassInv, at < NLayers, ~ fast,
         NEW tried \in SUBSET Weights, NEW got \in SUBSET tried, "attn_kv" \in tried,
         Read(tried, got), Attended(got), used' = Multiplied(got), at' = at + 1,
         UNCHANGED weightVars, UNCHANGED <<acts, kvLen, pos, fed>>
  PROVE  PassInv'
  <1>0. PassType /\ at \in LayerIds
    BY AtALayer DEF PassInv
  <1>1. /\ failures' \in 0..MaxFailures /\ failures <= failures'
        /\ tried \ got # {} => failures' > 0
        /\ scratch' \in [Weights -> LayerIds \cup {Junk}]
    BY <1>0, ReadCounts
  <1>2. "attn_kv" \notin got => failures' > 0
    BY <1>1
  <1>3. failures' \in Nat /\ UNCHANGED <<fast, acts, pos, fed>>
    BY <1>1, Ds4Assumption DEF weightVars
  <1>4. /\ kv' \in [LayerIds -> [Positions -> (Vocab \cup {Nothing}) \X Nat]]
        /\ CacheIsPrompts' /\ AttendsToPrompt'
    BY <1>0, <1>1, <1>2, <1>3, StepAttend
  <1>5. \A w \in got : scratch'[w] = at
    BY DEF Read
  <1>6. MultipliesByOwn'
    BY <1>0, <1>5, StepMultiply
  <1> QED
    BY <1>1, <1>4, <1>6, StepToNextLayer

LEMMA StepFromRam == ASSUME PassInv, LayerFromRam PROVE PassInv'
  <1>0. PassType /\ at < NLayers /\ at \in LayerIds /\ fast
    BY AtALayer DEF PassInv, LayerFromRam
  <1>1. /\ Attended(Weights) /\ used' = Multiplied(Weights) /\ at' = at + 1
        /\ UNCHANGED weightVars /\ UNCHANGED <<scratch, failures, acts, kvLen, pos, fed>>
    BY DEF LayerFromRam
  <1>2. /\ failures' \in 0..MaxFailures /\ failures' \in Nat /\ failures <= failures'
        /\ scratch' \in [Weights -> LayerIds \cup {Junk}]
        /\ UNCHANGED <<fast, acts, pos, fed>>
    BY <1>0, <1>1, Ds4Assumption DEF PassType, weightVars
  <1>3. /\ kv' \in [LayerIds -> [Positions -> (Vocab \cup {Nothing}) \X Nat]]
        /\ CacheIsPrompts' /\ AttendsToPrompt'
    BY <1>0, <1>1, <1>2, StepAttend
  <1>4. MultipliesByOwn'
    BY <1>0, <1>1, StepMultiply
  <1> QED
    BY <1>0, <1>1, <1>2, <1>3, <1>4, StepToNextLayer

LEMMA StepLogits == ASSUME PassInv, Logits PROVE PassInv'
  <1>0. PassType /\ NLayers \in Nat \ {0}
    BY Ds4Assumption DEF PassInv
  <1>1. /\ at = NLayers /\ at' = Rest /\ rows' = <<>> /\ used' = {}
        /\ kvLen' = IF pos >= kvLen THEN pos + 1 ELSE kvLen
        /\ UNCHANGED weightVars /\ UNCHANGED <<scratch, kv, acts, pos, fed, failures>>
    BY DEF Logits
  <1>2. pos = Len(fed) - 1 /\ kvLen = pos /\ Len(fed) \in Nat
    BY <1>0, <1>1 DEF PassInv, LengthIsPrompt, Rest, PassType
  <1>3. PassType' /\ LengthIsPrompt'
    BY <1>0, <1>1, <1>2 DEF PassType, LengthIsPrompt, Rest, weightVars
  <1>4. ASSUME NEW l \in LayerIds, NEW p \in Positions
        PROVE  Computed(l, p)' = Computed(l, p)
    BY <1>0, <1>1 DEF Computed, Rest
  <1>5. CacheIsPrompts'
    BY <1>1, <1>4 DEF PassInv, CacheIsPrompts, OwnRows
  <1> QED
    BY <1>1, <1>3, <1>5
    DEF PassInv, ActsAreTokens, AttendsToPrompt, MultipliesByOwn, RamIsOwn, weightVars

-------------------------------------------------------------------------------
LEMMA NextPassInv == PassInv /\ [Ds4Next]_ds4Vars => PassInv'
  <1> SUFFICES ASSUME PassInv, [Ds4Next]_ds4Vars PROVE PassInv'
    OBVIOUS
  <1>1. CASE Ds4Reset
    BY <1>1, StepReset
  <1>2. CASE \E t \in Vocab : Embed(t)
    BY <1>2, StepEmbed
  <1>3. CASE LayerPassedOver
    BY <1>3, StepPassedOver
  <1>4. CASE \E got \in SUBSET BeforeFfn : LayerCutShort(got)
    <2>1. PICK got \in SUBSET BeforeFfn : LayerCutShort(got)
      BY <1>4
    <2>2. "attn_kv" \in BeforeFfn
      BY DEF BeforeFfn
    <2> QED
      BY <2>1, <2>2, BeforeFfnAreWeights, StepFromFiles DEF LayerCutShort
  <1>5. CASE \E got \in SUBSET Weights : LayerFromFiles(got)
    <2>1. PICK got \in SUBSET Weights : LayerFromFiles(got)
      BY <1>5
    <2>2. "attn_kv" \in Weights
      BY DEF Weights
    <2> QED
      BY <2>1, <2>2, StepFromFiles DEF LayerFromFiles
  <1>6. CASE LayerFromRam
    BY <1>6, StepFromRam
  <1>7. CASE Logits
    BY <1>7, StepLogits
  <1>8. CASE UNCHANGED ds4Vars
    BY <1>8
    DEF ds4Vars, weightVars, passVars, PassInv, PassType, LengthIsPrompt, ActsAreTokens,
        CacheIsPrompts, Computed, OwnRows, RamIsOwn, AttendsToPrompt, MultipliesByOwn
  <1> QED
    BY <1>1, <1>2, <1>3, <1>4, <1>5, <1>6, <1>7, <1>8 DEF Ds4Next

\* What is known of the DeepSeek context, within a pass and between two.
THEOREM PassInvariant == Ds4Spec => []PassInv
  <1>1. Ds4Create => PassInv
    BY CreateInv
  <1> QED
    BY <1>1, NextPassInv, PTL DEF Ds4Spec

\* No layer ever attends to a row of an earlier prompt or of another position,
\* whatever reads fail and whichever layers are passed over.
THEOREM PromptIsAttendedTo == Ds4Spec => []AttendsToPrompt
  BY PassInvariant, PTL DEF PassInv

\* No layer multiplies by the weights of another one, or by a matrix read in
\* part, unless a read failed while the context was created.
THEOREM OwnWeightsAreUsed == Ds4Spec => []MultipliesByOwn
  BY PassInvariant, PTL DEF PassInv

-------------------------------------------------------------------------------
(* The router of the transformer.                                             *)

\* The scan over the scores stops with one of the largest.
LEMMA MaxOfInterval == ASSUME NEW N \in Nat PROVE Max(0..N) = N
  BY DEF Max

IsScan(f, score, N) ==
  f = [j \in 0..N |-> IF j = 0 THEN 0
                      ELSE IF score[j] > score[f[j - 1]] THEN j ELSE f[j - 1]]

LEMMA BestByScan ==
  ASSUME NEW N \in Nat, NEW score \in [0..N -> Int]
  PROVE  Best(score) = (CHOOSE f : IsScan(f, score, N))[N]
  <1>1. DOMAIN score = 0..N /\ Max(0..N) = N
    BY MaxOfInterval
  <1>2. Best(score) = (CHOOSE f : f = [j \in DOMAIN score |->
                          IF j = 0 THEN 0
                          ELSE IF score[j] > score[f[j - 1]] THEN j ELSE f[j - 1]])[Max(DOMAIN score)]
    BY Zenon DEF Best
  <1> QED
    BY <1>1, <1>2, Zenon DEF IsScan

LEMMA BestIsLargest ==
  ASSUME NEW N \in Nat, NEW score \in [0..N -> Int]
  PROVE  /\ Best(score) \in 0..N
         /\ \A d \in 0..N : score[d] <= score[Best(score)]
  <1> DEFINE step == [j \in 1..N |-> [x \in 0..N |-> IF score[j] > score[x] THEN j ELSE x]]
             scan == CHOOSE f : IsScan(f, score, N)
             S == {j \in 0..N : scan[j] \in 0..N /\ \A d \in 0..j : score[d] <= score[scan[j]]}
  <1>1. \E f : IsScan(f, score, N)
    <2>1. AreSteps(step, 0..N, N)
      BY DEF AreSteps
    <2>2. 0 \in 0..N
      OBVIOUS
    <2>3. PICK f : Follows(f, 0..N, 0, step, N)
      BY <2>1, <2>2, RecursiveValues
    <2>4. f \in [0..N -> 0..N] /\ f[0] = 0 /\ \A j \in 1..N : f[j] = step[j][f[j - 1]]
      BY <2>3 DEF Follows
    <2>5. ASSUME NEW j \in 1..N
          PROVE  f[j] = IF score[j] > score[f[j - 1]] THEN j ELSE f[j - 1]
      <3>1. j - 1 \in 0..N
        OBVIOUS
      <3>2. f[j - 1] \in 0..N
        BY <2>4, <3>1
      <3> QED
        BY <2>4, <3>2
    <2>6. f = [j \in 0..N |-> IF j = 0 THEN 0
                              ELSE IF score[j] > score[f[j - 1]] THEN j ELSE f[j - 1]]
      <3>1. f = [j \in 0..N |-> f[j]]
        BY <2>4
      <3>2. \A j \in 0..N : f[j] = IF j = 0 THEN 0
                              ELSE IF score[j] > score[f[j - 1]] THEN j ELSE f[j - 1]
        <4> TAKE j \in 0..N
        <4>1. j = 0 \/ (j # 0 /\ j \in 1..N)
          OBVIOUS
        <4> QED
          BY <2>4, <2>5, <4>1
      <3> QED
        BY <3>1, <3>2, Zenon
    <2> QED
      BY <2>6, Zenon DEF IsScan
  <1>2. IsScan(scan, score, N)
    BY <1>1
  <1> HIDE DEF scan
  <1>3. scan[0] = 0
    BY <1>2 DEF IsScan
  <1>4. \A j \in 0..N - 1 : scan[j + 1] = IF score[j + 1] > score[scan[j]] THEN j + 1 ELSE scan[j]
    BY <1>2 DEF IsScan
  <1>5. 0 \in S
    BY <1>3
  <1>6. \A j \in 0..N - 1 : j \in S => j + 1 \in S
    <2> SUFFICES ASSUME NEW j \in 0..N - 1, j \in S PROVE j + 1 \in S
      OBVIOUS
    <2>1. scan[j] \in 0..N /\ j + 1 \in 0..N /\ score[scan[j]] \in Int /\ score[j + 1] \in Int
      OBVIOUS
    <2>2. \A d \in 0..j : score[d] <= score[scan[j]] /\ score[d] \in Int
      OBVIOUS
    <2>3. scan[j + 1] = IF score[j + 1] > score[scan[j]] THEN j + 1 ELSE scan[j]
      BY <1>4
    <2>4. scan[j + 1] \in 0..N
      BY <2>1, <2>3
    <2>5. \A d \in 0..j + 1 : d \in 0..j \/ d = j + 1
      OBVIOUS
    <2>6. \A d \in 0..j + 1 : score[d] <= score[scan[j + 1]]
      BY <2>1, <2>2, <2>3, <2>5
    <2> QED
      BY <2>1, <2>4, <2>6
  <1>7. N \in S
    <2> HIDE DEF S
    <2>1. N \in 0..N
      OBVIOUS
    <2> QED
      BY <1>5, <1>6, <2>1, InductionUpTo
  <1> QED
    BY <1>7, BestByScan DEF scan

\* Excluding an expert leaves scores.
LEMMA ExcludedScores ==
  ASSUME NEW N, NEW s \in [0..N -> Int], NEW b
  PROVE  [s EXCEPT ![b] = Excluded] \in [0..N -> Int]
  <1>1. Excluded \in Int
    BY DEF Excluded
  <1> QED
    BY <1>1

\* What is left of the scores after i experts were picked.
Left(left, score, n) ==
  left = [i \in 0..n |-> IF i = 0 THEN score
                         ELSE [left[i - 1] EXCEPT ![Best(left[i - 1])] = Excluded]]

LEMMA PickedOneByOne ==
  ASSUME NEW N \in Nat, NEW score \in [0..N -> Nat], NEW n \in Nat
  PROVE  \E left : /\ Left(left, score, n)
                   /\ left \in [0..n -> [0..N -> Int]]
                   /\ TopExperts(score, n) = [i \in 1..n |-> Best(left[i - 1])]
  <1> DEFINE X == [0..N -> Int]
             step == [i \in 1..n |-> [s \in X |-> [s EXCEPT ![Best(s)] = Excluded]]]
             left == CHOOSE f : Left(f, score, n)
  <1>1. \E f : Left(f, score, n)
    <2>1. AreSteps(step, X, n)
      <3>1. \A s \in X : [s EXCEPT ![Best(s)] = Excluded] \in X
        BY ExcludedScores, Zenon
      <3> HIDE DEF X
      <3> QED
        BY <3>1, Zenon DEF AreSteps
    <2>2. score \in X
      OBVIOUS
    <2>3. PICK f : Follows(f, X, score, step, n)
      BY <2>1, <2>2, RecursiveValues, Zenon
    <2>4. f \in [0..n -> X] /\ f[0] = score /\ \A i \in 1..n : f[i] = step[i][f[i - 1]]
      BY <2>3, Zenon DEF Follows
    <2>5. ASSUME NEW i \in 1..n
          PROVE  f[i] = [f[i - 1] EXCEPT ![Best(f[i - 1])] = Excluded]
      <3>1. i - 1 \in 0..n
        OBVIOUS
      <3>2. f[i - 1] \in X
        BY <2>4, <3>1, Zenon
      <3> QED
        BY <2>4, <3>2, Zenon
    <2>6. f = [i \in 0..n |-> IF i = 0 THEN score
                              ELSE [f[i - 1] EXCEPT ![Best(f[i - 1])] = Excluded]]
      <3>1. f = [i \in 0..n |-> f[i]]
        BY <2>4
      <3>2. \A i \in 0..n : f[i] = IF i = 0 THEN score
                              ELSE [f[i - 1] EXCEPT ![Best(f[i - 1])] = Excluded]
        <4> TAKE i \in 0..n
        <4>1. i = 0 \/ (i # 0 /\ i \in 1..n)
          OBVIOUS
        <4> QED
          BY <2>4, <2>5, <4>1, Zenon
      <3> QED
        BY <3>1, <3>2, Zenon
    <2> QED
      BY <2>6, Zenon DEF Left
  <1>2. Left(left, score, n)
    BY <1>1, Zenon
  <1>3. TopExperts(score, n) = [i \in 1..n |-> Best(left[i - 1])]
    BY Zenon DEF TopExperts, Left
  <1> HIDE DEF left
  <1>4. left \in [0..n -> X]
    <2> DEFINE S == {i \in 0..n : left[i] \in X}
    <2>1. left[0] = score
      BY <1>2 DEF Left
    <2>2. \A i \in 0..n - 1 : left[i + 1] = [left[i] EXCEPT ![Best(left[i])] = Excluded]
      <3> TAKE i \in 0..n - 1
      <3>1. i + 1 \in 0..n /\ i + 1 # 0 /\ (i + 1) - 1 = i
        OBVIOUS
      <3> QED
        BY <1>2, <3>1 DEF Left
    <2>3. 0 \in S
      BY <2>1
    <2>4. \A i \in 0..n - 1 : i \in S => i + 1 \in S
      <3> SUFFICES ASSUME NEW i \in 0..n - 1, left[i] \in X PROVE i + 1 \in S
        OBVIOUS
      <3>1. [left[i] EXCEPT ![Best(left[i])] = Excluded] \in X
        BY ExcludedScores, Zenon
      <3>2. i + 1 \in 0..n
        OBVIOUS
      <3> QED
        BY <2>2, <3>1, <3>2
    <2>5. \A i \in 0..n : i \in S
      <3> HIDE DEF S
      <3> QED
        BY <2>3, <2>4, InductionUpTo
    <2>6. left = [i \in 0..n |-> left[i]]
      BY <1>2 DEF Left
    <2> QED
      BY <2>5, <2>6
  <1> QED
    BY <1>2, <1>3, <1>4

\* The first i experts picked, and no score of theirs left.
PickedUpTo(left, score, N, i) ==
  LET picked == {Best(left[j - 1]) : j \in 1..i}
  IN  /\ IsFiniteSet(picked) /\ Cardinality(picked) <= i
      /\ \A e \in 0..N : left[i][e] = IF e \in picked THEN Excluded ELSE score[e]

\* The router of a layer picks as many experts as it is asked for, all
\* different, and leaves out none with a higher score than one it picked, for
\* any number of experts and any scores.
THEOREM TopExpertsArePicked ==
  ASSUME NEW N \in Nat, NEW score \in [0..N -> Nat], NEW n \in 0..N + 1
  PROVE  LET top == TopExperts(score, n)
             picked == {top[i] : i \in 1..n}
         IN  /\ \A i, j \in 1..n : i # j => top[i] # top[j]
             /\ picked \subseteq 0..N
             /\ \A e \in picked, d \in (0..N) \ picked : score[e] >= score[d]
  <1>1. PICK left : /\ Left(left, score, n)
                    /\ left \in [0..n -> [0..N -> Int]]
                    /\ TopExperts(score, n) = [i \in 1..n |-> Best(left[i - 1])]
    <2>1. n \in Nat
      OBVIOUS
    <2> QED
      BY <2>1, PickedOneByOne
  <1> DEFINE Picked(i) == {Best(left[j - 1]) : j \in 1..i}
             S == {i \in 0..n : PickedUpTo(left, score, N, i)}
  <1>0. Left(left, score, n)
    BY <1>1
  <1>2. left[0] = score
    BY <1>0 DEF Left
  <1>3. \A i \in 0..n - 1 : left[i + 1] = [left[i] EXCEPT ![Best(left[i])] = Excluded]
    <2> TAKE i \in 0..n - 1
    <2>1. i + 1 \in 0..n /\ i + 1 # 0 /\ (i + 1) - 1 = i
      OBVIOUS
    <2> QED
      BY <1>0, <2>1 DEF Left
  <1>4. \A i \in 0..n : /\ left[i] \in [0..N -> Int] /\ Best(left[i]) \in 0..N
                        /\ \A d \in 0..N : left[i][d] <= left[i][Best(left[i])]
    <2> TAKE i \in 0..n
    <2>1. PICK s \in [0..N -> Int] : s = left[i]
      BY <1>1
    <2>2. Best(s) \in 0..N /\ \A d \in 0..N : s[d] <= s[Best(s)]
      BY BestIsLargest
    <2> QED
      BY <2>1, <2>2
  <1>5. 0 \in S
    <2>1. Picked(0) = {}
      OBVIOUS
    <2>2. IsFiniteSet(Picked(0)) /\ Cardinality(Picked(0)) = 0
      BY <2>1, FS_EmptySet
    <2>3. PickedUpTo(left, score, N, 0)
      BY <1>2, <2>1, <2>2 DEF PickedUpTo
    <2>4. 0 \in 0..n
      OBVIOUS
    <2> QED
      BY <2>3, <2>4
  <1>6. \A i \in 0..n - 1 : i \in S => i + 1 \in S
    <2> SUFFICES ASSUME NEW i \in 0..n - 1, i \in S PROVE i + 1 \in S
      OBVIOUS
    <2>1. PickedUpTo(left, score, N, i) /\ i \in 0..n /\ i + 1 \in 0..n
      OBVIOUS
    <2> DEFINE b == Best(left[i])
    <2>2. Picked(i + 1) = Picked(i) \cup {b}
      <3>1. 1..i + 1 = (1..i) \cup {i + 1} /\ (i + 1) - 1 = i
        OBVIOUS
      <3> QED
        BY <3>1
    <2>3. IsFiniteSet(Picked(i)) /\ Cardinality(Picked(i)) <= i
          /\ \A e \in 0..N : left[i][e] = IF e \in Picked(i) THEN Excluded ELSE score[e]
      BY <2>1 DEF PickedUpTo
    <2>4. IsFiniteSet(Picked(i + 1)) /\ Cardinality(Picked(i + 1)) <= i + 1
      <3> DEFINE P == Picked(i)
      <3> HIDE DEF P, b
      <3>1. IsFiniteSet(P \cup {b})
        BY <2>3, FS_AddElement DEF P
      <3>2. /\ Cardinality(P \cup {b}) = IF b \in P THEN Cardinality(P) ELSE Cardinality(P) + 1
            /\ Cardinality(P) \in Nat
        BY <2>3, FS_AddElement, FS_CardinalityType DEF P
      <3>3. Cardinality(P \cup {b}) <= i + 1
        BY <2>3, <3>2 DEF P
      <3> QED
        BY <2>2, <3>1, <3>3 DEF P
    <2>5. b \in 0..N /\ left[i] \in [0..N -> Int]
      BY <1>4, <2>1
    <2>6. left[i + 1] = [left[i] EXCEPT ![b] = Excluded]
      BY <1>3
    <2>7. \A e \in 0..N : left[i + 1][e] = IF e \in Picked(i + 1) THEN Excluded ELSE score[e]
      <3> HIDE DEF b, Picked
      <3>1. \A e \in 0..N : left[i + 1][e] = IF e = b THEN Excluded ELSE left[i][e]
        BY <2>5, <2>6
      <3> QED
        BY <2>2, <2>3, <3>1
    <2>8. PickedUpTo(left, score, N, i + 1)
      BY <2>4, <2>7 DEF PickedUpTo
    <2> QED
      BY <2>1, <2>8
  <1>7. \A i \in 0..n : PickedUpTo(left, score, N, i)
    <2>1. n \in Nat
      OBVIOUS
    <2>2. \A i \in 0..n : i \in S
      <3> HIDE DEF S
      <3> QED
        BY <1>5, <1>6, <2>1, InductionUpTo
    <2> QED
      BY <2>2
  \* An expert that is picked was not picked before, and none of the others
  \* has a higher score.
  <1>8. ASSUME NEW i \in 1..n
        PROVE  /\ Best(left[i - 1]) \in 0..N /\ Best(left[i - 1]) \notin Picked(i - 1)
               /\ \A d \in (0..N) \ Picked(i - 1) : score[d] <= score[Best(left[i - 1])]
    <2>1. PICK h \in 0..n : h = i - 1 /\ h < N + 1
      OBVIOUS
    <2>2. /\ IsFiniteSet(Picked(h)) /\ Cardinality(Picked(h)) <= h
          /\ \A e \in 0..N : left[h][e] = IF e \in Picked(h) THEN Excluded ELSE score[e]
      BY <1>7 DEF PickedUpTo
    <2>3. /\ Best(left[h]) \in 0..N
          /\ \A d \in 0..N : left[h][d] <= left[h][Best(left[h])]
      BY <1>4
    <2>4. Picked(h) \subseteq 0..N
      <3>1. ASSUME NEW j \in 1..h PROVE Best(left[j - 1]) \in 0..N
        <4>1. j - 1 \in 0..n
          OBVIOUS
        <4> QED
          BY <1>4, <4>1
      <3> QED
        BY <3>1
    <2> HIDE DEF Picked
    <2>5. \E e \in 0..N : e \notin Picked(h)
      <3>1. SUFFICES ASSUME Picked(h) = 0..N PROVE FALSE
        BY <2>4
      <3>2. Cardinality(0..N) = N + 1
        BY FS_Interval
      <3> QED
        BY <2>1, <2>2, <3>1, <3>2
    <2>6. PICK e \in 0..N : e \notin Picked(h)
      BY <2>5
    <2>7. left[h][e] = score[e] /\ score[e] \in Nat
      BY <2>2, <2>6
    <2>8. Best(left[h]) \notin Picked(h)
      BY <2>2, <2>3, <2>6, <2>7 DEF Excluded
    <2>9. \A d \in (0..N) \ Picked(h) : score[d] <= score[Best(left[h])]
      BY <2>2, <2>3, <2>8
    <2> QED
      BY <2>1, <2>3, <2>8, <2>9
  <1> DEFINE top == TopExperts(score, n)
             picked == {top[i] : i \in 1..n}
  <1>9. \A i \in 1..n : top[i] = Best(left[i - 1])
    BY <1>1
  <1>10. picked = Picked(n)
    BY <1>9
  <1>11. ASSUME NEW i \in 1..n, NEW j \in 1..n, j < i PROVE top[j] # top[i]
    <2>1. top[j] \in Picked(i - 1)
      <3>1. j \in 1..i - 1
        BY <1>11
      <3> QED
        BY <1>9, <3>1
    <2> QED
      BY <1>8, <1>9, <2>1
  <1>12. \A i, j \in 1..n : i # j => top[i] # top[j]
    <2> TAKE i, j \in 1..n
    <2> HIDE DEF top
    <2>1. i < j \/ j < i \/ i = j
      OBVIOUS
    <2> QED
      BY <1>11, <2>1
  <1>13. picked \subseteq 0..N
    BY <1>8, <1>9
  <1>14. ASSUME NEW e \in picked, NEW d \in (0..N) \ picked PROVE score[e] >= score[d]
    <2>1. PICK i \in 1..n : e = Best(left[i - 1])
      BY <1>9
    <2>2. Picked(i - 1) \subseteq Picked(n)
      <3>1. 1..i - 1 \subseteq 1..n
        OBVIOUS
      <3> QED
        BY <3>1
    <2>3. d \in (0..N) \ Picked(i - 1)
      BY <1>10, <2>2
    <2>4. score[d] <= score[e] /\ e \in 0..N
      BY <1>8, <2>1, <2>3
    <2> QED
      BY <2>4
  <1> QED
    BY <1>12, <1>13, <1>14

\* The same of the experts a token gets, in the size the runs evaluate.
LEMMA TopExpertsOfThree == PicksTopExperts
  <1> SUFFICES ASSUME NEW score \in [0..2 -> 0..2], NEW u \in 0..4
               PROVE  LET n == Used(u, 3)
                          top == TopExperts(score, n)
                          picked == {top[i] : i \in 1..n}
                      IN  /\ \A i, j \in 1..n : i # j => top[i] # top[j]
                          /\ \A e \in picked, d \in (0..2) \ picked : score[e] >= score[d]
    BY DEF PicksTopExperts
  <1>1. Used(u, 3) \in 0..2 + 1
    <2>1. \A a \in Nat : Min({a, 3}) = IF a <= 3 THEN a ELSE 3
      BY DEF Min
    <2>2. (IF u = 0 THEN 1 ELSE u) \in Nat
      OBVIOUS
    <2> QED
      BY <2>1, <2>2 DEF Used
  <1>2. score \in [0..2 -> Nat] /\ 2 \in Nat
    OBVIOUS
  <1> QED
    BY <1>1, <1>2, TopExpertsArePicked

-------------------------------------------------------------------------------
(* The backend that is there.                                                 *)

\* The transformer's variables that CacheType says nothing of.
CountsTyped ==
  /\ n_compressed \in 0..MaxCompressed
  /\ file.hdr = 3 => file.n_compressed \in 0..MaxCompressed
  /\ passes \in 0..MaxPasses /\ misses \in 0..MaxMisses
  /\ t_x \in Tokens \cup {"zero", "spoilt"}
  /\ attended \in Seq(Cells \X Cells)

\* What a layer reads are cells.
LEMMA AttentionTyped ==
  ASSUME KvInductive, NEW failed \in SUBSET Steps, Layer(failed)
  PROVE  Attention \in Seq(Cells \X Cells)
  <1>1. KvInductive'
    BY LayerInductive
  <1>2. /\ ~ Idle /\ Projected(failed) /\ Appended /\ CacheType /\ PassIsForToken
        /\ max_ctx' = max_ctx
    BY DEF KvInductive, Layer
  <1>3. /\ max_ctx \in Nat \ {0} /\ Layers \in Nat \ {0} /\ layer \in 0..Layers - 1
        /\ row.pos \in Nat /\ n_tokens \in Nat /\ n_tokens <= max_ctx
    BY <1>2, SizesTyped, KvAssumption DEF CacheType, Idle, PassIsForToken
  <1>4. /\ k' \in [1..Size -> Cells] /\ v' \in [1..Size -> Cells] /\ n_tokens' \in Nat
        /\ row.pos >= max_ctx => n_tokens' = n_tokens
        /\ row.pos < max_ctx =>
             n_tokens' = IF n_tokens >= row.pos + 1 THEN n_tokens ELSE row.pos + 1
    BY <1>2, RowsProjected, RowStored
  <1>5. n_tokens' <= max_ctx
    BY <1>3, <1>4
  <1>6. ASSUME NEW p \in 1..n_tokens', NEW a \in [1..Size -> Cells]
        PROVE  Get(a, layer, p - 1) \in Cells
    <2>1. p \in 1..max_ctx
      BY <1>3, <1>4, <1>5
    <2>2. layer * max_ctx + p \in 1..Size
      BY <1>3, <2>1, CellInArray DEF Size
    <2>3. Cell(layer, p - 1) = layer * max_ctx + p
      BY <1>3, <2>1 DEF Cell
    <2> QED
      BY <1>6, <2>2, <2>3 DEF Get
  <1>7. \A p \in 1..n_tokens' :
          <<Get(k', layer, p - 1), Get(v', layer, p - 1)>> \in Cells \X Cells
    BY <1>4, <1>6
  <1> QED
    BY <1>4, <1>7 DEF Attention

\* How many steps of a layer fail.
LEMMA FailuresCounted ==
  ASSUME NEW failed \in SUBSET Steps
  PROVE  Cardinality(failed) \in Nat
  <1>1. IsFiniteSet({"norm"})
    BY FS_Singleton, Zenon
  <1>2. {"norm", "k"} = {"norm"} \cup {"k"}
    OBVIOUS
  <1>3. IsFiniteSet({"norm", "k"})
    BY <1>1, <1>2, OneMoreIsFinite, Zenon
  <1>4. {"norm", "k", "v"} = {"norm", "k"} \cup {"v"}
    OBVIOUS
  <1>5. IsFiniteSet({"norm", "k", "v"})
    BY <1>3, <1>4, OneMoreIsFinite, Zenon
  <1>6. Steps = {"norm", "k", "v"} \cup {"rest"}
    BY DEF Steps
  <1>7. IsFiniteSet(Steps)
    BY <1>5, <1>6, OneMoreIsFinite, Zenon
  <1> QED
    BY <1>7, FS_Subset, FS_CardinalityType

LEMMA CountsInit == Init => CountsTyped
  BY KvAssumption DEF Init, CountsTyped, NoFile

\* A compression drops tokens.
LEMMA CompressCounts ==
  ASSUME CacheType, CountsTyped, NEW step \in Ratios, Compress(step)
  PROVE  n_compressed' \in 0..MaxCompressed
  <1>1. /\ n_tokens \in Nat /\ n_tokens >= 2 /\ step \in Nat \ {0, 1}
        /\ n_compressed \in Nat /\ MaxCompressed \in Nat
    BY KvAssumption DEF CacheType, CountsTyped, Compress
  <1>2. Shorter(n_tokens, step) \in 1..n_tokens
    BY <1>1, ShorterLength
  <1>3. /\ n_compressed' = n_compressed + n_tokens - Shorter(n_tokens, step)
        /\ n_compressed + n_tokens - Shorter(n_tokens, step) <= MaxCompressed
    BY DEF Compress
  <1> QED
    BY <1>1, <1>2, <1>3

LEMMA CountsNext ==
  ASSUME KvInductive, CountsTyped, [Next]_kvVars
  PROVE  CountsTyped'
  <1>0. CacheType /\ <<>> \in Seq(Cells \X Cells)
    BY DEF KvInductive
  <1>1. CASE Reset
    BY <1>0, <1>1, KvAssumption DEF Reset, passState, CountsTyped
  <1>2. ASSUME NEW step \in Ratios, Compress(step) PROVE CountsTyped'
    <2>1. n_compressed' \in 0..MaxCompressed
      BY <1>0, <1>2, CompressCounts
    <2> QED
      BY <1>0, <1>2, <2>1 DEF Compress, passState, CountsTyped
  <1>3. CASE SaveHeader
    <2>1. file'.hdr # 3
      BY <1>3 DEF SaveHeader, Written, NoFile
    <2>2. attended' = <<>> /\ UNCHANGED <<cacheVars, passState>>
      BY <1>3 DEF SaveHeader, Written
    <2> QED
      BY <1>0, <2>1, <2>2 DEF cacheVars, passState, CountsTyped
  <1>4. ASSUME NEW n \in 0..2 * Size, Save(n) PROVE CountsTyped'
    <2>1. file'.n_compressed = n_compressed
      BY <1>4 DEF Save, Written
    <2> QED
      BY <1>0, <1>4, <2>1 DEF Save, Written, cacheVars, passState, CountsTyped
  <1>5. CASE LoadFails
    BY <1>0, <1>5 DEF LoadFails, passState, CountsTyped
  <1>6. CASE Load
    BY <1>0, <1>6 DEF Load, passState, CountsTyped
  <1>7. ASSUME NEW c \in Contexts, Restart(c) PROVE CountsTyped'
    BY <1>0, <1>7, KvAssumption DEF Restart, Fresh, CountsTyped
  <1>8. ASSUME NEW t \in Tokens, NEW p \in 0..max_ctx, NEW embedded \in BOOLEAN,
               Forward(t, p, embedded)
        PROVE  CountsTyped'
    <2>1. passes' \in 0..MaxPasses /\ misses' \in 0..MaxMisses
      BY <1>8, KvAssumption DEF Forward, CountsTyped
    <2> QED
      BY <1>0, <1>8, <2>1 DEF Forward, cacheVars, CountsTyped
  <1>9. ASSUME NEW failed \in SUBSET Steps, Layer(failed) PROVE CountsTyped'
    <2>1. attended' \in Seq(Cells \X Cells)
      BY <1>9, AttentionTyped DEF Layer
    <2>2. misses' \in 0..MaxMisses
      <3>1. Cardinality(failed) \in Nat /\ misses' = misses + Cardinality(failed)
        BY <1>9, FailuresCounted DEF Layer
      <3>2. misses \in Nat /\ misses' <= MaxMisses /\ MaxMisses \in Nat
        BY <1>9, KvAssumption DEF Layer, CountsTyped
      <3> QED
        BY <3>1, <3>2
    <2> QED
      BY <1>9, <2>1, <2>2 DEF Layer, CountsTyped
  <1>10. CASE LayerSkipped
    <2>1. misses' \in 0..MaxMisses
      BY <1>10, KvAssumption DEF LayerSkipped, CountsTyped
    <2> QED
      BY <1>0, <1>10, <2>1 DEF LayerSkipped, cacheVars, CountsTyped
  <1>11. CASE UNCHANGED kvVars
    BY <1>11 DEF kvVars, cacheVars, passState, CountsTyped
  <1> QED
    BY <1>1, <1>2, <1>3, <1>4, <1>5, <1>6, <1>7, <1>8, <1>9, <1>10, <1>11 DEF Next

LEMMA KvTyped == KvInductive /\ CountsTyped => KvInv
  <1> SUFFICES ASSUME KvInductive, CountsTyped PROVE KvInv
    OBVIOUS
  <1>1. KvTypeOK
    BY DEF KvInductive, CacheType, CountsTyped, KvTypeOK
  <1> QED
    BY <1>1, TopExpertsOfThree DEF KvInductive, KvInv

LEMMA Ds4Typed ==
  ASSUME PassInv, embd \in BOOLEAN
  PROVE  Ds4TypeOK
  BY DEF PassInv, PassType, LengthIsPrompt, Ds4TypeOK

\* Each backend keeps its own invariant; of the one that is not there only what
\* its own properties look at has to be known.
BackendsInductive ==
  \/ backend = "tf" /\ KvInductive /\ CountsTyped /\ rows = <<>> /\ used = {}
  \/ backend = "arch_ctx" /\ PassInv /\ embd \in BOOLEAN

LEMMA BackendsInitInductive == BackendsInit => BackendsInductive
  <1>1. Ds4Create => embd \in BOOLEAN
    BY DEF Ds4Create
  <1> QED
    BY <1>1, InitInductive, CountsInit, CreateInv DEF BackendsInit, NoDs4, BackendsInductive

LEMMA EmbdStays == [Ds4Next]_ds4Vars => embd' = embd
  BY DEF Ds4Next, Ds4Reset, Embed, LayerPassedOver, LayerCutShort, LayerFromFiles, LayerFromRam,
         Logits, ds4Vars, weightVars

LEMMA BackendsNextInductive ==
  BackendsInductive /\ [BackendsNext]_backendVars => BackendsInductive'
  <1> SUFFICES ASSUME BackendsInductive, [BackendsNext]_backendVars PROVE BackendsInductive'
    OBVIOUS
  <1>1. backend' = backend
    BY DEF BackendsNext, backendVars
  <1>2. CASE backend = "tf"
    <2>1. KvInductive /\ CountsTyped /\ rows = <<>> /\ used = {}
      BY <1>2 DEF BackendsInductive
    <2>2. [Next]_kvVars /\ rows' = rows /\ used' = used
      BY <1>2 DEF BackendsNext, backendVars, ds4Vars, passVars
    <2> QED
      BY <1>1, <1>2, <2>1, <2>2, NextInductive, CountsNext DEF BackendsInductive
  <1>3. CASE backend = "arch_ctx"
    <2>1. PassInv /\ embd \in BOOLEAN
      BY <1>3 DEF BackendsInductive
    <2>2. [Ds4Next]_ds4Vars
      BY <1>3 DEF BackendsNext, backendVars
    <2> QED
      BY <1>1, <1>3, <2>1, <2>2, NextPassInv, EmbdStays DEF BackendsInductive
  <1> QED
    BY <1>2, <1>3 DEF BackendsInductive

\* Whichever backend a load has, what is known of a backend of its kind holds
\* of it from the load on.
THEOREM BackendsInvariant == BackendsSpec => []BackendsInductive
  BY BackendsInitInductive, BackendsNextInductive, PTL DEF BackendsSpec

\* The transformer's cache holds its context and is attended to as a whole, and
\* its router picks the largest scores; the DeepSeek context has its types, and
\* between passes its length is that of the prompt.
THEOREM BackendIsRight == BackendsSpec => []BackendInv
  <1>1. BackendsInductive => BackendInv
    BY KvTyped, Ds4Typed DEF BackendsInductive, BackendInv
  <1> QED
    BY <1>1, BackendsInvariant, PTL

\* An engine's layers attend to the prompt's own rows and multiply by their own
\* weights.
THEOREM BackendIsPrompts == BackendsSpec => [](AttendsToPrompt /\ MultipliesByOwn)
  <1>1. BackendsInductive => AttendsToPrompt /\ MultipliesByOwn
    BY DEF BackendsInductive, PassInv, AttendsToPrompt, MultipliesByOwn
  <1> QED
    BY <1>1, BackendsInvariant, PTL

\* Neither backend's passes store a row over another one in the transformer's
\* cache.
THEOREM BackendStoresOneRow == BackendsSpec => OtherRowsStay
  <1> DEFINE Stay == ~ Idle /\ row' = row =>
                       \A i \in 1..Size :
                         i # layer * max_ctx + row.pos + 1 => k'[i] = k[i] /\ v'[i] = v[i]
  <1>1. ASSUME BackendsInductive, [BackendsNext]_backendVars PROVE [Stay]_kvVars
    <2>1. CASE backend = "tf"
      <3>1. KvInductive /\ [Next]_kvVars
        BY <1>1, <2>1 DEF BackendsInductive, BackendsNext, backendVars
      <3> QED
        BY <3>1, OneRowStored
    <2>2. CASE backend # "tf"
      BY <1>1, <2>2 DEF BackendsNext, backendVars
    <2> QED
      BY <2>1, <2>2
  <1> QED
    BY <1>1, BackendsInvariant, PTL DEF BackendsSpec, OtherRowsStay
===============================================================================
