------------------------------- MODULE KvCache --------------------------------
(* The KV cache of the reference transformer and the forward pass that fills  *)
(* and reads it: src/src/kv_cache/kv_cache.c, src/src/transformer/            *)
(* transformer.c. The keys and the values are two flat arrays addressed by    *)
(* layer and position; a row is named for what it was computed from and the   *)
(* rotation it has. Forward passes go layer by layer, and no step of a layer  *)
(* looks at whether the one before it succeeded: a projection that fails      *)
(* leaves its working row as it was, and that row is stored. A file holds the *)
(* header and both arrays, and is loaded without a look at its shape.         *)
(* What a wrong row does to the values computed from it later is not followed.*)
EXTENDS Integers, Sequences, FiniteSetsExt

CONSTANTS
  Tokens,         \* tokens
  Layers,         \* n_layers
  Contexts,       \* values of max_ctx that processes use
  Ratios,         \* compression ratios, as whole steps
  MaxCompressed,  \* bound: n_compressed
  Cuts,           \* bound: how many of the cells the end of a save may miss
  MaxPasses,      \* bound: forward passes, in all processes
  MaxMisses       \* bound: failures of a step of one of them

ASSUME KvAssumption ==
  /\ Tokens \cap {"zero", "spoilt"} = {}   \* not what is computed otherwise
  /\ Layers \in Nat \ {0}
  /\ Contexts \subseteq Nat \ {0}
  /\ Ratios \subseteq Nat \ {0, 1}
  /\ MaxCompressed \in Nat
  /\ Cuts \subseteq Nat
  /\ MaxPasses \in Nat /\ MaxMisses \in Nat

VARIABLES
  max_ctx, n_tokens, n_compressed,
  k, v,        \* the arrays: cells 1 .. Layers * max_ctx
  file,        \* what a save left behind, or NoFile
  layer,       \* the layer a forward pass is at; Layers when none is under way
  row,         \* the token and the position of the pass
  t_x,         \* t->x: the token the activations are of, or "spoilt"
  t_k, t_v,    \* t->k, t->v: the rows the last projections left
  passes,      \* forward passes so far
  misses,      \* failures of a step of a pass so far
  context,     \* history: the tokens fed, and the layers that lost their rows
  attended     \* history: the rows the last layer read, keys and values

cacheVars == <<max_ctx, n_tokens, n_compressed, k, v>>
passState == <<layer, row, t_x, t_k, t_v, passes, misses>>
kvVars == <<cacheVars, file, passState, context, attended>>

LayersOf == 0..Layers - 1
NoFile == [hdr |-> 0]
Idle   == layer = Layers

\* A row: of which token, position and layer, and how far it is rotated.
Cells == [tok : Tokens \cup {"zero", "spoilt"}, pos : Nat, at : Nat, turned : Nat]
Zero  == [tok |-> "zero", pos |-> 0, at |-> 0, turned |-> 0]   \* calloc'ed memory

\* The rows of a token's pass at a layer: keys are rotated, values are not.
Key(e, l)   == [tok |-> e.tok, pos |-> e.pos, at |-> l, turned |-> e.pos]
Value(e, l) == [tok |-> e.tok, pos |-> e.pos, at |-> l, turned |-> 0]

\* A token of the context; the layers that do not hold its key, its value.
Entries == [tok : Tokens \cup {"spoilt"}, pos : Nat,
            noKey : SUBSET LayersOf, noValue : SUBSET LayersOf]
Foreign == [tok |-> "spoilt", pos |-> 0, noKey |-> LayersOf, noValue |-> LayersOf]

Size == Layers * max_ctx

-------------------------------------------------------------------------------
(* The cache: kv_cache.c.                                                     *)

\* The layers as far apart as the tokens cached.
CellPacked(l, p) == l * n_tokens + p + 1

\* The cell of position p of a layer, in either array.
Cell(l, p) == l * max_ctx + p + 1

\* ct_kv_get, in either array.
Get(a, l, p) == a[Cell(l, p)]

\* Bound: a length that was loaded from a file of another shape may exceed the
\* cache; what reads and writes past the arrays then is not followed.
WithinArrays == n_tokens <= max_ctx

\* ct_kv_create: a cache of zeroes.
Fresh(c) ==
  /\ max_ctx' = c
  /\ n_tokens' = 0 /\ n_compressed' = 0
  /\ k' = [i \in 1..Layers * c |-> Zero]
  /\ v' = [i \in 1..Layers * c |-> Zero]
  /\ context' = <<>>

Init ==
  /\ max_ctx \in Contexts
  /\ n_tokens = 0 /\ n_compressed = 0
  /\ k = [i \in 1..Size |-> Zero]
  /\ v = [i \in 1..Size |-> Zero]
  /\ context = <<>> /\ attended = <<>>
  /\ file = NoFile
  /\ layer = Layers /\ row = Zero
  /\ t_x = "zero" /\ t_k = Zero /\ t_v = Zero /\ passes = 0 /\ misses = 0

\* ct_kv_append, within a forward pass: a position past the context is
\* refused, and nobody looks at that.
Appended ==
  IF row.pos >= max_ctx
  THEN UNCHANGED <<k, v, n_tokens>>
  ELSE /\ k' = [k EXCEPT ![Cell(layer, row.pos)] = t_k']
       /\ v' = [v EXCEPT ![Cell(layer, row.pos)] = t_v']
       /\ n_tokens' = Max({n_tokens, row.pos + 1})

\* ct_kv_reset, called by ct_transformer_reset: the rows stay.
Reset ==
  /\ Idle
  /\ n_tokens' = 0 /\ n_compressed' = 0
  /\ context' = <<>>
  /\ attended' = <<>>
  /\ UNCHANGED <<max_ctx, k, v, file, passState>>

\* An array after the kept rows were moved to the front, in order. A row is
\* read before anything is written to it: it moves down or stays.
Squeezed(a, step) ==
  [i \in DOMAIN a |->
     LET l == (i - 1) \div max_ctx
         p == (i - 1) % max_ctx
     IN  IF p * step < n_tokens THEN Get(a, l, p * step) ELSE a[i]]

\* The length that is left.
Shorter(n, step) == (n + step - 1) \div step

\* ct_kv_compress: a cache of fewer than two tokens is refused.
Compress(step) ==
  /\ Idle
  /\ WithinArrays
  /\ n_tokens >= 2
  /\ n_compressed + n_tokens - Shorter(n_tokens, step) <= MaxCompressed   \* bound
  /\ k' = Squeezed(k, step) /\ v' = Squeezed(v, step)
  /\ n_compressed' = n_compressed + n_tokens - Shorter(n_tokens, step)
  /\ n_tokens' = Shorter(n_tokens, step)
  /\ context' = [i \in 1..Shorter(n_tokens, step) |-> context[(i - 1) * step + 1]]
  /\ attended' = <<>>
  /\ UNCHANGED <<max_ctx, file, passState>>

\* ct_kv_save: no result of fwrite or fclose is looked at. The disk may be
\* full, or the process may die, at any point: in the header, which begins with
\* the configuration and the length, or after n of the cells, keys before values.
Written(written) ==
  /\ Idle
  /\ file' = written
  /\ attended' = <<>>
  /\ UNCHANGED <<cacheVars, passState, context>>

SaveHeader == Written(NoFile) \/ Written([hdr |-> 2, n_tokens |-> n_tokens])

Save(n) ==
  /\ n \in 0..2 * Size
  /\ 2 * Size - n \in Cuts   \* bound
  /\ Written([hdr |-> 3, ctx |-> max_ctx, n_tokens |-> n_tokens,
              n_compressed |-> n_compressed, cells |-> SubSeq(k \o v, 1, n),
              context |-> context])

\* An array after an fread of what the file has for it.
Loaded(a, from, cells) ==
  [i \in DOMAIN a |-> IF from + i <= Len(cells) THEN cells[from + i] ELSE a[i]]

\* ct_kv_load returns false: there is no file, or its header is cut short,
\* after n_tokens was read straight into the cache. (history: of the positions
\* that are counted now nothing more is known than before.)
LoadFails ==
  /\ Idle
  /\ file.hdr < 3
  /\ IF file.hdr = 2
     THEN /\ n_tokens' = file.n_tokens
          /\ context' = [i \in 1..n_tokens' |-> IF i <= Len(context) THEN context[i] ELSE Foreign]
     ELSE UNCHANGED <<n_tokens, context>>
  /\ attended' = <<>>
  /\ UNCHANGED <<max_ctx, n_compressed, k, v, file, passState>>

\* An entry of the context that these layers do not hold either.
Without(e, keys, values) ==
  [e EXCEPT !.noKey = @ \cup keys, !.noValue = @ \cup values]

\* history: a context saved with its cells, as far as those were written.
Restored(ctx, cells) ==
  [i \in DOMAIN ctx |->
     Without(ctx[i], {l \in LayersOf : Cell(l, i - 1) > Len(cells)},
                     {l \in LayersOf : Size + Cell(l, i - 1) > Len(cells)})]

\* ct_kv_load returns true: the shape in the file is not compared with that of
\* the cache, and a short file is not noticed.
Load ==
  /\ Idle
  /\ file.hdr = 3
  /\ n_tokens' = file.n_tokens /\ n_compressed' = file.n_compressed
  /\ k' = Loaded(k, 0, file.cells)
  /\ v' = Loaded(v, Size, file.cells)
  /\ context' = IF file.ctx = max_ctx THEN Restored(file.context, file.cells)
                ELSE [i \in 1..n_tokens' |-> Foreign]
  /\ attended' = <<>>
  /\ UNCHANGED <<max_ctx, file, passState>>

\* The process ends, at any point, and another one creates a transformer for
\* a context of its own.
Restart(c) ==
  /\ Fresh(c)
  /\ layer' = Layers /\ row' = Zero /\ attended' = <<>>
  /\ t_x' = "zero" /\ t_k' = Zero /\ t_v' = Zero
  /\ UNCHANGED <<file, passes, misses>>

-------------------------------------------------------------------------------
(* The forward pass: transformer.c.                                           *)

\* ct_transformer_forward for a token at a position: the next one, as the
\* engine has it after its reset, or one before it, as the test of the forward
\* pass has it, which stores a token over another one. Nobody looks at whether
\* its embedding was read.
Forward(t, p, embedded) ==
  /\ Idle
  /\ WithinArrays
  /\ p \in 0..Len(context)
  /\ layer' = 0
  /\ row' = [tok |-> t, pos |-> p]
  /\ passes < MaxPasses   \* bound
  /\ passes' = passes + 1
  /\ misses' = IF embedded THEN misses ELSE misses + 1
  /\ misses' <= MaxMisses   \* bound
  /\ t_x' = IF embedded THEN t ELSE "spoilt"
  /\ context' = LET e == [tok |-> t, pos |-> p, noKey |-> {}, noValue |-> {}]
                IN  IF p >= max_ctx THEN context
                    ELSE IF p < Len(context) THEN [context EXCEPT ![p + 1] = e]
                    ELSE Append(context, e)
  /\ attended' = <<>>
  /\ UNCHANGED <<cacheVars, file, t_k, t_v>>

\* The layer attends before it stores its own row.
AttentionFirst == [p \in 1..n_tokens |-> <<Get(k, layer, p - 1), Get(v, layer, p - 1)>>]

\* What a layer reads: all positions cached, the one just stored included.
Attention == [p \in 1..n_tokens' |-> <<Get(k', layer, p - 1), Get(v', layer, p - 1)>>]

\* The steps of a layer whose result decides what is stored, by it or by the
\* layers behind it: reading the norm's weights, projecting the key, the value,
\* and all the others. Each may fail (ct_model_matmul: the tensor is missing, is
\* not F32, has no memory or cannot be read), and nobody looks at that.
Steps == {"norm", "k", "v", "rest"}

\* The working rows after the projections. One that failed leaves what the last
\* one left; the key is rotated to the position in any case.
Projected(failed) ==
  LET h == [tok |-> IF "norm" \in failed THEN "spoilt" ELSE t_x, pos |-> row.pos]
  IN  /\ t_k' = IF "k" \in failed THEN [t_k EXCEPT !.turned = @ + row.pos] ELSE Key(h, layer)
      /\ t_v' = IF "v" \in failed THEN t_v ELSE Value(h, layer)

\* history: the row of the pass is not stored in these layers.
Lost(keys, values) ==
  context' = IF row.pos >= max_ctx THEN context
             ELSE [context EXCEPT ![row.pos + 1] = Without(@, keys, values)]

\* Whether what a projection leaves is not the token's own.
Spoilt(step, failed) == t_x = "spoilt" \/ {"norm", step} \cap failed # {}

\* forward_layer: store the row, attend to all of the cache.
Layer(failed) ==
  /\ ~Idle
  /\ misses' = misses + Cardinality(failed)
  /\ misses' <= MaxMisses   \* bound
  /\ Projected(failed)
  /\ Appended
  /\ attended' = Attention
  /\ t_x' = IF failed = {} THEN t_x ELSE "spoilt"
  /\ Lost(IF Spoilt("k", failed) THEN {layer} ELSE {}, IF Spoilt("v", failed) THEN {layer} ELSE {})
  /\ layer' = layer + 1
  /\ UNCHANGED <<max_ctx, n_compressed, file, row, passes>>

\* forward_layer returns before it stores its row: there was no memory for the
\* norm's weights. The pass goes on with the next layer.
LayerSkipped ==
  /\ ~Idle
  /\ misses < MaxMisses   \* bound
  /\ misses' = misses + 1
  /\ t_x' = "spoilt"
  /\ Lost({layer}, {layer})
  /\ layer' = layer + 1
  /\ attended' = <<>>
  /\ UNCHANGED <<cacheVars, file, row, t_k, t_v, passes>>

Next ==
  \/ Reset
  \/ \E step \in Ratios : Compress(step)
  \/ SaveHeader
  \/ \E n \in 0..2 * Size : Save(n)
  \/ LoadFails
  \/ Load
  \/ \E c \in Contexts : Restart(c)
  \/ \E t \in Tokens, p \in 0..max_ctx, embedded \in BOOLEAN : Forward(t, p, embedded)
  \/ \E failed \in SUBSET Steps : Layer(failed)
  \/ LayerSkipped

KvSpec == Init /\ [][Next]_kvVars

-------------------------------------------------------------------------------
(* The router of a mixture-of-experts layer: the n_used largest scores, one   *)
(* after the other; a score that was taken is excluded. Scores here are whole *)
(* numbers; an excluded one is below all of them.                             *)

Excluded == -1

\* The expert the scan over the scores stops with: the first of the largest.
Best(score) ==
  LET scan[j \in DOMAIN score] ==
        IF j = 0 THEN 0 ELSE IF score[j] > score[scan[j - 1]] THEN j ELSE scan[j - 1]
  IN  scan[Max(DOMAIN score)]

\* The experts picked for a token, in order.
TopExperts(score, n_used) ==
  LET left[i \in 0..n_used] ==
        IF i = 0 THEN score ELSE [left[i - 1] EXCEPT ![Best(left[i - 1])] = Excluded]
  IN  [i \in 1..n_used |-> Best(left[i - 1])]

\* How many experts a token gets.
Used(n_used, n_exp) == Min({IF n_used = 0 THEN 1 ELSE n_used, n_exp})

-------------------------------------------------------------------------------
(* Properties.                                                                *)

KvTypeOK ==
  /\ max_ctx \in Contexts /\ n_tokens \in Nat /\ n_compressed \in 0..MaxCompressed
  /\ k \in [1..Size -> Cells] /\ v \in [1..Size -> Cells]
  /\ layer \in 0..Layers /\ row \in [tok : Tokens, pos : Nat] \cup {Zero}
  /\ t_x \in Tokens \cup {"zero", "spoilt"} /\ t_k \in Cells /\ t_v \in Cells
  /\ passes \in 0..MaxPasses /\ misses \in 0..MaxMisses
  /\ context \in Seq(Entries)
  /\ attended \in Seq(Cells \X Cells)

\* Both arrays hold, in every layer and within the length, the rows of the tokens
\* fed since the cache was empty, less what a compression dropped, through
\* resets, saves and loads, but for those that were never there to hold: the rows
\* that a failure kept from being computed in that layer or in one before it in
\* the same pass, those behind the end of a file that is short, and those of a
\* file of another shape. No failure touches the row of another token. While a
\* forward pass is under way, the layers it has passed hold its row as well.
CacheHoldsContext ==
  /\ n_tokens <= Len(context)
  /\ \A l \in LayersOf, i \in DOMAIN context :
       (i # row.pos + 1 \/ l < layer) =>
         /\ l \notin context[i].noKey =>
              i <= n_tokens /\ k[Cell(l, i - 1)] = Key(context[i], l)
         /\ l \notin context[i].noValue =>
              i <= n_tokens /\ v[Cell(l, i - 1)] = Value(context[i], l)

\* Every layer of a forward pass reads the keys and values of the same tokens,
\* the one being fed among them, in the order of their positions, but for the
\* rows that were never there.
AttendsToContext ==
  attended # <<>> =>
    /\ Len(attended) = n_tokens
    /\ row.pos < max_ctx => row.pos < n_tokens
    /\ \A i \in DOMAIN attended :
         /\ layer - 1 \notin context[i].noKey   => attended[i][1] = Key(context[i], layer - 1)
         /\ layer - 1 \notin context[i].noValue => attended[i][2] = Value(context[i], layer - 1)

\* The scan with exclusion picks as many experts as are asked for, all
\* different, and none that was left out has a higher score.
PicksTopExperts ==
  \A score \in [0..2 -> 0..2], u \in 0..4 :
    LET n == Used(u, 3)
        top == TopExperts(score, n)
        picked == {top[i] : i \in 1..n}
    IN  /\ \A i, j \in 1..n : i # j => top[i] # top[j]
        /\ \A e \in picked, d \in (0..2) \ picked : score[e] >= score[d]

KvInv == KvTypeOK /\ CacheHoldsContext /\ AttendsToContext /\ PicksTopExperts

\* Within a forward pass no layer's row changes but the one of the position
\* that is fed, in the layer the pass is at: what was cached stays.
OtherRowsStay ==
  [][ ~Idle /\ row' = row =>
        \A i \in 1..Size :
          i # layer * max_ctx + row.pos + 1 => k'[i] = k[i] /\ v'[i] = v[i] ]_kvVars
===============================================================================
