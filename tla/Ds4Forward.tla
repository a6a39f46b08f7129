------------------------------ MODULE Ds4Forward ------------------------------
(* The forward pass of the DeepSeek backend: src/src/transformer/             *)
(* ds4_forward.c. A context holds weights in RAM where it could load them     *)
(* when it was created, and one scratch buffer per kind of weight otherwise,  *)
(* which every layer fills from the files anew; any of these reads may fail.  *)
(* A row of the KV cache is the token whose activations it was computed from  *)
(* and its position. What the routed experts do in a layer is Prefetch's.     *)
EXTENDS Integers, Sequences, FiniteSets

CONSTANTS
  Vocab,         \* tokens
  NLayers,       \* n_layers
  CtxSize,       \* ctx_size
  MaxFed,        \* bound: tokens fed between two resets
  MaxFailures    \* bound: reads that fail between two resets

ASSUME Ds4Assumption ==
  /\ NLayers \in Nat \ {0} /\ CtxSize \in Nat \ {0}
  /\ MaxFed \in Nat /\ MaxFailures \in Nat

VARIABLES
  fast,       \* fast_path_ready
  ram,        \* the layers' weights in RAM: the layer they are of, or Junk
  half,       \* the BF16 copies of the shared experts: as ram, or None
  embd,       \* token_embd is in RAM
  ignored,    \* history: a read failed while ram was filled, which nobody looks at
  scratch,    \* of which layer the weights in the scratch buffers are, or Junk
  kv,         \* the KV cache
  kvLen,      \* kv_len
  acts,       \* the token the activations started from, or Nothing
  at,         \* the layer a pass is at; NLayers before its logits, Rest when none is under way
  token, pos, \* what the pass was called with
  fed,        \* history: the tokens fed since the cache was reset
  failures,   \* history: the reads that failed since then
  rows,       \* history: the rows the last layer attended to
  used        \* history: the layers whose weights the last layer multiplied by

weightVars == <<fast, ram, half, embd, ignored>>
passVars   == <<scratch, kv, kvLen, acts, at, token, pos, fed, failures, rows, used>>
ds4Vars    == <<weightVars, passVars>>

LayerIds  == 0..NLayers - 1
Positions == 0..CtxSize - 1
Junk      == -1         \* memory nobody wrote, or wrote in part
None      == -2         \* no memory
Nothing   == "nothing"  \* activations of an embedding that could not be read
Cleared   == [l \in LayerIds |-> [p \in Positions |-> <<Nothing, p>>]]
Rest      == NLayers + 1

\* What a layer reads when it has no weights in RAM.
Weights == {"attn_norm", "attn_q_a", "attn_kv", "ffn_norm", "shexp"}

-------------------------------------------------------------------------------
(* ds4_create: the layers' weights are loaded in order until memory runs out, *)
(* whatever the reads return. A layer loaded from a read that failed holds    *)
(* what malloc returned, in full or in part.                                  *)

RamAfter(loaded, failed) ==
  [l \in LayerIds |-> IF l < loaded /\ l \notin failed THEN l ELSE Junk]

\* The BF16 copies are made from the weights as they were read; there may be
\* no memory for some.
HalfAfter(loaded, failed, unhalved) ==
  [l \in LayerIds |->
     IF l < loaded /\ l \notin unhalved THEN RamAfter(loaded, failed)[l] ELSE None]

\* The layers that were loaded: all of them make the fast path.
LayersLoaded ==
  \E loaded \in 0..NLayers :
    \E failed, unhalved \in SUBSET (0..loaded - 1) :
      /\ fast = (loaded = NLayers)
      /\ ram = RamAfter(loaded, failed)
      /\ half = HalfAfter(loaded, failed, unhalved)
      /\ ignored = (failed # {})

Ds4Create ==
  /\ LayersLoaded
  /\ embd \in BOOLEAN
  /\ scratch = [w \in Weights |-> Junk]
  /\ kv = Cleared /\ kvLen = 0
  /\ acts = Nothing /\ token = Nothing /\ pos = 0 /\ at = Rest
  /\ fed = <<>> /\ failures = 0 /\ rows = <<>> /\ used = {}

\* The cache without its contents cleared.
EmptiedKept == kv
\* ds4_reset's memset.
Emptied == Cleared

\* ds4_reset, which the engine calls before every prompt.
Ds4Reset ==
  /\ at = Rest
  /\ kvLen' = 0 /\ kv' = Emptied
  /\ fed' = <<>> /\ failures' = 0 /\ rows' = <<>> /\ used' = {}
  /\ UNCHANGED <<weightVars, scratch, acts, at, token, pos>>

\* ds4_forward up to its loop over the layers: the embedding comes from RAM or
\* from either of two tensors, or is zero. The engine's positions go on from
\* one call to the next.
Embed(t) ==
  /\ at = Rest
  /\ Len(fed) < MaxFed   \* bound
  /\ \/ acts' = t /\ UNCHANGED failures
     \/ /\ ~embd
        /\ failures < MaxFailures   \* bound
        /\ acts' = Nothing /\ failures' = failures + 1
  /\ token' = t /\ pos' = Len(fed)
  /\ fed' = Append(fed, t)
  /\ at' = 0 /\ rows' = <<>> /\ used' = {}
  /\ UNCHANGED <<weightVars, scratch, kv, kvLen>>

-------------------------------------------------------------------------------
(* ds4_layer. got are the weights whose reads succeed.                        *)

\* The scratch buffers after the reads of tried: a read that fails leaves some
\* rows of the new matrix in the old one.
Read(tried, got) ==
  /\ scratch' = [w \in Weights |->
                   IF w \notin tried THEN scratch[w] ELSE IF w \in got THEN at ELSE Junk]
  /\ failures + Cardinality(tried \ got) <= MaxFailures   \* bound
  /\ failures' = failures + Cardinality(tried \ got)

\* The layer's compressed row: zero when its projection could not be read.
Row(got) == <<IF fast \/ "attn_kv" \in got THEN acts ELSE Nothing, pos>>

\* A position past the context is not stored.
Stored(row) == IF pos < CtxSize THEN [kv EXCEPT ![at][pos] = row] ELSE kv

\* The positions attended to.
NPos == IF pos < CtxSize THEN pos + 1 ELSE CtxSize

\* The attention of a layer, after its row was stored.
Attended(got) ==
  /\ kv' = Stored(Row(got))
  /\ rows' = [p \in 1..NPos |-> kv'[at][p - 1]]

\* Where the weights a layer multiplies by come from: the BF16 copies of the
\* shared expert are taken wherever there are some, also without the fast path.
Source(w) ==
  IF w = "shexp" /\ half[at] # None THEN half[at]
  ELSE IF fast THEN ram[at] ELSE scratch'[w]

\* The products of all weights, read or not.
MultipliedAll(got) == {Source(w) : w \in Weights}

\* A norm or a shared expert that was not read is not multiplied by, and
\* neither is a projection: its product is taken to be zero.
Multiplied(got) == {Source(w) : w \in IF fast THEN Weights ELSE got}

\* ds4_layer returns before it did anything: its first norm cannot be read.
LayerPassedOver ==
  /\ at < NLayers /\ ~fast
  /\ Read({"attn_norm"}, {})
  /\ at' = at + 1 /\ rows' = <<>> /\ used' = {}
  /\ UNCHANGED <<weightVars, kv, kvLen, acts, token, pos, fed>>

\* ds4_layer returns after the attention: its second norm cannot be read.
BeforeFfn == {"attn_norm", "attn_q_a", "attn_kv", "ffn_norm"}
LayerCutShort(got) ==
  /\ at < NLayers /\ ~fast
  /\ "attn_norm" \in got /\ "ffn_norm" \notin got
  /\ Read(BeforeFfn, got)
  /\ Attended(got)
  /\ used' = Multiplied(got)
  /\ at' = at + 1
  /\ UNCHANGED <<weightVars, kvLen, acts, token, pos, fed>>

\* ds4_layer to its end, with weights from the files.
LayerFromFiles(got) ==
  /\ at < NLayers /\ ~fast
  /\ {"attn_norm", "ffn_norm"} \subseteq got
  /\ Read(Weights, got)
  /\ Attended(got)
  /\ used' = Multiplied(got)
  /\ at' = at + 1
  /\ UNCHANGED <<weightVars, kvLen, acts, token, pos, fed>>

\* ds4_layer with weights from RAM.
LayerFromRam ==
  /\ at < NLayers /\ fast
  /\ Attended(Weights)
  /\ used' = Multiplied(Weights)
  /\ at' = at + 1
  /\ UNCHANGED <<weightVars, scratch, failures, kvLen, acts, token, pos, fed>>

\* The end of ds4_forward: the logits, and the length.
Logits ==
  /\ at = NLayers
  /\ kvLen' = IF pos >= kvLen THEN pos + 1 ELSE kvLen
  /\ at' = Rest /\ rows' = <<>> /\ used' = {}
  /\ UNCHANGED <<weightVars, scratch, kv, acts, token, pos, fed, failures>>

Ds4Next ==
  \/ Ds4Reset
  \/ \E t \in Vocab : Embed(t)
  \/ LayerPassedOver
  \/ \E got \in SUBSET BeforeFfn : LayerCutShort(got)
  \/ \E got \in SUBSET Weights : LayerFromFiles(got)
  \/ LayerFromRam
  \/ Logits

Ds4Spec == Ds4Create /\ [][Ds4Next]_ds4Vars

-------------------------------------------------------------------------------
(* Properties.                                                                *)

Ds4TypeOK ==
  /\ ram \in [LayerIds -> LayerIds \cup {Junk}]
  /\ half \in [LayerIds -> LayerIds \cup {Junk, None}]
  /\ {fast, embd, ignored} \subseteq BOOLEAN
  /\ scratch \in [Weights -> LayerIds \cup {Junk}]
  /\ kv \in [LayerIds -> [Positions -> (Vocab \cup {Nothing}) \X Nat]]
  /\ at \in 0..Rest /\ failures \in 0..MaxFailures
  /\ at = Rest => kvLen = Len(fed)

\* A layer attends, for every position up to the token's own and within the
\* context, to the row of this prompt's token at this position or, if its
\* computation failed, to a row of zeroes: never to another prompt's row,
\* whichever layers were passed over since the last reset.
AttendsToPrompt ==
  \A p \in DOMAIN rows :
    rows[p] \in {<<fed[p], p - 1>>} \cup (IF failures > 0 THEN {<<Nothing, p - 1>>} ELSE {})

\* When the reads of ds4_create succeeded, a layer multiplies by its own
\* weights or not at all, whatever fails afterwards and whatever the scratch
\* buffers still hold of other layers.
MultipliesByOwn == ~ignored => used \subseteq {at - 1}
===============================================================================
