# Cautreo in TLA+

TLA+ specifications of the stateful parts of Cautreo, an inference engine that
runs mixture-of-experts models larger than memory: it keeps the experts that
are used in RAM, streams the others from SSD, and learns from run to run which
ones are worth keeping. The specifications are checked with TLC on small
instances and, where marked, proved with TLAPS for every value of their
constants. `PROJECT.json` maps each definition to the lines of the source it
models.

Paths below are relative to the repository's `src/`, line numbers to the files
named with them.

## 1. Inventory

| Part | State | Operations | Talks to |
|---|---|---|---|
| routed-expert cache, `transformer/ds4_forward.c` | `exp_cache` (slots), `exp_cache_map` (expert -> slot), `exp_cache_heat`, `exp_cache_format`, `exp_cache_used` | `preload_hot_experts`, `exp_cache_ensure`, `exp_cache_evict_coldest`, `proactive_expand_hot_experts` | scoreboard (hotness), GGUF and .bit1 files |
| prefetch thread and expert loop, same file | `pf_state`, `pf_ready`, `pf_exit`, `pf_buf`, `pf_lock`, `pf_cv`; locals `top`, `needs_pf`, `pf_idx` of `ds4_layer`; `tokens_in_window` | `pf_thread_fn`, `pf_start`, `pf_wait`, the loop of `ds4_layer`, `ds4_free` | expert cache, file handles with `io_lock` |
| ds4 forward pass, same file | weights in RAM and their BF16 copies, `fast_path_ready`, scratch buffers, `kv_cache`, `kv_len` | `ds4_create`, `ds4_reset`, `ds4_forward`, `ds4_layer` | GGUF parts, expert loop |
| weight value scoreboard (WVS), `wvs/wvs.c` | open-addressing table of keys, scores and classes; `count`; the `.wvs` file | record, lookup, decay (`update_all`), reset, save, load | engine (owner), expert cache (reader) |
| adaptive weight manager (AWM), `awm/awm.c` | regions with a placement and a buffer; `ram_used_bytes`, `ram_budget_bytes` | register, update_placement, get_weight, prefetch, evict, evict_cold, set_budget | pipeline, engine (owner) |
| SSD streamer, `streaming/streaming.c` | sparse array of cached regions, `cache_count`, `cache_used_bytes` | read, write, prefetch, evict_lru | pipeline |
| GGUF reader, `gguf/gguf.c` | per part a handle, a tensor table, the start of the data | open, split_open, find_tensor, read_tensor_at | engine, ds4 forward pass, converter |
| downloader and converter, `tools/` | the GGUF parts and the `.bit1` file on disk, its header, index and data | `download_compress.py`: download, resume, convert; `compress_bit1.c`: write, seek back, fill the index, close or remove | GGUF reader, engine (through the files) |
| reference transformer and KV cache, `transformer/transformer.c`, `kv_cache/kv_cache.c` | keys and values in two flat arrays, `n_tokens`, `n_compressed` | forward, append, get, reset, compress, save, load | engine |
| engine, `engine/engine.c` | `loaded`, split/model/arch handles, `kv_tokens`, `kv_len` | load, unload, generate, generate_stream, kv_save, kv_load, destroy | arch backend, transformer, WVS, AWM |
| server, `server/server.c` | `listen_sock`, `running` | start (accept, receive, serve, close), stop from another thread | engine |
| agent, `agent/agent.c` | bounded history | chat, chat_stream, reset | engine, reasoning core |
| reasoning core, `core/core`, `hypothesis`, `memory`, `router`, `planner`, `verification`, `gateway`, `causal` | hypothesis population, transition history, four layers of patterns, executors | transitions, evidence, normalise; iterate, solve; write, recall, clear; route, fall back, rank; interventions | agent |
| event store, `core/provenance` | the event file and its stdio buffer | create, append, flush, replay, count, destroy | reasoning core's callers |
| pipeline, `cautreo.c` | owns a WVS, profiler, AWM and streamer | init, record_access, recommend_precision | all four |
| arithmetic (`quant`, `attention`, dequantisation, `grassmann`, `hdc`, `observer`), `hal`, `profiler`, and placeholders (`speculative`, `steering`, `distributed`, `backend`) | - | - | - |

How they interact. The downloader fetches the GGUF parts and starts the
converter, which reads them and writes the `.bit1` file; either may be killed
while an engine is loading the result. `ct_engine_load` opens both, creates the
scoreboard, fills it from the `.wvs` file of an earlier run and hands it to
`ds4_set_wvs`, which allocates the expert cache, starts the reader thread,
preloads what the scoreboard calls HOT and upgrades it. From then on each layer
of each token selects experts, records them in the scoreboard, takes them from
the cache or the files, with one prefetch ahead, and now and then decays the
scoreboard and upgrades again. `ct_engine_destroy` stops the reader and saves
the scoreboard. A model that is not split gets the reference transformer and
its KV cache instead. The server and the agent generate through the engine;
the agent also runs a reasoning core of its own.

What is hard: two threads over one buffer, one condition variable and the file
handles; a decision taken before a loop (`needs_pf`) and used in it; a cache
whose bookkeeping is spread over four arrays and a counter, which an eviction
and a failing read leave half way; a hash table that is rebuilt in another
order at each start; files that are truncated before they are rewritten, read
without a look at their length, or written by another process meanwhile; a
charge kept apart from the buffers it counts; scratch buffers that all layers
share; transitions that touch three hypotheses and may fail after the first.
`PROJECT.json` lists each hazard at its line, and the properties meant to catch
it.

What makes each part right:

- expert cache: an expert's slot is its own and holds its bytes; the map, the
  counter and the heat agree; evictions happen in a full cache only, one at a
  time;
- prefetch: the buffer handed over is the expert's and nobody writes to it; no
  job is lost; nothing is in flight between layers; a layer that starts ends;
  the thread is gone when the context is;
- ds4 forward pass: a layer multiplies by its own weights or not at all, and
  attends to the rows of this prompt, whichever reads fail;
- scoreboard: what was recorded is found, also after a restart; a completed
  save keeps everything; a crash invents nothing;
- AWM: buffers as large as placements say; the charge is what is held; hot
  regions are spared; the budget holds;
- streamer: the counter and the charge agree with the sparse array; a region
  goes over the budget only when nothing is left to evict; the oldest goes first;
- weight files: what a read delivers is the matrix that was asked for, however
  much of a file is there; an index never points at what is not written;
- transformer: the cache holds the context, in every layer, through
  compressions, saves and loads; a token attends to all of it; a step that fails
  harms no row but those of its own pass;
- engine: no token is written past `kv_tokens`; the buffer, what was generated
  and what the backend was given agree;
- server: a stream is its own request's, complete and ended once; each
  connection whose client sends or leaves is closed; a stop is heard;
- reasoning core: a failed transition changes nothing; duplicates go to the one
  they duplicate; each hypothesis' lineage is in the history; the router picks
  the cheapest that fits; a search finds the closest;
- agent: the history is the end of the conversation without a gap;
- event store: what was appended is what is replayed, and replays are stable.

## 2. Modules

| Module | What it is | Status |
|---|---|---|
| `Residency` | abstract: a set of at most Cap residents; admit, replace one, lose one | checked |
| `ExpertCache` | the expert cache, implements `Residency` | checked, proved |
| `Prefetch` | extends `ExpertCache` with both threads, locks, files; implements `ExpertCache` | checked, safety proved |
| `Ds4Forward` | the DeepSeek forward pass around the expert loop | checked through `Backends`, proved |
| `KvCache` | the reference transformer and its KV cache | checked through `Backends`, proved |
| `Backends` | what is behind an engine: one of the two | checked, proved |
| `Scoreboard` | abstract: a map from keys to classes and a stored copy; record, decay, reset, close, crash | checked |
| `Wvs` | the hash table, its file and crashes; implements `Scoreboard` | checked, proved |
| `Awm` | regions, buffers, charge and budget | checked, proved |
| `Streamer` | the streamer's region cache | checked, proved |
| `Loader` | downloader, converter and engine over the weight files | checked, proved |
| `Engine` | load, unload, generation, the token buffer | checked through `Server`, proved |
| `Server` | extends `Engine` with the HTTP server, its clients and the thread that stops it | checked, proved |
| `Scans` | two loops that router, memory, planner and interventions share | proved |
| `Population`, `Memory`, `Router` | the stores of the reasoning core | checked through `Agent`, proved |
| `Core` | composes them: transitions, evidence, solving, interventions | checked through `Agent`, proved |
| `Agent` | extends `Core` with the agent loop | checked, proved |
| `EventStore` | the event file and its two parsers | checked, proved |
| `PrefetchProofs`, `BackendsProofs`, `EngineProofs`, `LoaderProofs` | theorems about the module named and those it extends | proved |
| `WeightsProofs` | theorems about `Wvs` and `Awm` | proved |
| `ReasoningProofs` | theorems about `Agent` and what it extends | proved |
| `StorageProofs` | theorems about `Streamer` and `EventStore` | proved |
| `Recursion` | lemmas: induction over numbers and finite sets, recursive functions, sums, recursion from the end of an interval | proved |
| `MC*` | bounds for TLC | |

### ExpertCache

State and code correspond one to one (`map`, `heat`, `format`, `used`);
`bytes` is what the slot really holds: whose bytes and in which encoding. The
scoreboard is reduced to `seen` and `hot`. `Preload` and `Expand` are one
iteration each of the two loops over the scoreboard; the entries are visited in
hash order, so any order is allowed. `Install` and `InstallFails` are
`exp_cache_ensure` on a miss, including the eviction; `IsTarget` is its slot
choice. A failed read leaves bytes of no use (`Nothing`) in a slot that no
expert maps to; a failed expansion leaves the mapped slot as it was or `torn`.
`RecordAccess` belongs to the same step: nothing looks at the scoreboard
between the record and the ensure. Experts stand for <layer, expert> pairs. The
table behind the scoreboard is larger (16384) than the number of experts
(43 * 256), so a record never fails there.

### Prefetch

`pc` and `wpc` are the program counters of the two threads. A critical section
without a sleep or a read is one step. The reader's test of `pf_exit` and its
sleep are two steps, since `ds4_free` does not take the lock; the reader keeps
`pf_lock` between them. A read is two steps, seek and read, on the handle of
the file (`fpos`): `io_lock` is held from the one to the other, and dropping
that lock is one of the slips that `HandoverIsForExpert`, a part of
`PrefetchInv`, notices. `Selections` are the experts a router may select:
distinct, or repeating expert 0 when scores are NaN. Preload, expansion and the
window update are `ExpertCache`'s actions, taken between layers (`phase` not
"serve"). `wpc = "none"` is a thread that could not be started.

`WaitForSingleObject` gives up after five seconds; the model takes it that a
reader that can run gets to its exit in that time and one that sleeps does not.

### Ds4Forward

What `ds4_layer` does around the expert loop. A weight is abstracted to the
layer it is of, or `Junk` when a read failed; a row of the KV cache to the token
its activations came from and its position. `Ds4Create` lets any layers be
loaded before memory runs out, any of their reads fail (`ignored`: the code
looks at none of these results) and any BF16 copy be missing. Without the fast
path each layer reads its weights into scratch buffers, one per kind of weight,
that all layers share: `LayerPassedOver`, `LayerCutShort` and `LayerFromFiles`
are its early returns and its end, with `got` the reads that succeed. `Embed`,
one action per layer, and `Logits` make up `ds4_forward`. The engine resets the
context before each prompt (`engine.c:475`, `584`) and counts positions up.

### KvCache

`ct_kv_append`, `ct_kv_get`, `ct_kv_compress`, `ct_kv_save` and `ct_kv_load`
over two flat arrays of cells, and the passes of `transformer.c` that fill and
read them, one action per layer. A row is named for the token, the position and
the layer it was projected from and the angle it is rotated by. Each layer has
four steps that decide what is stored (`Steps`): the norm, the key's projection,
the value's, and all others. Any of them may fail, and nobody looks
(`ct_model_matmul` leaves its output as it was when the tensor is missing or not
F32, when memory or the file fails): `t_k` or `t_v` then still is the row of the
layer or token before, the key rotated once more, and that row is stored and
attended to (`Projected`). What is computed from a failed step on is `spoilt`, to
the end of the pass. `LayerSkipped` is the one failure the code does look at,
after which nothing is stored. A file is as much of the header and of the two
arrays as was written before the disk was full or the process died, cut between
two rows, and may be loaded into a cache of another shape.

`context` is the history the properties are about: the tokens fed, each with the
layers that never got its own key or value to hold (`noKey`, `noValue`), by a
failure in that token's pass, behind the end of a short file, or in a file of
another shape. All else must be in its place. What the wrong rows a layer attends
to do to the values of later layers and tokens is not followed: a row is named
for where it was computed. `MaxPasses` and `MaxMisses` bound the passes and their
failures, `Cuts` how much a file lacks; `WithinArrays` ends what is done with a
cache whose length a file made larger than its arrays.

The choice of experts (`TopExperts`) is a function, checked against its definition
for all scores of a small range.

### Backends

`ct_engine_load` sets one of two pointers; the other backend rests.

### Wvs

`slots`, `hotness` and `count` are the table; a score is its class, moved by at
most one class by an access (+0.05, the narrowest class is wider) or a decay
(* 0.995). `Trunc` is the cut at 63 characters. `mode` follows the engine:
`Start` is the load, entry by entry; `SaveOpen`, `SaveHeader`, `SaveSlot` and
`SaveClose` are `ct_wvs_save`; `Crash` may come at any point and also stands
for a file that cannot be opened or fully written, which nobody notices. A
record that fails in a full table changes nothing, and is a stutter.

### Awm

A region's buffer is the number of bytes it was allocated with. Each
allocation may fail (`denied` remembers). `lost` counts buffers whose only
pointer was overwritten: `ct_awm_update_placement` does that to an SSD region
that `ct_awm_get_weight` had loaded. `Word` makes `ram_used_bytes` wrap, as it
does when a region that was never charged is evicted.

### Streamer

`cache`, `count` and `used` are the fields of `ct_streamer_s`; the slot an
eviction empties stays where it is, so the entries at and beyond `count` are out
of sight of everything but the scan for a free slot (`VisibleSlots`).
`ct_streamer_read` is `Hit`, or `Miss`, then `MakeRoom` once per round of the
eviction loop, then `Read`: the steps stand for the time that passes between
them, as there is one caller. `ct_streamer_prefetch` is a read with `cache` set.
A read that does not cache changes at most a stamp, and a write only
statistics: neither has an action. `Names` are names with their offset. A failed
`pread` returns -1, which the code takes for a number of bytes: `FailedPread`.

### Loader

Three processes that share files. A file is a sequence of cells: header, one
per table or index entry, one per matrix. A download adds cells to a part and
may end at any point; `Opened` is `gguf_open` on whatever is there, a torn table
included. The converter's output goes through a stdio buffer (`pending`,
`place`) that the library spills when it likes; `Placeholder`, the data,
`SeekBack` and `WriteIndex` are its passes; `Abort` removes the file, unless an
engine has it open (the engine builds on Windows only), `Kill` is the script's
timeout, and `Finish` ignores what `fclose` returns. The engine reads the index
entry by entry while the converter may write, and an expert's three matrices one
by one. Assumed: no part is downloaded again while an engine has it open.

### Engine

A generation is a sequence of steps, as the callbacks of a stream cut it and as
another thread sees it: `Begin` (the backend is reset), `Prefill`, `Announce`
(the callback with -1), one `SyncToken` or `StreamToken` per token, `Return`; a
callback that returns false is `AnnounceEnds` or `StreamTokenEnds`. `backend`
stands for the three branches of `ct_engine_generate` and of its streaming
twin: an architecture backend, the transformer, placeholder tokens. `kv` is
`kv_tokens[0 .. kv_len - 1]`; `fed` what the backend was given, at which
position. Where the branches differ the helpers do (`Prefilled`, `Remembered`,
`Overruns`). The model samples any token. A prefill that writes past the buffer
(`PrefillOverruns`, `engine.c:481`) ends the behaviour in stage `gone`.

### Server

`spc` is the place of the thread in `ct_server_start`: between the test of
`running` and `accept`, and between the two statements of `ct_server_stop`,
anything may happen. A blocked `accept` may or may not return when its socket is
closed by another thread; systems differ. `conn` and `inbox` are the clients'
side. A request that needs no engine, or is malformed, is `Plain`. `late` counts
the connections accepted after a stop that found the server running (`heard`). A
client that hangs up while it is served is left out: the server ignores what
`send` returns, and what a signal would then do is the system's affair.

### Scans, Population, Memory, Router, Core

`nodes` only grows: the hypothesis with id n is `nodes[n]`, pruned or not.
Scores are whole numbers; a claim is a sequence of words, the first of which
tells a branch or a merge. `Alike` is `string_similarity` above 0.8: equal
claims are, of others only `Similar` is known, which need be neither transitive
nor symmetric. `Normalized` is the double
loop over the population, as what it leaves. A query's likeness to each pattern
is a constant, an executor's worth stands for 1 / `cost_class`. The selections
are taken round by round, as the code makes them: `FirstBest` is the scan for
the best entry, where the first of equals wins; `Recall` adds the best that is
left to what was found (`Extended`) until it falls below the threshold; `Sorted`
exchanges, in each round of `router_rank`'s sort, the entry at its place with the
best of what follows (`Exchanged`), and `FirstWithId` is the search by id that
copies the result out. `Core` has one action per transition, with its record; `IterateStops` and
`Iterate` are `engine_iterate` up to its return, with proposal, choice, test,
evidence, normalisation and the test for the end; `Gemma` is what the stub
executor brings back. The interventions of `causal_apply` act on the same state.

### Agent

`ct_agent_chat` is `Chat` (the core starts to solve), the core's iterations, and
`ChatReplies` or `ChatFails`; `ct_agent_chat_stream` is one step. A behaviour
belongs to a caller of the population, a caller of the stores or an agent
(`owner`): the bound that keeps their products apart. What one caller does to
the population does not depend on the memory or the router, and an agent only
solves and writes.

### EventStore

The file is a sequence of cells, one per fixed-size field and one per byte of a
string, so that a parser that has lost its place takes whatever it finds for a
length. `Spill`, `Flush`, `FlushFails`, `Crash` and `Destroy` move cells from the
buffer to the file or lose them; `Replay` and `TypeCount` are the two parsers,
as recursive functions over positions. One record at most is torn, at its end:
that a flush fails within the `fwrite`s of one record and the rest of that record
still reaches the file is not modelled, and no property depends on it (once a
record is torn they only speak of what precedes it and of what a parser makes of
the cells).

## 3. Checks

| Run | Bounds | Shows |
|---|---|---|
| ExpertCache | 3 experts, 2 slots, heat modulo 3, one Q1_0 expert, any saved scoreboard | type; map, counter and heat agree (`SlotsAgree`); contents; eviction only when full; implements Residency |
| Prefetch | 3 experts selected of 3, 1 slot, 2 files, window of 1 layer, 1 spurious wakeup | buffer not shared, handover, no lost job, quiet between layers, implements ExpertCache, layers complete |
| Wvs | 3 slots, 2 classes, 4 names: two that collide and wrap, one cut to another | entries found, counter, completed saves, implements Scoreboard |
| Awm | 2 regions, 2 sizes, 2 budgets, word 256 | buffer sizes, types and charge (`AwmInv`), hot regions spared, lowered budgets |
| Streamer | 3 entries, 2 plain names and a cut one, sizes 1 and 2, budget 3, clock of 3 readings, word 16 | counter, charge, budget, the read's loop ends |
| Backends | 2 layers, 2 tokens; transformer processes with room for 1 and for 3 tokens, 3 passes, one step of which fails, ratio 2, one position dropped, files whole or 7 rows short; DeepSeek context of 2, up to 4 tokens fed and 2 failed reads between two resets | the transformer's cache holds and attends to all of its context but what was never there, experts picked (`BackendInv`); the DeepSeek pass attends to the prompt and multiplies by its own weights; other rows stay |
| EventStore | 2 events, one of them with strings that look like lengths; 25 cells | type, what is appended is replayed, both parsers agree, what is saved comes first (`EventStoreInv`); replays are stable |
| Reasoning | population of 3, 3 claims of which the second is like both others, 2 priors, 2 kinds of evidence, 2 iterations, 2 records, 3 patterns, 3 executors of which two score alike and any may be registered twice, windows of 4 turns and prompts of 3, 6 turns | types, life of strings, lineage, routing, recall, conversation (`ReasoningInv`); failed transitions; what normalisation drops and where the priors go |
| Loader | 1 layer of 2 experts, 2 parts, tensors spread over both | what is read is what was asked for (`LoaderInv`); what is indexed is present |
| Server | 2 clients, 2 tokens, context of 2, prompts of 1, 2 and 3 tokens, 0 to 2 to generate, all kinds of model | type, context and buffer agree, room in the buffer, streams, stop; a connection is closed once its client has sent or left |
| FormatLabel | as ExpertCache without a .bit1 file | counterexample, see 5 |
| Shutdown | as Prefetch without spurious wakeups | counterexample, see 5 |

Why the bounds are enough. With three experts for two slots the cache fills,
evicts, fails and refills around holes; heat that wraps after two hits brings
the wrapped state, 65536 hits away in the code, next to every other. In Prefetch
one slot is the smallest cache in which an expert that was cached when the
layer began is evicted by the one before it, so that the inference thread
reads a file while a prefetch is running on it; three selected experts are
needed for that, and two of them share a file. In Wvs three slots hold two
colliding keys around the end of the table plus a third one, and are full with
them. In Awm two regions let each be the other's victim; the budgets hold one
region in FP16 or none. In Streamer three entries leave a hole with an older
entry behind it and one in sight; any two reads are over the budget of three or
just within it, and the clock may stand still between accesses. Sizes are far
below the word, as in the code: only a failed `pread` makes the charge wrap.

In Backends two layers tell a row stored in the wrong layer from one in the
right one, and let one layer be passed over while the other is not; with room
for three tokens a compression drops one between two that are kept, and with
room for one and for three each process finds files of the other shape, longer
and shorter than its own. Three passes fill the cache, store a token over
another one behind a failed step, and fill it again after a reset or a load; a
file of the larger shape that lacks seven of its twelve rows ends in the middle
of the keys, after the first layer and part of the second. The DeepSeek context is fed twice as many tokens as it
has room for. In EventStore the store holds three of the short events, or two and
a torn one, with whatever is appended behind the tear. In Reasoning a
population of three is full after one merge or branch. The claims a, b and c are a
chain of likeness (a is like b, b like c, a unlike c), and the population holds all
of them in every order and with any priors: b may be dropped for a and have the
highest prior of the three, and c must then stay, since what it is like is gone. a
and c are exchanged for each other by the symmetry. Claims are also like their own
branches, which are not like the branches of these. In Loader two experts are the fewest with one that is converted and one that is
not; the first part holds two tensors, so that a table can be torn between them,
and the second one can be missing.

In Server a context of two holds one prompt with room to spare, one exactly and
one not at all, for each branch of the engine; the engine's owner, who may
also abort streams, reload and load a token file, leaves the buffer in every
possible state to the server; two clients are enough for one to wait on the
other, and for one to come after the stop.

Fairness. `Prefetch!Spec` is weakly fair to the inference thread inside a layer
and to the reader: both are scheduled, critical sections are short and a read
ends, with success or failure. Nothing obliges anybody to start a layer, to
free the context or to wake up spuriously. Fairness is weak: a handle's lock is
released again and again, but in a layer neither thread can take it infinitely
often while the other waits. `StreamerSpec` is weakly fair to a read that has
begun: it is a loop in one thread around a file read that returns. `ServerSpec`
is weakly fair to the server's thread and to nothing else: not to a return of
`accept`, nor to a client, which may connect and stay silent for ever. That
`recv` waits as long (`timeout_ms` is never applied) is why `ReceivedIsClosed`
speaks of the clients that send or leave only: that every connection is closed
(`AcceptedIsClosed`) is not so, see 5. The other
specifications state no fairness: their operations are calls that need not come.

Server is the one run without the deadlock check: a server that was stopped, and
a process that was lost in an overrun prefill, do stop.

Each run's properties are also run against a slip in one definition (a
dropped reset, an off-by-one, a missing guard; the definition that precedes
it and carries its name with a suffix), which they must notice.

## 4. Proofs

All theorems hold for any finite set of experts, names, sizes; any number of
slots, regions, layers and tokens; under the constants' assumptions
(`CacheAssumption`, `PrefetchAssumption`, `Ds4Assumption`, `KvAssumption`,
`WvsAssumption`, `AwmAssumption`, `StreamerAssumption`, `EngineAssumption`,
`ServerAssumption`, `SizesAssumption`, `EventsAssumption`, `PopulationAssumption`,
`MemoryAssumption`, `RouterAssumption`, `CoreAssumption`, `AgentAssumption`), which
TLC evaluates in the runs.

`Recursion`. The library's induction theorems take an operator, which the
provers cannot be given. What they can be given is that a set of naturals has a
least member (`LeastNat`, from `WFMin`): `InductionUpTo` and `SubsetInduction`
are inductions about a set of numbers or of subsets, `RecursiveValues` builds
the function that a recursive definition chooses. The rest is about
`SumFunctionOnSet`, whose recursion goes through a set in an order nobody knows:
it may be taken apart at any member (`SumApart`), so that one region or slot
that changes changes the sum by the difference (`SumMore`, `SumChanged`).

`PrefetchProofs`, the cache. The inductive invariant is `TypeOK`, the three parts of
`SlotsAgree` (`MapInjective`, `UsedCountsSlots`, `FreeSlotsAreCold`),
`SlotHoldsItsExpert` and two facts about
the loops: while preloading, the slots in use are exactly those below
`exp_cache_used` (`PreloadFillsInOrder`), or the preload could overwrite a
cached expert; while expanding, what is still to visit is cached
(`ExpandsCachedOnly`). That the free-slot scan never misses a free slot
(`FreeSlotsAreCold`) with the counter being exact gives: no free slot found
means every slot is in use, so `exp_cache_used >= exp_cache_cap` and the
`free_slot = exp_cache_used` branch is dead. `EvictsOnlyWhenFull` and
`CacheImplementsResidency` follow step by step.

`PrefetchProofs`, the threads. None of the safety properties is inductive: what the buffer
holds depends on the job the reader took, on where the loop is and on where the
handles were left. `ThreadsInv` adds to the types: a job that is posted is that of
`pf_idx`, whose turn is yet to come or is being waited for, and the reader works
on nothing else (`JobIsPending`); which counters go with which place in the loop
(`LoopIsWhere`); whose bytes are in the buffer while they matter
(`BufferIsForJob`); and that between a seek and its read a handle belongs to one
thread (`HandlesStay`), which is where `io_lock` comes in. The safety
properties of the run are consequences; `PrefetchImplementsCache` shows that
each step of the two threads is a step of `ExpertCache` or leaves the cache as it
is, so that the theorems about the cache hold with both threads running
(`CacheIsRightUnderPrefetch`). The proof never looks into the cache's slots: the
two arguments meet in the bytes that `Install` is given.

`BackendsProofs`, the DeepSeek pass. `PassInv` adds to the types that the length is the prompt's
(`LengthIsPrompt`), that activations are those of the token being fed or of none
(`ActsAreTokens`), that a row that was computed is its token's or zero, and a row
that was not is zero (`CacheIsPrompts`: the reset's memset is what a layer that
is passed over relies on), and that weights in RAM are their layer's unless a
read failed in `ds4_create` (`RamIsOwn`).

`WeightsProofs`, the scoreboard. The inductive invariant adds to `EntriesAreFound` and
`CountIsOccupancy` the types (`WvsTypeOK`) and what ties table and file
together: the entries of a file have distinct plain keys (`FileDistinct`), a
file being written is a prefix of the table (`FileFromTable`), a table being
loaded holds the entries read so far (`TableFromFile`), and nothing precedes
the header (`HeaderFirst`). Without them a load could insert a key twice,
since `ct_wvs_load` does not look for duplicates. `CopyInv` says what has been
copied so far, in either direction: a save has written the entries of the slots
it has been to, each once (`FileHasVisited`), a load has put what it has read
into the table and nothing else (`TableHasRead`), and a file never has more
entries than its header promises (`HeaderCounts`). From the two follow
`SavesAreWhole` and, step by step, `WvsImplementsScoreboard`: recording, decay
and save of the table are those of the map, and a crash leaves the map part of
what it was. Names that are cut short share an entry that is no plain key's, and
are outside the promise.

`WeightsProofs`, the memory manager. `BuffersFit` needs only well-formed regions; `HotIsSpared` and
`BudgetSheds` are action properties from the same invariant. `ChargeIsExact`
adds the equation of `UsedIsAllocated`, which is inductive with
`InAddressSpace`: as long as no allocation has failed, what is owned and lost is
below `Word`, or additions and subtractions modulo the word would not cancel. That
is not about the code but about `calloc`, and is a guard of the steps that
allocate. `ct_awm_evict_cold` is the one step that changes many regions; what it
gives back is the sum of what it takes (`Recursion`'s `SumCleared`).

`StorageProofs`, the streamer. `CountIsValid` is inductive with the types (`StreamerTypeOK`):
an eviction empties one valid entry, a read fills one that is not. That the scan
for a free slot never fails (`FreeSlotIsFound`) follows by counting. `UsedIsSum`
is inductive with the same types, for any sizes: both sides are taken modulo the
word. `BudgetIsKept` needs the charge without the modulus, and thus a hypothesis:
what all the slots and one region more can hold is below the word
(`MaxRegions * m + m < Word`, with m the largest size asked for). The code has
1024 slots by default, sizes of parts of a file and a word of 2^64. Its invariant
(`ReadSizes`) is that an entry is charged with at most m, or with a failed
`pread`'s -1, in which case `RoomIsMade` promises nothing.

`StorageProofs`, the event store, for any set of events. The invariant `StoreInv`
keeps what the properties forget: while nothing is torn, file and buffer together
are exactly the records of the log, and afterwards the file starts with them. The
properties say only what a parser makes of that, and two files that parse alike
may grow into files that do not. Each action preserves it by a law of
concatenation (a spill moves cells from one side to the other) or, where cells
are lost, because `Remaining` takes whole records only. What the parsers make of
records is the second half. A parser is a function of the file that is defined
from its end, since a record leads to a later position; `Recursion`'s
`ForwardRecursion` says that such a function exists, and `ForwardInduction` goes
through its positions. A position where a record of the log stands reads that
record and leads to the next one (`RecordAt`), so `Replay` yields the events that
are there (`ReplayOfRecords`) and `TypeCount` as many as there are of a type
(`CountOfRecords`). `ReplayKeepsItsPlace` does not use the log: a record that is
whole in a file is the same record in a longer one, a tear included, and where
the shorter walk stops the longer may go on (`LongerReplay`). `MaxCells`, TLC's
bound, plays no part in it.

`EngineProofs`. The inductive invariant adds to the engine's properties what is
known between two steps of a call: nothing is generated before the stage
`tokens`, a backend's buffer is empty before the prefill, and between the
prefill and the first token of a stream the prompt is in place and its room
reserved (`AnnouncedContext`). `RoomIsLeft` is what lets `TokenIInv` conclude
that a token is appended, although two of the loops do not look at `kv_cap`.
`ServerImplementsEngine` carries the results over to the server. `StopInv` says
that a heard stop leaves the thread no second `accept`. `StreamIsOwn` is about two
buffers that only the callback joins, the engine's tokens and what the client was
sent; with `ServesOwn` it is inductive: while a request is served the call is the
current connection's, for its prompt, and nothing is sent before the stage
`tokens`.

`BackendsProofs`, the transformer and its cache. `KvInductive` is `CacheHoldsContext` and `AttendsToContext` with
the types, what a file holds as far as it goes (`FileIsContext`), that only what
is within the arrays is said to be held (`HeldWithinArrays`) and what is known of a pass
that is under way (`PassIsForToken`: its row is in the context, and the length
counts it from the first layer on). A layer's step is taken apart: what its
projections leave is the token's own row or is said to be lost (`RowsProjected`),
one cell of each array is stored (`RowStored`), one entry of the context loses at
most this layer (`EntriesLost`), and so what was held is (`StoredHolds`). A load
restores what the file has, and the entries say which rows it has not
(`RestoredEntries`, `LoadedHolds`). The arithmetic it rests on is stated once:
no two positions share a cell (`CellsDiffer`), every position of a layer has one
(`CellInArray`), and the positions a compression keeps fit into the length it
leaves (`ShorterLength`). `TopExpertsArePicked` is about the router alone: the
loop that marks what it has taken yields that many different experts, and none
with a smaller score than one it left out; the run checks the same over all
scores of a small range (`PicksTopExperts`).

`BackendsProofs`, the composition. `BackendsInductive` holds the invariant of the
backend that is there, and of the other one what its own properties look at.
`BackendIsRight` and its neighbours are the properties of `KvCache` and
`Ds4Forward` for an engine that has loaded either.

`LoaderProofs`. Neither property is inductive: whether a read gets its own matrix
depends on a file that was written long before, by a process that may have been
killed in any of four passes, with part of its output still in a buffer.
`LoaderIInv` speaks of positions: a cell in the file, or in the buffer at the
place where it will be written, is what belongs there in every file the
converter writes, and entries are filled only in a file of full length
(`InOrder`, `FileInv`). For each pass `ToolInv` relates the length of file and
buffer to how far it has come, which is why a kill leaves a prefix, and an
interrupted `WriteIndex` no entry without its data. `TablesRead` says that a
table that was read in part belongs to a part that ends there while it is open,
so that a tensor that was not found is missing, not elsewhere. `NthIsData` is the
arithmetic: layer, expert and matrix are what division makes of the number of an
entry.

`ReasoningProofs`, the selections. A loop over an array is a recursive function
over its rounds, of which `RecursionExists` says that it exists (from `Recursion`'s
`RecursiveValues`), and `InductionUpTo` goes through the rounds. `FirstBestIs`: a finite set
of places with whole-number scores has a first best one. `RouterSelects` and
`RouterFallsBack` are that and the code around the scan. `RouterRanks` is the
selection sort that stops after `max_results` rounds: after n of them the entries
are still those that fit, each once, the first n are in order and none of the
rest scores above them (`IsRanking`, kept by `ExchangedRanks`); that the first of
them is the one `router_select` names needs the order of the entries before the
first round, in which the first of equals still stands. The copy by id is the
identity only where ids are distinct, which is a hypothesis of the property.
`MemoryRecalls` is the same for rounds that add to what was found, with the
threshold; the places that verification keeps are an ascending subsequence
(`InOrderIs`).

`ReasoningProofs`, the population. `NormalizedIs` says what the double loop
leaves: who stays is decided hypothesis by hypothesis, from the first on, so that
whoever goes is like an earlier one that stays, for any relation likeness may be;
that one gets the highest prior of all it stands for. `DuplicatesArePassedOn`
follows, since evidence moves no prior and takes nobody out of use
(`AppliedPassesOn`).

`ReasoningProofs`, the invariant. `ReasoningIInv` is `CoreInv`, `Conversed`, the
types of the agent, and `AgentCoreIsIdle`. `CoreInv` has four parts.
`Populated`: hypotheses in use are active and have their strings. `Chronicle`: each record of a branch or a merge leads
from an older hypothesis to one that is there and whose claim is marked with the
record's type, no two lead to the same one, and every marked claim has one. That
is `LineageIsRecorded` with the history and the nodes as parameters, so that the
few operators that change either have one lemma each (`ChronicleNoted`,
`ChronicleMore`, `ChronicleDerived`, `ChronicleKept`). `Stores` and `RouterTypeOK`
are the types of memory and router, all that their promises need. A bound of the
history is part of it: an iteration leaves one record at most, so that a solve
that begins with room for its iterations ends with it (`HistoryLength`).
`Conversed` says of the agent that its turns are the end of the conversation and
its last prompt the message after the end of what there was before; two pushes
into a bounded history, one after the other, are the end of a conversation that
grew by two (`LastOfLast`). `AgentCoreIsIdle` must be part of the invariant and
not its consequence: the controller plans for as many ids as there are active
hypotheses, and only because an agent's population is empty does its solve end
without a test. It rests on two assumptions, `Dim # 16` (`engine_create` asks
for 64 dimensions, `agent.c` offers patterns of 16) and that a caller's claim can
be told from a branch or a merge, without which no history could.
`FailedTransitionsChangeNothing` goes through the transitions: whoever succeeds
leaves a record, and the history is longer than it was.

Only model-checked. `LayerCompletes`, `ReadEnds` and `ReceivedIsClosed` are
liveness under fairness, which the prover does not do. Every other property of
the passing runs is stated by a theorem.

## 5. Where the code and its documents part

With a run that gives the counterexample:

- **Format label** (`ds4_forward.c:1208`, run FormatLabel): the label of a slot
  comes from the scoreboard, its bytes from the `.bit1` map or, without one, from
  the GGUF. An expert that is not HOT is labelled Q1_0 over MXFP4 bytes, and the
  layer multiplies by it as Q1_0.
- **Shutdown** (`ds4_forward.c:860`, run Shutdown): the wakeup that stops the
  reader can be missed, since `pf_exit` is set without `pf_lock`; after five
  seconds the context is freed under a thread that sleeps on its lock.

Stated in the models; adding the definition to the configuration named gives
the counterexample:

- **Token window** (`ds4_forward.c:1819`; `WindowCountsTokens`, MCPrefetch.cfg
  with two layers and a window of three): `tokens_in_window` counts layers.
- **AWM budget** (`awm.c:152`, `awm.c:206`; `ResidentWithinBudget`, MCAwm.cfg):
  moves to a higher precision in RAM and loads on demand do not respect the
  budget.
- **Streamer LRU** (`streaming.c:89`; `EvictsLeastRecent`, MCStreamer.cfg):
  `find_lru` scans the slots below `cache_count`, while evictions leave holes;
  what lies behind is not evicted, nor found, however old it is. The loop that
  makes room may therefore end with the cache over its budget.
- **Last token of a stream** (`server.c:175`; `StreamedTokens`, MCServer.cfg):
  `stream_callback` sends no token when it is told that this is the last one.
- **Silent client** (`server.c:474`; `AcceptedIsClosed`, MCServer.cfg):
  `server.h:42` calls `timeout_ms` the "socket recv timeout, default: 30000"; it is
  stored and never applied. A client that connects and sends nothing is waited
  for, by the only thread, for ever.
- **Limits of a population** (`hypothesis.c:86`; `LimitIsEnforced`, MCAgent.cfg):
  `population_normalize` is said to "trim, dedup near-duplicates, enforce limits"
  (`hypothesis.h:48`). It drops duplicates only: `WASTE_MAX_ACTIVE_HYP` is used
  for the initial capacity and nothing else, and no string is trimmed.
- **Selection** (`router.c:84`; `SelectedFits`, MCAgent.cfg): the score of 0 of an
  executor that does not fit beats the initial -1, so a router to which nothing
  fits names one all the same, though `router.h:40` has it "find best executor for
  a given capability requirement".
- **Experts of the .bit1 file** (`ds4_forward.c:960`; `EveryExpertIsInFile`,
  MCLoader.cfg): an expert without an entry "shouldn't happen when use_q10", and
  does while the converter has not come to its index, or was killed before it.

Seen while modelling:

- engine and server: a stop before `running = 1` (`server.c:563`) is lost, though
  `server.h:53` says that the loop returns on `ct_server_stop()`; a prompt longer
  than the context overruns `kv_tokens` in the transformer's branch without a
  stream (`engine.c:481`); in a full context a stream ends without a callback
  that says done; a split model of an unknown architecture loads, and generates
  placeholders; `engine.c:289` gives the handle of a single file to a
  backend's `create` that expects a split one.
- streamer: `platform_read` (`streaming.c:146`) passes on a failed `pread`'s -1 as
  2^64 - 1 bytes, where `streaming.h:63` promises 0, and the region is cached
  with that size.
- scoreboard and AWM: a key of 64 characters or more is stored cut short and
  compared in full (`wvs.c:153`), and never found again; a region whose `calloc`
  failed stays a RAM region that was never charged, so that evicting it wraps the
  charge (`awm.c:224`).
- DeepSeek pass: the fast path is declared ready although the results of its
  reads are ignored (`ds4_forward.c:715` on); BF16 copies, "only valid when
  fast_path_ready" (1508), are used without it when the loading stopped part
  way; the index offsets of a `.bit1` file are called relative to the data
  section (457, `compress_bit1.c:75`) and are absolute; past the context a token
  does not attend to itself.
- transformer: nobody looks at whether a tensor could be read or multiplied by.
  `ct_model_matmul` refuses every tensor that is not F32 (`model.c:132`), so that
  with an F16 or quantised model every projection fails without a word, and each
  layer stores what `t->k` and `t->v` hold, the zeroes they were allocated with;
  a projection that fails once stores the row of the layer or token before;
- transformer: a compressed cache keeps the rows' old rotations; the mixture of
  experts adds each expert's activations to the previous ones', clears
  `n_embd` of `n_ff` of them and does not use the router's weights
  (`transformer.c:257` on); a layer without memory for its norm stores no row and
  the pass goes on (164), over the row of an earlier prompt, since `ct_kv_reset`
  clears nothing; `ct_kv_load` compares no shapes, does not notice a short file,
  and may change the length and return false (`kv_cache.c:103`).
- reasoning core: STRENGTHEN and WEAKEN change nothing but the history; the
  controller plans for the ids from 1 to the number of active hypotheses,
  whichever they are (`core.c:235`); an iteration returns the last record of the
  history, old or new (289); evidence is applied whatever the funnel says of it;
  pruned and merged hypotheses use up the capacity (`hypothesis.c:69`);
  `population_normalize` frees strings that `population_destroy` frees again
  (103, 59); the agent's patterns have 16 dimensions and its memory 64, so
  that none is ever stored.
- event store: a record torn by a crash misaligns whatever is appended behind
  it; `event_store.count` is never read.
- downloader and converter: `gguf_split_open` leaves out parts that do not open,
  and `gguf_open` accepts a table that is cut short; what the converter's last
  `fclose` returns is not looked at.

## 6. Plan

What is left, in this order:

1. The composition of `Engine` with `Backends`: the positions an engine feeds as
   the ones its backend is fed at. They are joined by hand now: the engine resets
   its backend before each prompt, and both modules say so.
2. The handles that a second `ct_engine_load` opens over the first one's.

Not modelled, and why:

- floating-point code (`quant`, `attention`, dequantisation, the kernels of both
  forward passes, `grassmann`, `hdc`, `observer`, `core/causal`'s scores): what it
  computes is beyond a model checker, and it keeps no state that interleaves,
  persists or fails half way;
- `cautreo.c`: each of its calls goes to one of the modules above, and nothing
  but an integration test calls it;
- the LM head and `ds4_argmax`: rows that could not be read get a logit of zero,
  which is a matter of numbers;
- the profiler: counters for a report that nothing reads;
- the registry of architectures, metadata of GGUF files, HTTP and JSON text,
  options and printing: tables and formatting;
- `hal`: facts about the machine, read once;
- `speculative`, `steering`, `distributed`, `backend`: placeholders that nothing
  calls;
- `core/contracts`: constructors, validators and destructors; what matters of them
  is part of the operations that use them;
- benchmarks, tests and scripts other than the two tools above.
