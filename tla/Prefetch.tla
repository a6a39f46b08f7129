------------------------------- MODULE Prefetch -------------------------------
(***************************************************************************)
(* One layer of ds4_layer (src/transformer/ds4_forward.c) as it runs its   *)
(* routed experts: the inference thread walks the selected experts while a *)
(* reader thread prefetches the next missing one, over one buffer, one     *)
(* condition variable and the file handles both threads share; and the     *)
(* shutdown of the reader in ds4_free.                                     *)
(*                                                                         *)
(* A critical section that neither sleeps nor reads a file is one step.    *)
(* pf_lock is held across steps only by a reader that has found no work    *)
(* and is about to sleep (wpc = "presleep"): ds4_free sets pf_exit and     *)
(* wakes the reader without taking the lock.  A handle's io_lock is held   *)
(* from the seek to the read (pc or wpc = "read").                         *)
(***************************************************************************)
EXTENDS ExpertCache

CONSTANTS
  NAct,        \* N_ACT, experts selected per layer
  NLayers,     \* n_layers
  LayerOf,     \* the layer of each expert
  Expert0,     \* expert 0 of each layer
  Window,      \* ctx_window_size
  MaxSpurious, \* bound on spurious wakeups of the condition variable
  Idle         \* pf_state = -1

ASSUME PrefetchAssumption ==
  /\ NAct \in Nat \ {0}
  /\ NLayers \in Nat \ {0}
  /\ LayerOf \in [Experts -> 0 .. NLayers - 1]
  /\ Expert0 \in [0 .. NLayers - 1 -> Experts]
  /\ Window \in Nat \ {0}
  /\ MaxSpurious \in Nat
  /\ Idle \notin Experts

VARIABLES
  pc,       \* where the inference thread is
  layer,    \* the layer it runs
  top,      \* the experts the router selected
  needs,    \* needs_pf: which of them were missing when the layer began
  k,        \* the one being processed
  pfk,      \* pf_idx: the one being prefetched, 0 for none
  miss,     \* exp_cache_ensure failed, the f32 fallback has to read
  inWindow, \* tokens_in_window
  tokens,   \* tokens finished since the scoreboard was last decayed
  wpc,      \* where the reader thread is ("none": it could not be started)
  job,      \* the expert the reader picked up
  wok,      \* its read succeeded
  pfState, pfReady, pfExit,  \* the fields pf_lock guards
  pfBuf,    \* pf_buf
  fpos,     \* position of each shared file handle, as the expert it is at
  spurious  \* spurious wakeups left

mainVars == <<pc, layer, top, needs, k, pfk, miss, inWindow, tokens>>
readerVars == <<wpc, job, wok, pfState, pfReady, pfExit, pfBuf, spurious>>
vars == <<cacheVars, mainVars, readerVars, fpos>>

PfTypeOK ==
  /\ pc \in {"boundary", "expert", "wait", "asleep", "copy", "ensure", "read",
             "nextpf", "fallback", "layerend", "wake", "join", "freed"}
  /\ layer \in 0 .. NLayers - 1
  /\ top \in [1 .. NAct -> Experts]
  /\ needs \in [1 .. NAct -> BOOLEAN]
  /\ k \in 0 .. NAct
  /\ pfk \in 0 .. NAct
  /\ miss \in BOOLEAN
  /\ inWindow \in 0 .. Window - 1
  /\ tokens \in Nat
  /\ wpc \in {"none", "top", "presleep", "asleep", "seek", "read", "publish", "exited"}
  /\ job \in Experts \cup {NoExpert}
  /\ wok \in BOOLEAN
  /\ pfState \in Experts \cup {Idle}
  /\ pfReady \in BOOLEAN
  /\ pfExit \in BOOLEAN
  /\ pfBuf \in Contents
  /\ fpos \in [Encodings -> Experts \cup {NoExpert}]
  /\ spurious \in 0 .. MaxSpurious

-----------------------------------------------------------------------------
(* Locks and wakeups.                                                      *)

\* The file an expert is read from: the .bit1 file or a part of the GGUF.
File(e) == ReadEncoding(e)

PfLockFree == wpc # "presleep"

IoNeverLocked(f) == TRUE
IoFree(f) ==
  /\ ~ (pc = "read" /\ File(top[k]) = f)
  /\ ~ (wpc = "read" /\ File(job) = f)

\* After a read the position is past the expert, at nobody's first byte.
Moved(f) == [fpos EXCEPT ![f] = NoExpert]

WakeReader == wpc' = IF wpc = "asleep" THEN "top" ELSE wpc

\* What the router may select.  A NaN score never compares greater, so the
\* selection falls back on expert 0 once the other scores are used up.
Selections(l) ==
  {t \in [1 .. NAct -> {e \in Experts : LayerOf[e] = l}] :
     \A i, j, m \in 1 .. NAct :
       i < j /\ j <= m /\ t[i] = t[j] => t[m] = Expert0[l]}

\* The locals top and needs_pf are dead between two layers.
NoSelection(l) == [i \in 1 .. NAct |-> Expert0[l]]
-----------------------------------------------------------------------------
(* The inference thread.                                                   *)

Init ==
  /\ CacheInit
  /\ pc = "boundary"
  /\ layer = 0
  /\ top = NoSelection(0)
  /\ needs = [i \in 1 .. NAct |-> FALSE]
  /\ k = 0 /\ pfk = 0 /\ miss = FALSE
  /\ inWindow = 0 /\ tokens = 0
  /\ wpc \in {"none", "top"}
  /\ job = NoExpert /\ wok = FALSE
  /\ pfState = Idle /\ pfReady = FALSE /\ pfExit = FALSE
  /\ pfBuf = Nothing
  /\ fpos = [f \in Encodings |-> NoExpert]
  /\ spurious = MaxSpurious

\* ds4_set_wvs and the window update: the preload and expansion loops run
\* between two layers, with the reader idle.
BetweenLayers ==
  /\ pc = "boundary"
  /\ \/ \E e \in Experts : Preload(e)
     \/ PreloadEnd
     \/ \E e \in Experts : Expand(e)
     \/ ExpandEnd
  /\ UNCHANGED <<mainVars, readerVars, fpos>>

\* The router has selected t; needs_pf is computed once, up front.
StartLayer(t) ==
  /\ pc = "boundary"
  /\ phase = "serve"
  /\ top' = t
  /\ needs' = [i \in 1 .. NAct |-> ~ Cached(t[i])]
  /\ k' = IF wpc = "none" THEN 1 ELSE 0
  /\ pc' = IF wpc = "none" THEN "expert" ELSE "nextpf"
  /\ UNCHANGED <<cacheVars, layer, pfk, miss, inWindow, tokens, readerVars, fpos>>

\* On to the next selected expert, or out of the loop.
Advance ==
  IF k = NAct
  THEN pc' = "layerend" /\ k' = k
  ELSE pc' = "expert" /\ k' = k + 1

\* The first expert after k that was missing when the layer began.
IsNextMissing(i) ==
  /\ i \in k + 1 .. NAct
  /\ needs[i]
  /\ \A j \in k + 1 .. i - 1 : ~ needs[j]

NothingMissing == \A i \in k + 1 .. NAct : ~ needs[i]

\* Where the thread goes when the search for the next prefetch is over.
AfterNextPf ==
  /\ IF miss THEN pc' = "fallback" /\ k' = k ELSE Advance
  /\ UNCHANGED <<cacheVars, layer, top, needs, miss, inWindow, tokens>>

\* pf_start posts expert i under pf_lock and wakes the reader.
PfStart(i) ==
  /\ pfState' = top[i]
  /\ pfReady' = FALSE
  /\ pfk' = i
  /\ WakeReader
  /\ UNCHANGED <<job, wok, pfExit, pfBuf, spurious>>

StartNextPf ==
  /\ pc = "nextpf"
  /\ PfLockFree
  /\ \E i \in 1 .. NAct : IsNextMissing(i) /\ PfStart(i)
  /\ AfterNextPf
  /\ UNCHANGED fpos

NoNextPf ==
  /\ pc = "nextpf"
  /\ NothingMissing
  /\ pfk' = 0
  /\ AfterNextPf
  /\ UNCHANGED <<readerVars, fpos>>

\* The expert being prefetched has its turn: pf_wait.
MustWaitUnlessCached == pfk = k /\ ~ Cached(top[k])
MustWait == pfk = k

BeginWait ==
  /\ pc = "expert"
  /\ MustWait
  /\ pc' = "wait"
  /\ UNCHANGED <<cacheVars, layer, top, needs, k, pfk, miss, inWindow, tokens, readerVars, fpos>>

WaitReadyStartingNext ==
  /\ pc = "wait"
  /\ PfLockFree
  /\ pfReady
  /\ pc' = "copy"
  /\ IF NothingMissing
     THEN UNCHANGED <<pfk, readerVars>>
     ELSE \E i \in 1 .. NAct : IsNextMissing(i) /\ PfStart(i)
  /\ UNCHANGED <<cacheVars, layer, top, needs, k, miss, inWindow, tokens, fpos>>
WaitReady ==
  /\ pc = "wait"
  /\ PfLockFree
  /\ pfReady
  /\ pc' = "copy"
  /\ UNCHANGED <<cacheVars, layer, top, needs, k, pfk, miss, inWindow, tokens, readerVars, fpos>>

\* The prefetch failed: exp_cache_ensure gets no buffer and reads itself.
WaitFailedUnchecked ==
  /\ pc = "wait"
  /\ PfLockFree
  /\ ~ pfReady
  /\ pc' = "ensure"
  /\ UNCHANGED <<cacheVars, layer, top, needs, k, pfk, miss, inWindow, tokens, readerVars, fpos>>
WaitFailed ==
  /\ pc = "wait"
  /\ PfLockFree
  /\ ~ pfReady
  /\ pfState = Idle
  /\ pc' = "ensure"
  /\ UNCHANGED <<cacheVars, layer, top, needs, k, pfk, miss, inWindow, tokens, readerVars, fpos>>

WaitSleep ==
  /\ pc = "wait"
  /\ PfLockFree
  /\ ~ pfReady
  /\ pfState # Idle
  /\ pc' = "asleep"
  /\ UNCHANGED <<cacheVars, layer, top, needs, k, pfk, miss, inWindow, tokens, readerVars, fpos>>

WaitSpurious ==
  /\ pc = "asleep"
  /\ spurious > 0
  /\ spurious' = spurious - 1
  /\ pc' = "wait"
  /\ UNCHANGED <<cacheVars, layer, top, needs, k, pfk, miss, inWindow, tokens,
                 wpc, job, wok, pfState, pfReady, pfExit, pfBuf, fpos>>

\* The end of exp_cache_ensure for expert k; m tells whether it failed.
EnsureDone(m) ==
  /\ miss' = m
  /\ IF pfk = k THEN pc' = "nextpf" /\ k' = k
     ELSE IF m THEN pc' = "fallback" /\ k' = k
     ELSE Advance
  /\ UNCHANGED <<layer, top, needs, pfk, inWindow, tokens, readerVars>>

\* exp_cache_ensure with the prefetched buffer, which it copies.
CopyPrefetched ==
  /\ pc = "copy"
  /\ Hit(top[k]) \/ Install(top[k], pfBuf)
  /\ EnsureDone(FALSE)
  /\ UNCHANGED fpos

EnsureEntered == pc = "ensure" \/ (pc = "expert" /\ ~ MustWait)

EnsureHit ==
  /\ EnsureEntered
  /\ Hit(top[k])
  /\ EnsureDone(FALSE)
  /\ UNCHANGED fpos

\* A read of its own, on the handle the reader may be using.
EnsureSeek ==
  /\ EnsureEntered
  /\ ~ Cached(top[k])
  /\ IoFree(File(top[k]))
  /\ fpos' = [fpos EXCEPT ![File(top[k])] = top[k]]
  /\ pc' = "read"
  /\ UNCHANGED <<cacheVars, layer, top, needs, k, pfk, miss, inWindow, tokens, readerVars>>

EnsureRead ==
  /\ pc = "read"
  /\ LET f == File(top[k]) IN Install(top[k], Bytes(fpos[f], f))
  /\ EnsureDone(FALSE)
  /\ fpos' = Moved(File(top[k]))

EnsureReadFailsUnnoticed ==
  /\ pc = "read"
  /\ Install(top[k], Bytes(top[k], "torn"))
  /\ EnsureDone(FALSE)
  /\ fpos' = Moved(File(top[k]))
EnsureReadFails ==
  /\ pc = "read"
  /\ InstallFails(top[k])
  /\ EnsureDone(TRUE)
  /\ fpos' = Moved(File(top[k]))

\* The f32 fallback reads the expert row by row from the GGUF; whether that
\* works or not, the loop goes on.
Fallback ==
  /\ pc = "fallback"
  /\ IoFree("MXFP4")
  /\ fpos' = Moved("MXFP4")
  /\ miss' = FALSE
  /\ Advance
  /\ UNCHANGED <<cacheVars, layer, top, needs, pfk, inWindow, tokens, readerVars>>

\* tokens_in_window counts a layer, and is compared with the window.
CountInWindow ==
  IF inWindow + 1 >= Window
  THEN /\ WindowEnd
       /\ inWindow' = 0
       /\ tokens' = 0
  ELSE /\ inWindow' = inWindow + 1
       /\ UNCHANGED cacheVars
       /\ tokens' = IF layer = NLayers - 1 THEN tokens + 1 ELSE tokens

LayerEnd ==
  /\ pc = "layerend"
  /\ CountInWindow
  /\ layer' = (layer + 1) % NLayers
  /\ k' = 0
  /\ pfk' = 0
  /\ pc' = "boundary"
  /\ top' = NoSelection(layer')
  /\ needs' = [i \in 1 .. NAct |-> FALSE]
  /\ UNCHANGED <<miss, readerVars, fpos>>
-----------------------------------------------------------------------------
(* ds4_free.                                                               *)

FreeSetExit ==
  /\ pc = "boundary"
  /\ phase = "serve"
  /\ layer = 0
  /\ IF wpc = "none"
     THEN pc' = "freed" /\ UNCHANGED pfExit
     ELSE pc' = "wake" /\ pfExit' = TRUE
  /\ UNCHANGED <<cacheVars, layer, top, needs, k, pfk, miss, inWindow, tokens,
                 wpc, job, wok, pfState, pfReady, pfBuf, spurious, fpos>>

FreeWake ==
  /\ pc = "wake"
  /\ pc' = "join"
  /\ WakeReader
  /\ UNCHANGED <<cacheVars, layer, top, needs, k, pfk, miss, inWindow, tokens,
                 job, wok, pfState, pfReady, pfExit, pfBuf, spurious, fpos>>

\* WaitForSingleObject returns when the reader has exited or after 5 s.  A
\* reader that can run is assumed to get that far within the 5 s; one that
\* sleeps does not.
FreeJoin ==
  /\ pc = "join"
  /\ wpc \in {"exited", "asleep"}
  /\ pc' = "freed"
  /\ UNCHANGED <<cacheVars, layer, top, needs, k, pfk, miss, inWindow, tokens, readerVars, fpos>>

Stopped == pc = "freed" /\ wpc \in {"none", "exited", "asleep"} /\ UNCHANGED vars
-----------------------------------------------------------------------------
(* The reader thread, pf_thread_fn.                                        *)

ReaderKeeps == UNCHANGED <<cacheVars, layer, top, needs, k, pfk, miss, inWindow, tokens>>

\* Under pf_lock: sleep, exit or take the job.
ReaderTest ==
  /\ wpc = "top"
  /\ wpc' = IF pfExit THEN "exited" ELSE IF pfState = Idle THEN "presleep" ELSE "seek"
  /\ job' = IF pfExit \/ pfState = Idle THEN job ELSE pfState
  /\ ReaderKeeps
  /\ UNCHANGED <<pc, wok, pfState, pfReady, pfExit, pfBuf, fpos, spurious>>

ReaderSleep ==
  /\ wpc = "presleep"
  /\ wpc' = "asleep"
  /\ ReaderKeeps
  /\ UNCHANGED <<pc, job, wok, pfState, pfReady, pfExit, pfBuf, fpos, spurious>>

ReaderSpurious ==
  /\ wpc = "asleep"
  /\ spurious > 0
  /\ spurious' = spurious - 1
  /\ wpc' = "top"
  /\ ReaderKeeps
  /\ UNCHANGED <<pc, job, wok, pfState, pfReady, pfExit, pfBuf, fpos>>

ReaderSeek ==
  /\ wpc = "seek"
  /\ IoFree(File(job))
  /\ fpos' = [fpos EXCEPT ![File(job)] = job]
  /\ wpc' = "read"
  /\ ReaderKeeps
  /\ UNCHANGED <<pc, job, wok, pfState, pfReady, pfExit, pfBuf, spurious>>

ReaderRead ==
  /\ wpc = "read"
  /\ \/ /\ pfBuf' = Bytes(fpos[File(job)], File(job))
        /\ wok' = TRUE
     \/ /\ pfBuf' = Nothing
        /\ wok' = FALSE
  /\ fpos' = Moved(File(job))
  /\ job' = NoExpert
  /\ wpc' = "publish"
  /\ ReaderKeeps
  /\ UNCHANGED <<pc, pfState, pfReady, pfExit, spurious>>

ReaderPublishSilently ==
  /\ wpc = "publish"
  /\ pfReady' = wok
  /\ pfState' = Idle
  /\ wok' = FALSE
  /\ wpc' = "top"
  /\ ReaderKeeps
  /\ UNCHANGED <<pc, job, pfExit, pfBuf, fpos, spurious>>
ReaderPublish ==
  /\ wpc = "publish"
  /\ pfReady' = wok
  /\ pfState' = Idle
  /\ pc' = IF pc = "asleep" THEN "wait" ELSE pc
  /\ wok' = FALSE
  /\ wpc' = "top"
  /\ ReaderKeeps
  /\ UNCHANGED <<job, pfExit, pfBuf, fpos, spurious>>
-----------------------------------------------------------------------------
InLayerStep ==
  \/ StartNextPf \/ NoNextPf
  \/ BeginWait \/ WaitReady \/ WaitFailed \/ WaitSleep
  \/ CopyPrefetched
  \/ EnsureHit \/ EnsureSeek \/ EnsureRead \/ EnsureReadFails
  \/ Fallback
  \/ LayerEnd

FreeStep == FreeWake \/ FreeJoin

ReaderStep ==
  ReaderTest \/ ReaderSleep \/ ReaderSeek \/ ReaderRead \/ ReaderPublish

Next ==
  \/ BetweenLayers
  \/ \E t \in Selections(layer) : StartLayer(t)
  \/ InLayerStep
  \/ WaitSpurious
  \/ FreeSetExit
  \/ FreeStep
  \/ Stopped
  \/ ReaderStep
  \/ ReaderSpurious

\* Both threads are scheduled, and a read ends; nobody has to start a layer.
Spec == Init /\ [][Next]_vars /\ WF_vars(InLayerStep) /\ WF_vars(ReaderStep)
-----------------------------------------------------------------------------
(* Properties.                                                             *)

\* pf_wait's caller copies pf_buf outside the lock: the reader is not at it
\* ("The caller MUST copy or use the buffer before the next pf_start call").
BufferNotShared == pc = "copy" => wpc \notin {"seek", "read", "publish"}

\* The buffer handed over holds the whole expert whose turn it is, however
\* the two threads' seeks and reads on the shared handles interleave.
HandoverIsForExpert ==
  pc = "copy" => pfBuf = Bytes(top[k], ReadEncoding(top[k]))

\* The two threads' invariant: what each says about a buffer needs the other's
\* program counter and the handles' positions to be what the code allows.
PrefetchInv == PfTypeOK /\ HandoverIsForExpert

\* A job is posted only to a reader that has none: a job is never dropped or
\* overwritten.
OneJobAtATime ==
  [][pfState' \notin {pfState, Idle} =>
       pfState = Idle /\ wpc \notin {"seek", "read", "publish"}]_vars

\* Between layers, and while the context is freed, no prefetch is in flight:
\* ds4_free and ds4_set_bit1_path pull no file or buffer from under a read.
QuietBetweenLayers ==
  pc \in {"boundary", "wake", "join", "freed"} =>
    pfState = Idle /\ wpc \notin {"seek", "read", "publish"}

\* The two threads together only do to the cache what ExpertCache allows.
ImplementsCache == CacheSpec

\* A layer that starts ends, whether the prefetches succeed or fail.
LayerCompletes ==
  pc \notin {"boundary", "wake", "join", "freed"} ~> pc = "boundary"

\* "Stop prefetch thread": ds4_free returns only once the reader is gone.
ReaderGoneWhenFreed == pc = "freed" => wpc \in {"none", "exited"}

\* "tokens processed in current window": the scoreboard is decayed once per
\* Window tokens.
WindowCountsTokens == [][inWindow = Window - 1 /\ inWindow' = 0 => tokens + 1 >= Window]_vars
=============================================================================
