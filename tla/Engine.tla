--------------------------------- MODULE Engine ---------------------------------
(***************************************************************************)
(* The inference engine of src/engine/engine.c: loading, generation with   *)
(* and without a stream of callbacks, and the token buffer kv_tokens.      *)
(*                                                                         *)
(* A generation is a sequence of steps: prefill, the callback that         *)
(* announces it, one step per token.  The model is opaque: any token may   *)
(* be sampled; what the backend was given is remembered in fed.            *)
(* Allocations succeed, and opts.ctx_size is set, so that kv_cap never     *)
(* changes.                                                                *)
(***************************************************************************)
EXTENDS Integers, Sequences

CONSTANTS
  TokenIds,   \* tokens
  Prompts,    \* prompts callers use, also ones longer than the context
  MaxTokens,  \* the values of max_tokens they use
  KvCap,      \* kv_cap
  Sources     \* where a model comes from: "split", "single" (GGUF) or "other"

ASSUME EngineAssumption ==
  /\ Prompts \subseteq Seq(TokenIds)
  /\ MaxTokens \subseteq Nat
  /\ KvCap \in Nat \ {0}
  /\ Sources \subseteq {"split", "single", "other"}

VARIABLES
  source,   \* opts.backend, opts.model_parts, opts.model_path
  loaded,   \* loaded
  backend,  \* "arch": arch_ctx; "tf": the transformer; "none": placeholder tokens
  kv,       \* kv_tokens[0 .. kv_len - 1]
  call,     \* the generation under way
  fed,      \* what it has given the backend: [token, pos]
  out       \* what it has generated

engineVars == <<source, loaded, backend, kv, call, fed, out>>

\* "gone": memory was overwritten, and the process with it.
Stages == {"idle", "prefill", "announce", "tokens", "gone"}
NoCall == [op |-> "none", prompt |-> <<>>, max |-> 0, gen |-> 0, stage |-> "idle"]
Idle == call.stage = "idle"

EngineTypeOK ==
  /\ source \in Sources
  /\ loaded \in BOOLEAN
  /\ backend \in {"arch", "tf", "none"}
  /\ kv \in Seq(TokenIds)
  /\ call \in [op : {"none", "sync", "stream"}, prompt : {<<>>} \cup Prompts,
               max : {0} \cup MaxTokens, gen : Nat, stage : Stages]
  /\ call.gen <= call.max
  /\ fed \in Seq([token : TokenIds, pos : Nat])
  /\ out \in Seq(TokenIds)
-----------------------------------------------------------------------------
EngineInit ==
  /\ source \in Sources
  /\ loaded = FALSE
  /\ backend = "none"
  /\ kv = <<>>
  /\ call = NoCall
  /\ fed = <<>> /\ out = <<>>

\* ct_engine_load.  A split model of an architecture nobody registered is loaded
\* all the same.  A single file is run by the transformer: the backends that
\* are registered make no context from one (or expect a split handle).
Load ==
  /\ Idle /\ ~ loaded
  /\ loaded' = TRUE
  /\ \/ source = "split" /\ backend' \in {"arch", "none"} /\ kv' = <<>>
     \/ source = "single" /\ backend' = "tf" /\ kv' = <<>>
     \/ source = "other" /\ UNCHANGED <<backend, kv>>
  /\ UNCHANGED <<source, call, fed, out>>

\* The files cannot be opened, or the transformer cannot be built.
LoadFails ==
  /\ Idle /\ ~ loaded
  /\ \/ source \in {"split", "single"} /\ UNCHANGED backend
     \/ source = "single" /\ backend' = "none"
  /\ UNCHANGED <<source, loaded, kv, call, fed, out>>

\* ct_engine_unload drops the flag and keeps the backend.
Unload ==
  /\ Idle /\ loaded
  /\ loaded' = FALSE
  /\ UNCHANGED <<source, backend, kv, call, fed, out>>
-----------------------------------------------------------------------------
(* Generation.  Nothing here looks at loaded.                              *)

\* ct_engine_generate or ct_engine_generate_stream begins; a backend is reset.
Begin(op, prompt, max) ==
  /\ Idle
  /\ call' = [op |-> op, prompt |-> prompt, max |-> max, gen |-> 0, stage |-> "prefill"]
  /\ kv' = IF backend = "none" THEN kv ELSE <<>>
  /\ UNCHANGED <<source, loaded, backend, fed, out>>

UpTo(s, n) == SubSeq(s, 1, IF n < Len(s) THEN n ELSE Len(s))

\* The buffer after the prompt.  A stream lets its last slot be overwritten; the
\* placeholder's stream leaves the prompt out.
Prefilled ==
  LET p == call.prompt IN
  CASE backend = "none" /\ call.op = "stream" -> kv
    [] backend = "none" /\ call.op = "sync"   -> kv \o UpTo(p, KvCap - Len(kv))
    [] backend # "none" /\ call.op = "stream" /\ Len(p) > KvCap
                                              -> UpTo(p, KvCap - 1) \o <<p[Len(p)]>>
    [] OTHER                                  -> UpTo(p, KvCap)

\* Tokens there is room for after len tokens.
FittingAlways(len, max) == KvCap - len
FittingButOne(len, max) == IF len + max > KvCap + 1 THEN KvCap - len + 1 ELSE max
Fitting(len, max) == IF len + max > KvCap THEN KvCap - len ELSE max

\* The transformer's prefill without a stream does not look at kv_cap.
Overruns == backend = "tf" /\ call.op = "sync" /\ Len(call.prompt) > KvCap

FedPrompt ==
  IF backend = "none" THEN <<>>
  ELSE [i \in DOMAIN call.prompt |-> [token |-> call.prompt[i], pos |-> i - 1]]

\* What the call knows is forgotten; the buffer stays.
EndCall == call' = NoCall /\ fed' = <<>> /\ out' = <<>>

\* Prefill.
Prefill ==
  /\ call.stage = "prefill" /\ ~ Overruns
  /\ kv' = Prefilled
  /\ fed' = FedPrompt
  /\ call' = [call EXCEPT !.gen = Fitting(Len(Prefilled), call.max),
                          !.stage = IF call.op = "stream" THEN "announce" ELSE "tokens"]
  /\ UNCHANGED <<source, loaded, backend, out>>

\* It writes past the buffer, and with kv_cap - kv_len, which is unsigned, goes on
\* to generate.  Of what follows nothing can be said.
PrefillOverruns ==
  /\ call.stage = "prefill" /\ Overruns
  /\ call' = [call EXCEPT !.stage = "gone"]
  /\ UNCHANGED <<source, loaded, backend, kv, fed, out>>

\* callback(-1, false) of a stream; the callback may end the generation.
Announce ==
  /\ call.stage = "announce"
  /\ call' = [call EXCEPT !.stage = "tokens"]
  /\ UNCHANGED <<source, loaded, backend, kv, fed, out>>

AnnounceEnds ==
  /\ call.stage = "announce"
  /\ EndCall
  /\ UNCHANGED <<source, loaded, backend, kv>>

\* ct_engine_generate looks at kv_cap for a backend of its own only.
Remembered(tok) ==
  IF Len(kv) < KvCap \/ (call.op = "sync" /\ backend # "arch") THEN Append(kv, tok) ELSE kv
Pos(tok) == Len(Remembered(tok)) - 1
Fed(tok) ==
  IF backend = "none" THEN fed ELSE Append(fed, [token |-> tok, pos |-> Pos(tok)])

\* A token of ct_engine_generate.
SyncToken(tok) ==
  /\ call.stage = "tokens" /\ call.op = "sync" /\ Len(out) < call.gen
  /\ out' = Append(out, tok)
  /\ kv' = Remembered(tok)
  /\ fed' = Fed(tok)
  /\ UNCHANGED <<source, loaded, backend, call>>

IsLastLate == Len(out) = call.gen
IsLast == Len(out) = call.gen - 1

\* A token of ct_engine_generate_stream; its callback is told IsLast.
StreamToken(tok) ==
  /\ call.stage = "tokens" /\ call.op = "stream" /\ Len(out) < call.gen
  /\ out' = Append(out, tok)
  /\ kv' = Remembered(tok)
  /\ fed' = Fed(tok)
  /\ UNCHANGED <<source, loaded, backend, call>>

\* The callback ends the generation: the token reaches neither buffer nor backend;
\* the placeholder has remembered it already.
StreamTokenEnds(tok) ==
  /\ call.stage = "tokens" /\ call.op = "stream" /\ Len(out) < call.gen
  /\ kv' = IF backend = "none" THEN Remembered(tok) ELSE kv
  /\ EndCall
  /\ UNCHANGED <<source, loaded, backend>>

\* All tokens are generated.
Return ==
  /\ call.stage = "tokens" /\ Len(out) = call.gen
  /\ EndCall
  /\ UNCHANGED <<source, loaded, backend, kv>>
-----------------------------------------------------------------------------
KvReset ==
  /\ Idle
  /\ kv' = <<>>
  /\ UNCHANGED <<source, loaded, backend, call, fed, out>>

\* ct_engine_kv_load takes what the file holds, up to kv_cap: what ct_engine_kv_save
\* wrote some time, or a part of it.
KvLoad ==
  /\ Idle
  /\ \E n \in 0 .. KvCap : kv' \in [1 .. n -> TokenIds]
  /\ UNCHANGED <<source, loaded, backend, call, fed, out>>

EngineNext ==
  \/ Load \/ LoadFails \/ Unload
  \/ \E op \in {"sync", "stream"}, p \in Prompts, max \in MaxTokens : Begin(op, p, max)
  \/ Prefill \/ PrefillOverruns
  \/ Announce \/ AnnounceEnds
  \/ \E tok \in TokenIds : SyncToken(tok) \/ StreamToken(tok) \/ StreamTokenEnds(tok)
  \/ Return
  \/ KvReset \/ KvLoad

EngineSpec == EngineInit /\ [][EngineNext]_engineVars
-----------------------------------------------------------------------------
(* Properties.                                                             *)

\* While tokens are generated, the buffer, what was generated and what the
\* backend was given agree, position by position: prompt first, each token once,
\* none at a position twice.  A prompt longer than the context is excepted.
ContextMatchesCache ==
  /\ call.stage = "tokens"
  /\ backend # "none"
  /\ Len(call.prompt) <= KvCap
  => /\ kv = call.prompt \o out
     /\ fed = [i \in DOMAIN kv |-> [token |-> kv[i], pos |-> i - 1]]

\* No token is written past kv_tokens (a prompt that overruns it excepted): the
\* room computed after the prefill is still there for each token to come,
\* which is why the loops of ct_engine_generate can do without looking.
RoomIsLeft ==
  /\ Len(kv) <= KvCap
  /\ call.stage = "tokens" => Len(kv) + (call.gen - Len(out)) <= KvCap
=============================================================================
