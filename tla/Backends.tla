------------------------------- MODULE Backends -------------------------------
(* What is behind an engine: the DeepSeek context or the reference            *)
(* transformer with its KV cache, one for the life of a load                  *)
(* (src/src/engine/engine.c). The one that is not there rests.                *)
EXTENDS KvCache, Ds4Forward

VARIABLE backend    \* which of the engine's two pointers is set

backendVars == <<backend, kvVars, ds4Vars>>

NoTransformer ==
  /\ max_ctx = Max(Contexts) /\ n_tokens = 0 /\ n_compressed = 0
  /\ k = <<>> /\ v = <<>> /\ file = NoFile
  /\ layer = Layers /\ row = Zero /\ context = <<>> /\ attended = <<>>
  /\ t_x = "zero" /\ t_k = Zero /\ t_v = Zero /\ passes = 0 /\ misses = 0

NoDs4 ==
  /\ fast = FALSE /\ ram = <<>> /\ half = <<>> /\ embd = FALSE /\ ignored = FALSE
  /\ scratch = <<>> /\ kv = <<>> /\ kvLen = 0
  /\ acts = Nothing /\ at = Rest /\ token = Nothing /\ pos = 0
  /\ fed = <<>> /\ failures = 0 /\ rows = <<>> /\ used = {}

\* ct_engine_load: the backend of the architecture when the model is split and
\* its context could be created, the transformer otherwise.
BackendsInit ==
  \/ backend = "arch_ctx" /\ Ds4Create /\ NoTransformer
  \/ backend = "tf" /\ Init /\ NoDs4

BackendsNext ==
  \/ backend = "arch_ctx" /\ Ds4Next /\ UNCHANGED <<backend, kvVars>>
  \/ backend = "tf" /\ Next /\ UNCHANGED <<backend, ds4Vars>>

BackendsSpec == BackendsInit /\ [][BackendsNext]_backendVars

-------------------------------------------------------------------------------
(* Properties: those of the backend that is there. Those of the DeepSeek pass  *)
(* hold of one that rests.                                                    *)

\* The transformer's cache holds its context, and a token attends to it; the
\* DeepSeek context's variables have their types.
BackendInv == IF backend = "tf" THEN KvInv ELSE Ds4TypeOK
===============================================================================
