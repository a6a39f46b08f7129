------------------------------ MODULE MCBackends ------------------------------
(* Bounds for Backends. Two layers and two tokens for both. The transformer's *)
(* processes have room for one and for three tokens and find each other's     *)
(* files; the DeepSeek context has room for two, is fed up to four tokens     *)
(* between two resets, and two of the reads in between fail.                  *)
EXTENDS Backends, TLC

MCContexts == {1, 3}
MCRatios == {2}
MCCuts == {0, 7}
Exchange == Permutations(Tokens)
===============================================================================
