--------------------------------- MODULE MCAwm ---------------------------------
(* Bounds for Awm: two regions of one or two sizes; a budget that holds one   *)
(* of them in FP16, and one that holds neither; a word that both regions and  *)
(* everything lost fit into, so that only an underflow wraps.                 *)
EXTENDS Awm

MCSizes == {32, 64}
MCBudgets == {12, 36}
=============================================================================
