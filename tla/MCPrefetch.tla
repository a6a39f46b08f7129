----------------------------- MODULE MCPrefetch -----------------------------
(* Bounds for Prefetch.  One layer selects three of three experts over one   *)
(* cache slot: an expert cached when the layer begins is evicted by the one  *)
(* before it, so both threads come to read the same file.  Two of the        *)
(* experts share a file, the third lies in the other one.                    *)
EXTENDS Prefetch

CONSTANTS e1, e2, e3

MCExperts == {e1, e2, e3}
MCQ1Experts == {e3}
MCBoards == {[seen |-> MCExperts, hot |-> {e1}]}
MCLayerOf == [e \in MCExperts |-> 0]
MCExpert0 == [l \in {0} |-> e1]
=============================================================================
