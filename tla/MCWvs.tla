--------------------------------- MODULE MCWvs ---------------------------------
(* Bounds for Wvs: three slots, two hotness classes, two plain keys that      *)
(* collide and wrap around the end of the table, and a long name that is cut  *)
(* down to a key of another hash.                                             *)
EXTENDS Wvs

CONSTANTS a, b, long, cut

MCNames == {a, b, long, cut}
MCTrunc == [n \in MCNames |-> IF n = long THEN cut ELSE n]
MCHash == [n \in MCNames |-> IF n = long THEN 0 ELSE IF n = cut THEN 1 ELSE 2]
=============================================================================
