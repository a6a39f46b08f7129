------------------------------- MODULE MCStreamer -------------------------------
(* Bounds for Streamer: three entries, two plain names and one that is cut     *)
(* short; a budget for three bytes; a clock of three readings; a word that     *)
(* holds what three entries can have.                                          *)
EXTENDS Streamer

CONSTANTS a, b, long, cut

MCNames == {a, b, long}
MCTrunc == [n \in MCNames |-> IF n = long THEN cut ELSE n]
MCSizes == {1, 2}
=============================================================================
