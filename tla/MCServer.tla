-------------------------------- MODULE MCServer --------------------------------
(* Bounds for Server and Engine: two clients, two tokens, a context of two, and *)
(* prompts that leave room, fill it and exceed it.                              *)
EXTENDS Server

CONSTANTS x, y, c1, c2

MCTokens == {x, y}
MCPrompts == {<<x>>, <<x, y>>, <<x, y, x>>}
MCMax == {0, 1, 2}
=============================================================================
