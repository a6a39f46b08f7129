------------------------------- MODULE MCLoader -------------------------------
(* Bounds for Loader: one layer of two experts in two parts, the tensors of   *)
(* the layer spread over both.                                                *)
EXTENDS Loader

MCPartTensors == << <<<<0, 1>>, <<0, 2>>>>, <<<<0, 3>>>> >>
===============================================================================
