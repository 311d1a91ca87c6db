------------------------------ MODULE MCMemory ------------------------------
(* Instances of Memory for TLC: importances are counted in 320ths, so that  *)
(* the floor of 0.1 is 32, the 0.4 of an incomplete run 128 and the 0.45 of *)
(* a confident one 144.                                                     *)
EXTENDS Memory
=============================================================================
