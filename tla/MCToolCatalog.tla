---------------------------- MODULE MCToolCatalog ----------------------------
(* ToolCatalog on small sets; the names of tools and of runs are alike.         *)
EXTENDS ToolCatalog, TLC

CONSTANTS t1, t2, r1, r2

Alike == Permutations({t1, t2}) \cup Permutations({r1, r2})
=============================================================================
