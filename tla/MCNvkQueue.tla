------------------------------ MODULE MCNvkQueue ------------------------------
(* NvkQueue on one table: the code treats the three alike.                 *)
EXTENDS NvkQueue, TLC

OneTable == <<"images">>
Symmetry == Permutations(Mems)
==============================================================================
