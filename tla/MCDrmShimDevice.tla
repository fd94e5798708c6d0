--------------------------- MODULE MCDrmShimDevice ---------------------------
(* Small instances of DrmShimDevice for TLC. *)
EXTENDS DrmShimDevice, TLC

(* Threads are interchangeable. *)
Symmetry == Permutations(Threads)
==============================================================================
