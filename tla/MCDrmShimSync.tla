---------------------------- MODULE MCDrmShimSync ----------------------------
(* The instance of DrmShimSync that TLC checks. *)
EXTENDS DrmShimSync, TLC

(* Threads and channels are told apart by nothing but their names. *)
Symmetry == Permutations(Threads) \cup Permutations(Chans)
==============================================================================
