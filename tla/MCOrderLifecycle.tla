--------------------------- MODULE MCOrderLifecycle ---------------------------
(* Small instances of OrderLifecycle for TLC.                                *)
EXTENDS OrderLifecycle, TLC

Symmetry ==
  Permutations(Orders) \cup Permutations(Whats) \cup Permutations(Threads)
    \cup Permutations(ClientRefs)
=============================================================================
