------------------------- MODULE MCOrderSubmission --------------------------
(* Small instances of OrderSubmission for TLC.                               *)
EXTENDS OrderSubmission, TLC

Symmetry ==
  Permutations(SessionRefs) \cup Permutations(Threads)
    \cup Permutations(Handles) \cup Permutations(Confirmations)
    \cup Permutations(ClientRefs) \cup Permutations(Contents)
=============================================================================
