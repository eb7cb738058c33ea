-------------------------- MODULE MCSessionThreads --------------------------
(* Small instances of SessionThreads for TLC.                                *)
EXTENDS SessionThreads, TLC

Symmetry ==
  Permutations(SessionRefs) \cup Permutations(Threads) \cup Permutations(Keys)
=============================================================================
