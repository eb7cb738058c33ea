-------------------------- MODULE MCIdentityConsent --------------------------
(* Small instances of IdentityConsent for TLC.                               *)
EXTENDS IdentityConsent, TLC

Symmetry ==
  Permutations(Subjects) \cup Permutations(Attestations)
    \cup Permutations(Verifications) \cup Permutations(Parties)
    \cup Permutations(Keys) \cup Permutations(Threads)
=============================================================================
