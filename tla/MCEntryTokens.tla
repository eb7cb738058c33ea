---------------------------- MODULE MCEntryTokens ----------------------------
(* Small instances of EntryTokens for TLC.                                   *)
EXTENDS EntryTokens, TLC

OneMerchantEach == [b \in Tables |-> CHOOSE m \in Merchants : m = b]

Symmetry == Permutations(Threads) \cup Permutations(Tokens)
=============================================================================
