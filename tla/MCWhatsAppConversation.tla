------------------------ MODULE MCWhatsAppConversation ------------------------
(* Small instances of WhatsAppConversation for TLC.                          *)
EXTENDS WhatsAppConversation, TLC

AllInOneSection == [i \in Items |-> CHOOSE s \in Sections : TRUE]

Symmetry ==
  Permutations(Confirmations) \cup Permutations(Threads) \cup Permutations(Methods)
=============================================================================
