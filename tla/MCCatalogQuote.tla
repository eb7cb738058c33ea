---------------------------- MODULE MCCatalogQuote ----------------------------
(* Small instances of CatalogQuote for TLC.                                  *)
EXTENDS CatalogQuote, TLC

Symmetry == Permutations(Items) \cup Permutations(Prices)
=============================================================================
