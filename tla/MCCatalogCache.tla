--------------------------- MODULE MCCatalogCache ---------------------------
(* Instances of CatalogCache for TLC.                                      *)
EXTENDS CatalogCache

CONSTANTS c1, c2, tokenList, ranks
=============================================================================
