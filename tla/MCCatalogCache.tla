--------------------------- MODULE MCCatalogCache ---------------------------
(* Model values for the TLC run of CatalogCache.                           *)
EXTENDS CatalogCache

CONSTANTS l1
=============================================================================
