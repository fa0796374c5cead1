--------------------------- MODULE MCCatalogQuery ---------------------------
(***************************************************************************)
(* CatalogQuery for TLC: two overlapping cycles, one connection, and caps  *)
(* below, at and above the size of the table.                              *)
(***************************************************************************)
EXTENDS CatalogQuery

CONSTANTS c1, c2

MCCallers == {c1, c2}
MCRows == 1 .. 2
MCCaps == 0 .. 2

============================================================================
