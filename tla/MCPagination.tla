---------------------------- MODULE MCPagination ----------------------------
(***************************************************************************)
(* Two consumers, pages of two records and up to five records: zero to two *)
(* full pages, a last page that is empty, half full, or filled up while    *)
(* the iteration is under way.                                             *)
(***************************************************************************)
EXTENDS Pagination

CONSTANTS c1, c2

MCConsumers == {c1, c2}
=============================================================================
