------------------------------ MODULE MCClient ------------------------------
(***************************************************************************)
(* Two clients that may share one of the merchant's httpx clients, and     *)
(* two keys (two gateway accounts).                                        *)
(***************************************************************************)
EXTENDS Client

CONSTANTS c1, c2, http, k1, k2

MCClients == {c1, c2}
MCHttps == {http}
MCSecurityKeys == {k1, k2}
=============================================================================
