---------------------------- MODULE MCDualReader ----------------------------
(* Instance of DualReader for TLC: two configured tables, the first listed  *)
(* twice, the other not on the whitelist; two domains, one of them on it.    *)
EXTENDS DualReader

MCTables == <<"assets", "users", "assets">>
MCCompareTables == {"assets"}
MCDomains == {"migrated", "waiting"}
MCCompareDomains == {"migrated"}
=============================================================================
