--------------------------- MODULE MCIndexManager ---------------------------
(* Instance of IndexManager for TLC: three indexes in two keyspaces, so that *)
(* two threads have a full batch and a short one.                            *)
EXTENDS IndexManager

MCIndexes == <<"by_asset", "by_group", "by_user">>
MCKeyspaceOf == [i \in {"by_asset", "by_group", "by_user"} |->
                   IF i = "by_group" THEN "acls" ELSE "files"]
=============================================================================
