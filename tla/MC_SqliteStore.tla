--------------------------- MODULE MC_SqliteStore ---------------------------
(* The SQLite driver on the instance of MC_StoreArgs.                     *)
EXTENDS SqliteStore, MC_StoreArgs
=============================================================================
