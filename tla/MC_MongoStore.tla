---------------------------- MODULE MC_MongoStore ----------------------------
(* The MongoDB driver on the instance of MC_StoreArgs.  The run of the    *)
(* unique indexes, which no SetRolePermissions call affects, gives the    *)
(* callers one permission list only.                                      *)
EXTENDS MongoStore, MC_StoreArgs

MCOneList == {<<"p1", "p2">>}
=============================================================================
