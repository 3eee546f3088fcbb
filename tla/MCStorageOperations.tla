------------------------- MODULE MCStorageOperations -------------------------
(***************************************************************************)
(* Instance of StorageOperations: two seconds, so that a segment can be    *)
(* sealed while a later one is written, and two tables.                    *)
(***************************************************************************)
EXTENDS StorageOperations

MCSegments == 1..2
MCTables == 1..2
=============================================================================
