------------------------- MODULE MCStorageExchange -------------------------
(* Small instances of StorageExchange for TLC. *)
EXTENDS StorageExchange, TLC

Interchangeable == Permutations(Migrations) \cup Permutations(Cleanups) \cup Permutations(Pools)

=============================================================================
