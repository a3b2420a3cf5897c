------------------------- MODULE MCInstanceRuntime -------------------------
(* Small instances of InstanceRuntime for TLC. *)
EXTENDS InstanceRuntime, TLC

\* The storage pools are interchangeable.
Interchangeable == Permutations(Pools)
=============================================================================
