------------------------- MODULE MCCommandExchange -------------------------
(* Small instances of CommandExchange for TLC. *)
EXTENDS CommandExchange, TLC

CONSTANT k1

\* Every instance under one contract.
OneContract == [i \in Instances |-> k1]

Interchangeable == Permutations(RequestIds)
=============================================================================
