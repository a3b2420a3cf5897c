--------------------------- MODULE MCJobExchange ---------------------------
(* Small instances of JobExchange for TLC. *)
EXTENDS JobExchange, TLC

Interchangeable == Permutations(RequestIds) \cup Permutations(Provisions)
=============================================================================
