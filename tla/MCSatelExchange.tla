--------------------------- MODULE MCSatelExchange ---------------------------
(* SatelExchange for TLC.  Clients differ only by name, so that states which  *)
(* differ by a permutation of them are one.                                   *)
EXTENDS SatelExchange, TLC

ClientSymmetry == Permutations(Clients)
=============================================================================
