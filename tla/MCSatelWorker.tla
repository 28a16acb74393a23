---------------------------- MODULE MCSatelWorker ----------------------------
(* SatelWorker for TLC.  Clients differ only by name, so that states which  *)
(* differ by a permutation of them are one; liveness is checked without.    *)
EXTENDS SatelWorker, TLC

ClientSymmetry == Permutations(Clients)
=============================================================================
