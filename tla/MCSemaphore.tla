------------------------------ MODULE MCSemaphore ------------------------------
(* Semaphore for a few tasks. *)
EXTENDS Semaphore, TLC

Symmetry == Permutations(Tasks)
=============================================================================
