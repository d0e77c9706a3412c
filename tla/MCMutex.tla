-------------------------------- MODULE MCMutex --------------------------------
(* Mutex for a few tasks. *)
EXTENDS Mutex, TLC

Symmetry == Permutations(Waiters)
=============================================================================
