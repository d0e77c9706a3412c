-------------------------------- MODULE MCTask --------------------------------
(* The threads are interchangeable, but the runs check liveness, for which a *)
(* symmetry reduction is not sound.                                          *)
EXTENDS Task
=============================================================================
