--------------------------- MODULE MCDSoundStream ---------------------------
(* Two guest threads, a buffer of two units that wraps at the second packet,
   callbacks that call back once. *)
EXTENDS DSoundStream, TLC

MCSizes == {1, 2}
Symmetry == Permutations(Threads)
=============================================================================
