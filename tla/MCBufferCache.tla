---------------------------- MODULE MCBufferCache ----------------------------
(* Model-checking instance of BufferCache: the processes are alike. *)
EXTENDS BufferCache, TLC

ProcSymmetry == Permutations(Procs)
=============================================================================
