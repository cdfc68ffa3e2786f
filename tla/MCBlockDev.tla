----------------------------- MODULE MCBlockDev -----------------------------
(* Model-checking instance of BlockDev: the processes are alike, and the    *)
(* files of the device.                                                     *)
EXTENDS BlockDev, TLC

Symmetry == Permutations(Procs) \union Permutations(Files \ Regular)
=============================================================================
