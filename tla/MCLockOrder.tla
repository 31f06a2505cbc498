---------------------------- MODULE MCLockOrder ----------------------------
(* Finite instances of LockOrder. *)
EXTENDS LockOrder, TLC

MCSymmetry == Permutations(Threads)

=============================================================================
