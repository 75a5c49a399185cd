----------------------------- MODULE MCLockFile -----------------------------
(* Model-checking instance of LockFile: processes are interchangeable. *)
EXTENDS LockFile, TLC

Perms == Permutations(Proc)
=============================================================================
