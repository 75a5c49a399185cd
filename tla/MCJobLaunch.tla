---------------------------- MODULE MCJobLaunch -----------------------------
(* Model-checking instance of JobLaunch: launches are interchangeable. *)
EXTENDS JobLaunch, TLC

Perms == Permutations(Job)
=============================================================================
