----------------------------- MODULE MCScheduler -----------------------------
(* Scheduler for TLC: identical job identities may be exchanged. *)
EXTENDS Scheduler, TLC

JobSymmetry == Permutations(Job)
=============================================================================
