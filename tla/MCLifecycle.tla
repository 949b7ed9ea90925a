---------------------------- MODULE MCLifecycle ----------------------------
(***************************************************************************)
(* Instances of Lifecycle for TLC: documented use, and use of the service  *)
(* beside a manual run.  Neither the processes started by hand nor the     *)
(* inodes are told apart, and only safety is checked.                      *)
(***************************************************************************)
EXTENDS Lifecycle, TLC

Alike == Permutations(Users) \cup Permutations(Inodes)
=============================================================================
