------------------------------ MODULE MCLadder ------------------------------
(* Ladder for TLC. *)
EXTENDS Ladder, TLC

Alike == Permutations(PRs) \cup Permutations(Pkgs)
=============================================================================
