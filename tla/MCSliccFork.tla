---------------------------- MODULE MCSliccFork ----------------------------
(* SliccFork for TLC. *)
EXTENDS SliccFork, TLC

CONSTANTS f1, f2, k1, k2, self

TwoForkPids == <<f1, f2>>

\* The kernel's pids, what memory holds and the directories are interchangeable.
Alike == Permutations(KPids) \cup Permutations(Mems) \cup Permutations(Dirs)
=============================================================================
