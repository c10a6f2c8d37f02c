------------------------------ MODULE MCHfFetch ------------------------------
(***************************************************************************)
(* HfFetch with files of a few blocks and a sync every two.                *)
(***************************************************************************)
EXTENDS HfFetch, TLC

CONSTANTS c1, c2

TwoCommits == {c1, c2}
SizesDiffer == (c1 :> 3) @@ (c2 :> 2)
=============================================================================
