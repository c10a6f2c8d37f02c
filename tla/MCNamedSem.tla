----------------------------- MODULE MCNamedSem -----------------------------
(***************************************************************************)
(* NamedSem with four uses at a time, two names and two handles to reuse.  *)
(***************************************************************************)
EXTENDS NamedSem, TLC

CONSTANTS u1, u2, u3, u4, n1, n2, h1, h2, p1, p2, p3

MCUses == {u1, u2, u3, u4}
MCNames == {n1, n2}
MCHandles == {h1, h2}
MCPtrs == {p1, p2, p3}
Symmetry == Permutations(MCUses) \cup Permutations(MCHandles) \cup Permutations(MCPtrs)
            \cup Permutations(MCNames)
=============================================================================
