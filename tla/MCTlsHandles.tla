---------------------------- MODULE MCTlsHandles ----------------------------
(* TlsHandles on two leaves, one trust store and two sessions.             *)
EXTENDS TlsHandles, TLC

CONSTANTS l1, l2, c1, s1, s2

MCLeaves   == {l1, l2}
MCStores   == {c1}
MCSessions == {s1, s2}

\* Addresses are interchangeable.
Symmetry == Permutations(MCLeaves) \cup Permutations(MCSessions)
=============================================================================
