----------------------------- MODULE MCEchoRing -----------------------------
(***************************************************************************)
(* EchoRing with frames of three samples and a ring of five: calls shorter *)
(* and longer than a frame, references that fit no more.                   *)
(***************************************************************************)
EXTENDS EchoRing

MCLengths == {<<n, r>> \in (0..7) \X (0..8) :
               \/ n \in {1, 2, 4} /\ r \in {0, 1, 2, 4, 6}
               \/ n = 7 /\ r \in {2, 7, 8}
               \/ n = 0 /\ r \in {3, 8}}
=============================================================================
