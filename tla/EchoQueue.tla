------------------------------ MODULE EchoQueue ------------------------------
(***************************************************************************)
(* What the echo canceller's reference queue promises: it is first in,     *)
(* first out, gives up the oldest when more than Cap wait, and nothing     *)
(* else, and a frame that finds too few gets silence for the rest          *)
(* (webrtc-audio-processing/package/README.md:70-73).                      *)
(***************************************************************************)
EXTENDS Naturals, Sequences

CONSTANTS Frame, Cap, MaxPush

VARIABLES queue, came, dropped, short, frame

Init ==
  /\ queue = <<>> /\ came = 0 /\ dropped = 0 /\ short = 0
  /\ frame = [i \in 1..Frame |-> 0]

Push(n) ==
  LET all == queue \o [i \in 1..n |-> came + i]
      over == IF Len(all) > Cap THEN Len(all) - Cap ELSE 0
  IN /\ queue' = SubSeq(all, over + 1, Len(all))
     /\ dropped' = dropped + over
     /\ came' = came + n
     /\ UNCHANGED <<short, frame>>

Take ==
  LET rest == SubSeq(queue, Frame + 1, Len(queue))
  IN /\ frame' = [i \in 1..Frame |-> IF i <= Len(queue) THEN queue[i] ELSE 0]
     /\ queue' = rest
     /\ short' = short + Frame - (Len(queue) - Len(rest))
     /\ UNCHANGED <<came, dropped>>

Spec == Init /\ [][Take \/ \E n \in 0..MaxPush : Push(n)]_<<queue, came, dropped, short, frame>>
=============================================================================
