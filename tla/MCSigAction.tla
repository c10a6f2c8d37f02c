----------------------------- MODULE MCSigAction -----------------------------
(***************************************************************************)
(* SigAction with two signals, one ignored and one fatal by default.       *)
(***************************************************************************)
EXTENDS SigAction

CONSTANTS t1, t2, chld, usr1

TwoThreads == {t1, t2}
BothSigs == {chld, usr1}
OnlyChld == {chld}

Plain(h) == [h |-> h, reset |-> FALSE, nodefer |-> FALSE, mask |-> {}]
\* The two ways to set a signal without a handler, a one-shot handler that
\* defers nothing, and one that blocks the other signal too.
ActsUsed == {Plain("dfl"), Plain("ign"),
             [Plain("fn") EXCEPT !.reset = TRUE, !.nodefer = TRUE],
             [Plain("fn") EXCEPT !.mask = {usr1}]}
MasksUsed == {{}, {usr1}}
=============================================================================
