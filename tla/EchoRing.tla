------------------------------ MODULE EchoRing ------------------------------
(***************************************************************************)
(* The echo canceller's cancel(mic, reference, out) of                     *)
(* webrtc-audio-processing (index.js, instantiate's create): chunks of any *)
(* length are cut into frames, the reference waits in a ring, and each     *)
(* full frame is processed by the wasm, whose output is handed out while   *)
(* the next frame fills.                                                   *)
(*                                                                         *)
(* Samples are numbered as they arrive, 0 is silence.  What wap_process    *)
(* does (wap.cc and the library below it) is external: the output of a     *)
(* sample is the pair of the mic's and the reference's that went in, it    *)
(* may fail and leave the output as it was, and it may grow the memory,    *)
(* which makes the views of it useless.                                    *)
(***************************************************************************)
EXTENDS Integers, Sequences

CONSTANTS Frame,    \* frame: the samples of 10 ms
          Cap,      \* refCap: those of a second and a frame
          Lengths,  \* pairs of the lengths of mic and reference in a call
          Longest,  \* no call's reference is longer
          MaxCalls, \* bound on the calls
          MaxFails  \* bound on the failures of wap_process

ASSUME RingAssumption ==
  /\ Frame \in Nat \ {0} /\ Cap \in Nat /\ Cap >= Frame
  /\ Longest \in Nat /\ Lengths \subseteq Nat \X (0..Longest) /\ MaxCalls \in Nat /\ MaxFails \in Nat

VARIABLES
  refRing, refStart, refSize, refDropped, refShort,
  fill, failed,
  mic, ref, out, \* a frame each, in the wasm's memory
  fresh,         \* the views are of the memory there is
  at,            \* where cancel is: "out", "loop" or "process"
  call,          \* the lengths of its arrays, and whether out is mic's
  micIn, j,
  calls,
  even,          \* every call had as much reference as mic
  pushed, taken, \* how many references have come, and gone to a frame
  heard          \* the output of all calls
ring == <<refRing, refStart, refSize, refDropped>>
frames == <<mic, ref, out>>
history == <<calls, even, pushed, taken, heard>>
cancel == <<at, call, micIn, j>>
vars == <<ring, refShort, fill, failed, frames, fresh, cancel, history>>

Silence == [mic |-> 0, ref |-> 0]
Slots == 0..(Frame - 1)
NoCall == [n |-> 0, refs |-> 0, same |-> FALSE]
\* The smaller of two numbers.
Least(a, b) == IF a < b THEN a ELSE b

Init ==
  /\ refRing = [i \in 0..(Cap - 1) |-> 0]
  /\ refStart = 0 /\ refSize = 0 /\ refDropped = 0 /\ refShort = 0
  /\ fill = 0 /\ failed = 0
  /\ mic = [i \in Slots |-> 0] /\ ref = [i \in Slots |-> 0] /\ out = [i \in Slots |-> Silence]
  /\ fresh = FALSE
  /\ at = "out" /\ call = NoCall /\ micIn = <<>> /\ j = 0
  /\ calls = 0 /\ even = TRUE /\ pushed = 0 /\ taken = 0 /\ heard = <<>>

-----------------------------------------------------------------------------
(* The ring *)

\* An index of the ring.
At(k) == k % Cap

\* pushRef: of more than fit only the last are kept, and the oldest in the
\* ring make room for them.  (Mutants: they do not; the first are kept.)
Cut(n) == IF n > Cap THEN n - Cap ELSE 0
OverNone(n) == 0
KeptFirst(n) == 0
KeptFrom(n) == Cut(n)
Over(n) == IF refSize + n - Cut(n) > Cap THEN refSize + n - Cut(n) - Cap ELSE 0
\* The next n references.
PushRef(n) ==
  LET end == At(refStart + refSize) \* what is over moves both ends
      kept == n - Cut(n)
      Nth(k) == At(k - end + Cap)   \* of those kept, the one that goes to k
  IN /\ refRing' = [k \in 0..(Cap - 1) |->
                      IF Nth(k) < kept THEN pushed + KeptFrom(n) + Nth(k) + 1 ELSE refRing[k]]
     /\ refStart' = At(refStart + Over(n))
     /\ refSize' = refSize - Over(n) + kept
     /\ refDropped' = refDropped + Cut(n) + Over(n)
     /\ pushed' = pushed + n

\* takeRef: the oldest, and silence for what is missing.
TakeRef ==
  LET n == Least(Frame, refSize)
  IN /\ ref' = [i \in Slots |-> IF i < n THEN refRing[At(refStart + i)] ELSE 0]
     /\ refStart' = At(refStart + n)
     /\ refSize' = refSize - n
     /\ refShort' = refShort + (Frame - n)
     /\ taken' = taken + n
     /\ UNCHANGED <<refRing, refDropped, pushed>>

-----------------------------------------------------------------------------
(* cancel *)

\* views(): of the memory there is.  (Mutant: not once it has grown.)
ViewsOnce(grown) == ~grown
Views(grown) == TRUE
\* Another canceller of the same instance may make the memory grow.
Grow ==
  /\ at = "out" /\ fresh /\ fresh' = FALSE
  /\ UNCHANGED <<ring, refShort, fill, failed, frames, cancel, history>>

\* The output array may be the mic's.
Cancel(n, refs, same) ==
  /\ at = "out" /\ calls < MaxCalls
  /\ at' = "loop" /\ call' = [n |-> n, refs |-> refs, same |-> same]
  /\ micIn' = [i \in 1..n |-> Len(heard) + i] /\ j' = 0
  /\ calls' = calls + 1 /\ even' = (even /\ n = refs)
  /\ fresh' = Views(FALSE)
  /\ UNCHANGED <<ring, refShort, fill, failed, frames, pushed, taken, heard>>

\* The samples of this turn of the loop, and the references that come with
\* them.  (Mutant: all of them in the first.)
Turn == Least(Frame - fill, call.n - j)
RefsAtOnce == IF j = 0 THEN call.refs ELSE 0
Refs == IF j < call.refs THEN Least(j + Turn, call.refs) - j ELSE 0
\* Those with no mic to come with, after the loop.
RefsLeft == IF call.n < call.refs THEN call.refs - call.n ELSE 0

Chunk == [i \in 1..Turn |-> out[fill + i - 1]]
\* The mic's array once the result is written, if that is the same.
MicWritten == IF call.same THEN [i \in DOMAIN micIn |-> IF i - j \in 1..Turn THEN -1 ELSE micIn[i]]
              ELSE micIn
\* (Mutant: read after the result is written.)
MicAfter == MicWritten
MicBefore == micIn
Copy ==
  /\ at = "loop" /\ j < call.n
  /\ PushRef(Refs)
  /\ mic' = [i \in Slots |-> IF i - fill \in 0..(Turn - 1) THEN MicBefore[j + i - fill + 1]
                             ELSE mic[i]]
  /\ heard' = heard \o Chunk
  /\ fill' = fill + Turn
  /\ j' = j + Turn /\ micIn' = MicWritten
  /\ at' = IF fill' = Frame THEN "process" ELSE "loop"
  /\ UNCHANGED <<call, refShort, failed, ref, out, fresh, calls, even, taken>>
Process ==
  /\ at = "process"
  /\ TakeRef
  /\ \/ /\ out' = [i \in Slots |-> [mic |-> mic[i], ref |-> ref'[i]]]
        /\ UNCHANGED failed
     \/ failed < MaxFails /\ failed' = failed + 1 /\ UNCHANGED out
  /\ \E grown \in BOOLEAN : fresh' = Views(grown)
  /\ fill' = 0 /\ at' = "loop"
  /\ UNCHANGED <<call, micIn, j, mic, calls, even, heard>>
Finish ==
  /\ at = "loop" /\ j = call.n
  /\ PushRef(RefsLeft)
  /\ at' = "out" /\ call' = NoCall /\ micIn' = <<>> /\ j' = 0
  /\ UNCHANGED <<refShort, fill, failed, frames, fresh, calls, even, taken, heard>>

Next ==
  \/ Grow \/ Copy \/ Process \/ Finish
  \/ \E l \in Lengths, same \in BOOLEAN : Cancel(l[1], l[2], same)
Spec == Init /\ [][Next]_vars

-----------------------------------------------------------------------------
\* Every reference that came was taken, counts as dropped (stats()'s
\* referenceDropped, index.js:195), or is in the ring, which holds the last
\* that came, in order, wherever it starts (index.js:125-163).
RingWindow ==
  /\ refSize \in 0..Cap
  /\ pushed = refDropped + taken + refSize
  /\ \A i \in 0..(refSize - 1) : refRing[At(refStart + i)] = pushed - refSize + i + 1

\* The ring is a queue that drops the oldest when more than a second waits
\* (index.js:125-163).
Waiting == [i \in 1..refSize |-> refRing[At(refStart + (i - 1))]]
RefFrame == [i \in 1..Frame |-> ref[i - 1]]
Queue == INSTANCE EchoQueue WITH
  MaxPush <- Longest, queue <- Waiting, came <- pushed, dropped <- refDropped,
  short <- refShort, frame <- RefFrame
ImplementsQueue == Queue!Spec

\* Whatever the lengths of the chunks, also when the output array is the
\* mic's: what comes out is the mic a frame earlier, no sample twice or lost
\* (index.js:184-201).  The views are never of memory that is gone.
Delayed ==
  /\ at = "loop" => fresh
  /\ failed = 0 => \A k \in DOMAIN heard : heard[k].mic = IF k > Frame THEN k - Frame ELSE 0

\* While every call brings as much reference as mic, however much, none is
\* dropped or missing, and each sample is cancelled with the reference that
\* came with it.
LockStep ==
  even /\ failed = 0 => /\ refDropped = 0 /\ refShort = 0
                        /\ \A k \in DOMAIN heard : heard[k].ref = heard[k].mic
=============================================================================
