--------------------------- MODULE EchoRingProofs ---------------------------
(***************************************************************************)
(* For every frame, ring and chunk length: the ring of EchoRing holds the  *)
(* last references that came, in order, and none is unaccounted for; and   *)
(* what waits in it is the queue of EchoQueue, every step a Push, a Take   *)
(* or nothing to it; a sample comes out a frame after it went in, and in   *)
(* lock step it is cancelled with the reference that came with it.         *)
(***************************************************************************)
EXTENDS EchoRing, TLAPS

\* The remainders that occur, of what is less than twice Cap.
LEMMA AtOnce ==
  ASSUME NEW a \in 0..(2 * Cap - 1)
  PROVE  At(a) = IF a < Cap THEN a ELSE a - Cap
<1> USE DEF At
<1>1. Cap \in Nat \ {0}  BY RingAssumption
<1>2. CASE a < Cap  BY <1>1, <1>2, SMT
<1>3. CASE a >= Cap
  <2>1. a % Cap = a - Cap  BY <1>1, <1>3, SMT
  <2> QED  BY <2>1, <1>3, <1>1, SMT
<1> QED  BY <1>1, <1>2, <1>3, SMT

-----------------------------------------------------------------------------
\* The inductive invariant: RingWindow, and the ranges of what moves the ring.
Ranges ==
  /\ refStart \in 0..(Cap - 1)
  /\ refDropped \in Nat /\ pushed \in Nat /\ taken \in Nat /\ refShort \in Nat
  /\ fill \in 0..Frame /\ j \in Nat
  /\ call \in [n : Nat, refs : 0..Longest, same : BOOLEAN] /\ j <= call.n
IInv == Ranges /\ RingWindow

\* pushRef keeps the window: what it drops is the oldest (Over), what it cuts
\* off never came in (Cut), and what it writes is what is not kept of the old.
LEMMA PushKeeps ==
  ASSUME IInv, NEW n \in Nat, PushRef(n), UNCHANGED taken
  PROVE  /\ refStart' \in 0..(Cap - 1) /\ refDropped' \in Nat /\ pushed' \in Nat
         /\ RingWindow'
<1> DEFINE kept == n - Cut(n)
           end == At(refStart + refSize)
           Nth(k) == At(k - end + Cap)
           over == Over(n)
           old == refSize - over
           start == At(refStart + over)
           size == old + kept
<1>1. Cap \in Nat \ {0}  BY RingAssumption
<1>2. /\ refSize \in Nat /\ refSize <= Cap
      /\ refStart \in Nat /\ refStart < Cap
      /\ refDropped \in Nat /\ pushed \in Nat /\ taken \in Nat
      /\ pushed = refDropped + taken + refSize
  BY <1>1 DEF IInv, Ranges, RingWindow
<1>3. /\ kept \in Nat /\ kept <= Cap /\ Cut(n) \in Nat
      /\ Cut(n) > 0 => kept = Cap
  BY <1>1 DEF Cut
<1>4. /\ over \in Nat /\ old \in Nat
      /\ size \in Nat /\ size <= Cap
      /\ over > 0 => size = Cap
  BY <1>1, <1>2, <1>3 DEF Over
<1>5. /\ refStart' = start
      /\ refSize' = size
      /\ refDropped' = refDropped + Cut(n) + over
      /\ pushed' = pushed + n
  BY DEF PushRef
<1>6. refRing' = [k \in 0..(Cap - 1) |->
                    IF Nth(k) < kept THEN pushed + Cut(n) + Nth(k) + 1 ELSE refRing[k]]
  BY DEF PushRef, KeptFrom
<1>7. n = kept + Cut(n)  BY <1>3
<1>8. refSize = old + over  BY <1>2, <1>4
<1> HIDE DEF kept, over
<1>9. size = old + kept  OBVIOUS
<1> HIDE DEF old, size
<1>10. start = IF refStart + over < Cap THEN refStart + over ELSE refStart + over - Cap
  <2>1. refStart + over \in 0..(2 * Cap - 1)  BY <1>1, <1>2, <1>4, <1>8
  <2> QED  BY <2>1, <1>1, <1>2, <1>4, AtOnce
<1>11. end = IF refStart + refSize < Cap THEN refStart + refSize ELSE refStart + refSize - Cap
  <2>1. refStart + refSize \in 0..(2 * Cap - 1)  BY <1>1, <1>2
  <2> QED  BY <2>1, <1>1, <1>2, AtOnce
<1> HIDE DEF start, end
<1>12. start \in Nat /\ start < Cap /\ end \in Nat /\ end < Cap
  BY <1>1, <1>2, <1>4, <1>8, <1>10, <1>11
<1>13. ASSUME NEW i \in Nat, i < size
       PROVE  refRing'[At(start + i)] = pushed + n - size + i + 1
  <2> DEFINE k == At(start + i)
  <2>1. k = IF start + i < Cap THEN start + i ELSE start + i - Cap
    <3>1. start + i \in 0..(2 * Cap - 1)  BY <1>1, <1>4, <1>12, <1>13
    <3> QED  BY <3>1, <1>1, <1>12, AtOnce
  <2> HIDE DEF k
  <2>2. k \in 0..(Cap - 1)  BY <2>1, <1>1, <1>4, <1>12, <1>13
  <2>3. Nth(k) = IF k - end + Cap < Cap THEN k - end + Cap ELSE k - end
    <3>1. k - end + Cap \in 0..(2 * Cap - 1)  BY <1>1, <1>12, <2>2
    <3> QED  BY <3>1, AtOnce, <1>1, <1>12, <2>2
  <2>4. refRing'[k] = IF Nth(k) < kept THEN pushed + Cut(n) + Nth(k) + 1 ELSE refRing[k]
    BY <1>6, <2>2
  <2> HIDE DEF Nth
  <2>5. CASE i >= old
    <3>1. Nth(k) = i - old
      BY <1>1, <1>2, <1>3, <1>4, <1>8, <1>9, <1>10, <1>11, <1>12, <1>13, <2>1, <2>3, <2>5
    <3>2. i - old < kept  BY <1>3, <1>4, <1>9, <1>13
    <3>3. refRing'[k] = pushed + Cut(n) + (i - old) + 1  BY <3>1, <3>2, <2>4
    <3> QED  BY <3>3, <1>2, <1>3, <1>4, <1>7, <1>9 DEF k
  <2>6. CASE i < old
    <3>1. Nth(k) = i - old + Cap
      BY <1>1, <1>2, <1>3, <1>4, <1>8, <1>9, <1>10, <1>11, <1>12, <1>13, <2>1, <2>3, <2>6
    <3>2. ~(Nth(k) < kept)  BY <3>1, <1>1, <1>3, <1>4, <1>9
    <3>3. refRing'[k] = refRing[k]  BY <2>4, <3>2
    <3>4. k = At(refStart + (over + i))
      <4>1. refStart + (over + i) \in 0..(2 * Cap - 1)
        BY <1>1, <1>2, <1>4, <1>8, <2>6
      <4> QED  BY <4>1, AtOnce, <1>1, <1>2, <1>4, <1>8, <1>10, <1>12, <2>1, <2>6
    <3>5. over + i \in 0..(refSize - 1)  BY <1>2, <1>4, <1>8, <2>6
    <3>6. refRing[At(refStart + (over + i))] = pushed - refSize + (over + i) + 1
      BY <3>5 DEF IInv, RingWindow
    <3>7. Cut(n) = 0  BY <1>1, <1>3, <1>4, <1>9, <2>6
    <3>8. refRing'[k] = pushed - refSize + (over + i) + 1  BY <3>3, <3>4, <3>6
    <3> QED  BY <3>7, <3>8, <1>2, <1>3, <1>4, <1>7, <1>8, <1>9 DEF k
  <2> QED  BY <2>5, <2>6, <1>4
<1>14. refDropped' \in Nat /\ pushed' \in Nat  BY <1>2, <1>3, <1>4, <1>5
<1>15. pushed' = refDropped' + taken' + refSize'
  <2>1. pushed + n = (refDropped + Cut(n) + over) + taken + size
    BY <1>2, <1>3, <1>4, <1>7, <1>8, <1>9
  <2> QED  BY <2>1, <1>5
<1>16. refStart' \in 0..(Cap - 1) /\ refSize' \in 0..Cap
  BY <1>1, <1>4, <1>5, <1>12
<1>17. ASSUME NEW i \in 0..(refSize' - 1)
       PROVE  refRing'[At(refStart' + i)] = pushed' - refSize' + i + 1
  <2>1. i \in Nat /\ i < size  BY <1>4, <1>5
  <2>2. refRing'[At(start + i)] = pushed + n - size + i + 1  BY <2>1, <1>13
  <2>3. refRing'[At(refStart' + i)] = refRing'[At(start + i)]  BY <1>5
  <2>4. pushed' - refSize' + i + 1 = pushed + n - size + i + 1
    BY <1>2, <1>4, <1>5, <2>1
  <2> QED  BY <2>2, <2>3, <2>4
<1> QED  BY <1>14, <1>15, <1>16, <1>17 DEF RingWindow

\* takeRef keeps it: it takes the oldest.
LEMMA TakeKeeps ==
  ASSUME IInv, TakeRef
  PROVE  /\ refStart' \in 0..(Cap - 1) /\ refDropped' \in Nat
         /\ pushed' \in Nat /\ taken' \in Nat /\ refShort' \in Nat
         /\ RingWindow'
<1> DEFINE n == Least(Frame, refSize)
<1>1. Cap \in Nat \ {0} /\ Frame \in Nat \ {0} /\ Cap >= Frame  BY RingAssumption
<1>2. /\ refSize \in 0..Cap /\ refStart \in 0..(Cap - 1)
      /\ refDropped \in Nat /\ pushed \in Nat /\ taken \in Nat
      /\ pushed = refDropped + taken + refSize
  BY DEF IInv, Ranges, RingWindow
<1>3. n \in 0..refSize  BY <1>1, <1>2 DEF Least
<1>4. /\ refStart' = At(refStart + n) /\ refSize' = refSize - n /\ taken' = taken + n
      /\ UNCHANGED <<refRing, refDropped, pushed>>
  BY DEF TakeRef
<1>5. refStart' = IF refStart + n < Cap THEN refStart + n ELSE refStart + n - Cap
  <2>1. refStart + n \in 0..(2 * Cap - 1)  BY <1>1, <1>2, <1>3
  <2> QED  BY <2>1, <1>1, <1>2, <1>3, <1>4, AtOnce
<1> HIDE DEF n
<1>6. ASSUME NEW i \in 0..(refSize' - 1)
      PROVE  refRing'[At(refStart' + i)] = pushed' - refSize' + i + 1
  <2>1. n + i \in 0..(refSize - 1)  BY <1>2, <1>3, <1>4
  <2>2. At(refStart' + i) = At(refStart + (n + i))
    <3>1. refStart' + i \in 0..(2 * Cap - 1)  BY <1>1, <1>2, <1>3, <1>4, <1>5, <2>1
    <3>2. refStart + (n + i) \in 0..(2 * Cap - 1)  BY <1>1, <1>2, <1>3, <2>1
    <3> QED  BY <3>1, <3>2, AtOnce, <1>1, <1>2, <1>3, <1>5, <2>1
  <2>3. refRing[At(refStart + (n + i))] = pushed - refSize + (n + i) + 1
    BY <2>1 DEF IInv, RingWindow
  <2> QED  BY <2>2, <2>3, <1>2, <1>3, <1>4
<1>7. refSize' \in 0..Cap /\ taken' \in Nat /\ refStart' \in 0..(Cap - 1)
  BY <1>1, <1>2, <1>3, <1>4, <1>5
<1>9. refShort' \in Nat  BY <1>1, <1>2 DEF TakeRef, Least, IInv, Ranges
<1>8. pushed' = refDropped' + taken' + refSize'  BY <1>2, <1>3, <1>4
<1> QED  BY <1>2, <1>4, <1>6, <1>7, <1>8, <1>9 DEF RingWindow

-----------------------------------------------------------------------------
LEMMA InitOk == Init => IInv
<1> SUFFICES ASSUME Init PROVE IInv  OBVIOUS
<1>1. Cap \in Nat \ {0} /\ Frame \in Nat \ {0} /\ Longest \in Nat  BY RingAssumption
<1>2. Ranges  BY <1>1 DEF Init, Ranges, NoCall
<1>3. RingWindow  BY <1>1 DEF Init, RingWindow
<1> QED  BY <1>2, <1>3 DEF IInv

LEMMA NextOk == IInv /\ [Next]_vars => IInv'
<1> SUFFICES ASSUME IInv, [Next]_vars PROVE IInv'  OBVIOUS
<1>1. Cap \in Nat \ {0} /\ Frame \in Nat \ {0} /\ Lengths \subseteq Nat \X (0..Longest) /\ Longest \in Nat
  BY RingAssumption
<1>2. /\ fill \in 0..Frame /\ j \in Nat /\ call \in [n : Nat, refs : 0..Longest, same : BOOLEAN] /\ j <= call.n
  BY DEF IInv, Ranges
<1>3. CASE UNCHANGED vars
  BY <1>3 DEF vars, ring, cancel, history, IInv, Ranges, RingWindow
<1>4. CASE Grow
  BY <1>4 DEF Grow, ring, cancel, history, IInv, Ranges, RingWindow
<1>5. ASSUME NEW l \in Lengths, NEW same \in BOOLEAN, Cancel(l[1], l[2], same)
      PROVE  IInv'
  <2>1. l[1] \in Nat /\ l[2] \in 0..Longest  BY <1>1
  <2>2. /\ UNCHANGED <<ring, fill, pushed, taken, refShort>> /\ j' = 0
        /\ call' = [n |-> l[1], refs |-> l[2], same |-> same]
    BY <1>5 DEF Cancel
  <2> QED  BY <2>1, <2>2 DEF ring, IInv, Ranges, RingWindow
<1>6. CASE Copy
  <2>1. Refs \in 0..Longest /\ Turn \in Nat /\ fill + Turn \in 0..Frame /\ j + Turn <= call.n
    BY <1>1, <1>2, <1>6 DEF Copy, Refs, Turn, Least
  <2>2. PushRef(Refs) /\ fill' = fill + Turn /\ j' = j + Turn /\ UNCHANGED <<taken, refShort, call>>
    BY <1>6 DEF Copy
  <2>3. /\ refStart' \in 0..(Cap - 1) /\ refDropped' \in Nat /\ pushed' \in Nat
        /\ RingWindow'
    BY <1>1, <2>1, <2>2, PushKeeps
  <2>4. taken' \in Nat /\ refShort' \in Nat /\ fill' \in 0..Frame /\ j' \in Nat
        /\ call' \in [n : Nat, refs : 0..Longest, same : BOOLEAN] /\ j' <= call'.n
    BY <1>1, <1>2, <2>1, <2>2 DEF IInv, Ranges
  <2> QED  BY <2>3, <2>4 DEF IInv, Ranges
<1>7. CASE Process
  <2>1. TakeRef /\ fill' = 0 /\ UNCHANGED <<j, call>>  BY <1>7 DEF Process
  <2>2. /\ refStart' \in 0..(Cap - 1) /\ refDropped' \in Nat /\ pushed' \in Nat /\ taken' \in Nat
        /\ refShort' \in Nat /\ RingWindow'
    BY <2>1, TakeKeeps
  <2> QED  BY <1>1, <1>2, <2>1, <2>2 DEF IInv, Ranges
<1>8. CASE Finish
  <2>1. RefsLeft \in 0..Longest  BY <1>1, <1>2 DEF RefsLeft
  <2>2. PushRef(RefsLeft) /\ UNCHANGED <<taken, refShort, fill>> /\ j' = 0 /\ call' = NoCall
    BY <1>8 DEF Finish
  <2>3. /\ refStart' \in 0..(Cap - 1) /\ refDropped' \in Nat /\ pushed' \in Nat
        /\ RingWindow'
    BY <1>1, <2>1, <2>2, PushKeeps
  <2>4. taken' \in Nat /\ refShort' \in Nat  BY <2>2 DEF IInv, Ranges
  <2> QED  BY <1>1, <1>2, <2>2, <2>3, <2>4 DEF IInv, Ranges, NoCall
<1> QED  BY <1>3, <1>4, <1>5, <1>6, <1>7, <1>8 DEF Next

\* The ring holds the last references that came, in order, and every other was
\* taken or counts as dropped, whatever the lengths of a frame, of the ring
\* and of the calls (index.js:125-163).
THEOREM Window == Spec => []RingWindow
<1>1. IInv => RingWindow  BY DEF IInv
<1> QED  BY <1>1, InitOk, NextOk, PTL DEF Spec

-----------------------------------------------------------------------------
(* The refinement.  The sequences are runs of consecutive numbers. *)

Run(base, n) == [i \in 1..n |-> base + i]

LEMMA RunConcat ==
  ASSUME NEW base \in Int, NEW m \in Nat, NEW n \in Nat
  PROVE  Run(base, m) \o Run(base + m, n) = Run(base, m + n)
BY DEF Run

LEMMA RunSub ==
  ASSUME NEW base \in Int, NEW m \in Nat, NEW o \in 0..m
  PROVE  SubSeq(Run(base, m), o + 1, m) = Run(base + o, m - o)
BY DEF Run

LEMMA RunLen == ASSUME NEW base \in Int, NEW m \in Nat PROVE Len(Run(base, m)) = m
BY DEF Run

\* What waits in the ring is a run.
LEMMA WaitingRun == IInv => Waiting = Run(pushed - refSize, refSize)
<1> SUFFICES ASSUME IInv PROVE Waiting = Run(pushed - refSize, refSize)  OBVIOUS
<1>1. refSize \in Nat /\ pushed \in Nat  BY RingAssumption DEF IInv, Ranges, RingWindow
<1>2. ASSUME NEW i \in 1..refSize
      PROVE  refRing[At(refStart + (i - 1))] = pushed - refSize + i
  <2>1. i - 1 \in 0..(refSize - 1)  BY <1>1
  <2>2. refRing[At(refStart + (i - 1))] = pushed - refSize + (i - 1) + 1
    BY <2>1 DEF IInv, RingWindow
  <2> QED  BY <2>2, <1>1
<1> QED  BY <1>2 DEF Waiting, Run

LEMMA WaitingRunNext == IInv' => Waiting' = Run(pushed' - refSize', refSize')
<1>1. (IInv => Waiting = Run(pushed - refSize, refSize))'  BY WaitingRun, PTL
<1> QED  BY <1>1 DEF Run

\* pushRef is the queue's Push.
LEMMA PushRefines ==
  ASSUME IInv, IInv', NEW n \in 0..Longest, PushRef(n), UNCHANGED <<refShort, ref>>
  PROVE  Queue!Push(n)
<1>1. Cap \in Nat \ {0} /\ Longest \in Nat /\ n \in Nat  BY RingAssumption
<1>2. /\ refSize \in Nat /\ refSize <= Cap /\ refDropped \in Nat /\ pushed \in Nat
  BY <1>1 DEF IInv, Ranges, RingWindow
<1> DEFINE base == pushed - refSize
           over == IF refSize + n > Cap THEN refSize + n - Cap ELSE 0
           all == Waiting \o [i \in 1..n |-> pushed + i]
<1>3. over \in 0..(refSize + n)  BY <1>1, <1>2
<1>4. /\ refSize' = refSize + n - over /\ pushed' = pushed + n
      /\ refDropped' = refDropped + over
  <2>1. /\ refSize' = refSize - Over(n) + (n - Cut(n)) /\ pushed' = pushed + n
        /\ refDropped' = refDropped + Cut(n) + Over(n)
    BY DEF PushRef
  <2>2. Cut(n) \in Nat /\ Over(n) \in Nat /\ Cut(n) + Over(n) = over
    BY <1>1, <1>2 DEF Cut, Over
  <2> HIDE DEF over
  <2> QED  BY <2>1, <2>2, <1>1, <1>2, <1>3
<1>5. base \in Int /\ base + refSize = pushed  BY <1>2
<1>6. all = Run(base, refSize + n)
  <2>1. Waiting = Run(base, refSize)  BY WaitingRun
  <2>2. [i \in 1..n |-> pushed + i] = Run(base + refSize, n)  BY <1>2 DEF Run
  <2>3. all = Run(base, refSize) \o Run(base + refSize, n)  BY <2>1, <2>2
  <2> HIDE DEF base, all
  <2>4. Run(base, refSize) \o Run(base + refSize, n) = Run(base, refSize + n)
    BY <1>1, <1>2, <1>5, RunConcat
  <2> QED  BY <2>3, <2>4
<1> HIDE DEF all
<1>7. Len(all) = refSize + n
  <2> HIDE DEF base
  <2>1. Len(Run(base, refSize + n)) = refSize + n  BY <1>1, <1>2, <1>5, RunLen
  <2> QED  BY <2>1, <1>6
<1>8. over = IF Len(all) > Cap THEN Len(all) - Cap ELSE 0
  <2>1. over = IF refSize + n > Cap THEN refSize + n - Cap ELSE 0  OBVIOUS
  <2> HIDE DEF over, base
  <2> QED  BY <2>1, <1>1, <1>2, <1>7
<1> HIDE DEF over
<1>9. SubSeq(all, over + 1, Len(all)) = Run(base + over, refSize + n - over)
  <2> HIDE DEF base
  <2>1. SubSeq(Run(base, refSize + n), over + 1, refSize + n) = Run(base + over, refSize + n - over)
    BY <1>1, <1>2, <1>3, <1>5, RunSub
  <2> QED  BY <2>1, <1>6, <1>7
<1>10. Waiting' = Run(base + over, refSize + n - over)
  <2>1. Waiting' = Run(pushed' - refSize', refSize')  BY WaitingRunNext
  <2>2. pushed' - refSize' = base + over  BY <1>1, <1>2, <1>3, <1>4
  <2> QED  BY <2>1, <2>2, <1>4
<1>11. UNCHANGED RefFrame  BY DEF RefFrame
<1> QED  BY <1>4, <1>8, <1>9, <1>10, <1>11 DEF Queue!Push, all

\* takeRef is its Take.
LEMMA TakeRefines ==
  ASSUME IInv, IInv', TakeRef
  PROVE  Queue!Take
<1>1. Cap \in Nat \ {0} /\ Frame \in Nat \ {0}  BY RingAssumption
<1>2. /\ refSize \in Nat /\ pushed \in Nat /\ refShort \in Nat
  BY <1>1 DEF IInv, Ranges, RingWindow
<1> DEFINE n == Least(Frame, refSize)
           base == pushed - refSize
           rest == SubSeq(Waiting, Frame + 1, Len(Waiting))
<1>3. n \in 0..refSize /\ n <= Frame  BY <1>1, <1>2 DEF Least
<1>4. /\ refSize' = refSize - n /\ refShort' = refShort + (Frame - n)
      /\ ref' = [i \in Slots |-> IF i < n THEN refRing[At(refStart + i)] ELSE 0]
      /\ UNCHANGED <<refDropped, pushed>>
  BY DEF TakeRef
<1>5. Waiting = Run(base, refSize)  BY WaitingRun
<1>6. Len(Waiting) = refSize  BY <1>2, <1>5, RunLen
<1>7. rest = Run(base + n, refSize - n)
  <2>1. CASE Frame <= refSize
    <3>1. n = Frame  BY <2>1, <1>1, <1>2 DEF Least
    <3> QED  BY <3>1, <2>1, <1>1, <1>2, <1>5, <1>6, RunSub
  <2>2. CASE Frame > refSize
    <3>1. n = refSize  BY <2>2, <1>1, <1>2 DEF Least
    <3>2. rest = <<>>  BY <2>2, <1>1, <1>2, <1>5, <1>6 DEF Run
    <3>3. Run(base + n, refSize - n) = <<>>  BY <3>1, <1>2 DEF Run
    <3> QED  BY <3>2, <3>3
  <2> QED  BY <2>1, <2>2, <1>1, <1>2
<1>8. Waiting' = rest
  <2>1. Waiting' = Run(pushed' - refSize', refSize')  BY WaitingRunNext
  <2>2. pushed' - refSize' = base + n  BY <1>2, <1>3, <1>4
  <2> QED  BY <2>1, <2>2, <1>4, <1>7
<1>9. Len(rest) = refSize - n
  <2>1. base + n \in Int /\ refSize - n \in Nat  BY <1>2, <1>3
  <2>2. Len(Run(base + n, refSize - n)) = refSize - n  BY <2>1, RunLen
  <2> QED  BY <2>2, <1>7
<1>10. refShort' = refShort + Frame - (Len(Waiting) - Len(rest))
  BY <1>1, <1>2, <1>3, <1>4, <1>6, <1>9
<1>11. RefFrame' = [i \in 1..Frame |-> IF i <= Len(Waiting) THEN Waiting[i] ELSE 0]
  <2>1. ASSUME NEW i \in 1..Frame
        PROVE  ref'[i - 1] = IF i <= refSize THEN Waiting[i] ELSE 0
    <3>1. i - 1 \in Slots  BY <1>1 DEF Slots
    <3>2. i - 1 < n <=> i <= refSize  BY <1>1, <1>2 DEF Least
    <3>3. i <= refSize => Waiting[i] = refRing[At(refStart + (i - 1))]
      BY <1>1, <1>2 DEF Waiting
    <3> QED  BY <3>1, <3>2, <3>3, <1>4
  <2> QED  BY <2>1, <1>6 DEF RefFrame
<1> QED  BY <1>4, <1>8, <1>10, <1>11 DEF Queue!Take

LEMMA StepRefines ==
  IInv /\ IInv' /\ [Next]_vars
    => [Queue!Take \/ \E n \in 0..Longest : Queue!Push(n)]_
         <<Waiting, pushed, refDropped, refShort, RefFrame>>
<1> SUFFICES ASSUME IInv, IInv', [Next]_vars
             PROVE  \/ Queue!Take \/ \E n \in 0..Longest : Queue!Push(n)
                    \/ UNCHANGED <<Waiting, pushed, refDropped, refShort, RefFrame>>
  OBVIOUS
<1>1. /\ Frame \in Nat \ {0} /\ fill \in 0..Frame /\ j \in Nat /\ j <= call.n
      /\ call \in [n : Nat, refs : 0..Longest, same : BOOLEAN] /\ Longest \in Nat
  BY RingAssumption DEF IInv, Ranges
<1>2. CASE UNCHANGED <<ring, refShort, ref, pushed>>
  BY <1>2 DEF ring, Waiting, RefFrame
<1>3. CASE UNCHANGED vars  BY <1>2, <1>3 DEF vars, ring, frames, history
<1>4. CASE Grow  BY <1>2, <1>4 DEF Grow, frames, history
<1>5. CASE \E l \in Lengths, same \in BOOLEAN : Cancel(l[1], l[2], same)
  BY <1>2, <1>5 DEF Cancel, frames
<1>6. CASE Copy
  <2>1. Refs \in 0..Longest  BY <1>1, <1>6 DEF Copy, Refs, Turn, Least
  <2> QED  BY <2>1, <1>6, PushRefines DEF Copy
<1>7. CASE Process  BY <1>7, TakeRefines DEF Process
<1>8. CASE Finish
  <2>1. RefsLeft \in 0..Longest  BY <1>1 DEF RefsLeft
  <2> QED  BY <2>1, <1>8, PushRefines DEF Finish, frames
<1> QED  BY <1>3, <1>4, <1>5, <1>6, <1>7, <1>8 DEF Next

\* The ring implements the queue its users are promised: first in, first out,
\* the oldest dropped when more than Cap wait, silence for what is missing
\* (index.js:125-163, webrtc-audio-processing/package/README.md:70-73).
THEOREM RefinesQueue == Spec => ImplementsQueue
<1>1. Init => Queue!Init
  BY RingAssumption DEF Init, Queue!Init, Waiting, RefFrame, Slots
<1> QED  BY <1>1, InitOk, NextOk, StepRefines, PTL DEF Spec, ImplementsQueue, Queue!Spec
-----------------------------------------------------------------------------
(* The delay.  Heard outputs came of as many samples of the mic, Before of *)
(* them before the frame that fills.                                       *)

Heard == Len(heard)
Before == Heard - fill
Late(k) == IF k > Frame THEN k - Frame ELSE 0

\* What the variables range over, and where cancel may be with what.
Kinds ==
  /\ heard \in Seq([mic : Int, ref : Int])
  /\ mic \in [Slots -> Int] /\ out \in [Slots -> [mic : Int, ref : Int]]
  /\ failed \in Nat /\ even \in BOOLEAN
Where ==
  /\ fill <= Heard
  /\ at \in {"out", "loop", "process"}
  /\ at # "out" => fresh
  /\ at = "process" => fill = Frame
\* The frame that fills holds the last samples of the mic, the array of the
\* running call the next ones, and the frame that is handed out those of a
\* frame earlier.
Filling == \A i \in Slots : i < fill => mic[i] = Before + i + 1
Coming ==
  /\ DOMAIN micIn = 1..call.n
  /\ \A i \in (j + 1)..call.n : micIn[i] = Heard - j + i
HandedOut ==
  failed = 0 => /\ \A i \in Slots : out[i].mic = Late(Before + i + 1)
                /\ \A k \in 1..Heard : heard[k].mic = Late(k)
Shift == Kinds /\ Where /\ Filling /\ Coming /\ HandedOut

\* In lock step the ring holds the references of the frame that fills, no more
\* and no fewer.
Paired ==
  even /\ failed = 0 =>
    /\ refDropped = 0 /\ refShort = 0
    /\ call.refs = call.n /\ refSize = fill /\ pushed = Heard
    /\ \A i \in Slots : out[i].ref = out[i].mic
    /\ \A k \in 1..Heard : heard[k].ref = heard[k].mic
DInv == IInv /\ Shift /\ Paired

LEMMA ShiftInit == Init => Shift /\ Paired
<1> SUFFICES ASSUME Init PROVE Shift /\ Paired  OBVIOUS
<1>1. Frame \in Nat \ {0}  BY RingAssumption
<1>2. Heard = 0 /\ heard = <<>> /\ fill = 0 /\ Before = 0  BY DEF Init, Heard, Before
<1>3. Shift
  <2>1. Kinds  BY <1>2 DEF Init, Kinds, Silence
  <2>2. HandedOut  BY <1>1, <1>2 DEF Init, Silence, Slots, Late, HandedOut
  <2>3. Coming  BY DEF Init, NoCall, Coming
  <2>4. Where /\ Filling  BY <1>1, <1>2 DEF Init, Where, Filling, Slots
  <2> QED  BY <2>1, <2>2, <2>3, <2>4 DEF Shift
<1>4. Paired  BY <1>2 DEF Init, Paired, NoCall, Silence
<1> QED  BY <1>3, <1>4

LEMMA Joined ==
  ASSUME NEW S, NEW s \in Seq(S), NEW t \in Seq(S)
  PROVE  /\ s \o t \in Seq(S) /\ Len(s \o t) = Len(s) + Len(t)
         /\ \A k \in 1..(Len(s) + Len(t)) :
              (s \o t)[k] = IF k <= Len(s) THEN s[k] ELSE t[k - Len(s)]
OBVIOUS

\* What a turn of the loop hands out, takes from the mic's array and leaves
\* in it.
LEMMA TurnIs ==
  ASSUME IInv, at = "loop"
  PROVE  /\ Turn \in Nat /\ fill + Turn \in 0..Frame /\ j + Turn \in Nat /\ j + Turn <= call.n
         /\ Chunk \in [1..Turn -> {out[i] : i \in Slots}]
BY RingAssumption DEF IInv, Ranges, Turn, Least, Chunk, Slots

LEMMA CopyKeeps ==
  ASSUME IInv, Shift, Paired, Copy
  PROVE  Shift' /\ Paired'
<1>1. /\ Frame \in Nat \ {0} /\ Cap \in Nat /\ Cap >= Frame
      /\ fill \in 0..Frame /\ j \in Nat /\ call.n \in Nat /\ call.refs \in Nat /\ j <= call.n
  BY RingAssumption DEF IInv, Ranges
<1>2. /\ at = "loop" /\ j < call.n /\ PushRef(Refs)
      /\ mic' = [i \in Slots |-> IF i - fill \in 0..(Turn - 1) THEN micIn[j + i - fill + 1]
                                 ELSE mic[i]]
      /\ heard' = heard \o Chunk
      /\ fill' = fill + Turn /\ j' = j + Turn /\ micIn' = MicWritten
      /\ at' = IF fill' = Frame THEN "process" ELSE "loop"
      /\ UNCHANGED <<call, refShort, failed, ref, out, fresh, calls, even, taken>>
  BY DEF Copy, MicBefore
<1>3. Turn \in Nat /\ fill + Turn \in 0..Frame /\ j + Turn \in Nat /\ j + Turn <= call.n
  BY <1>2, TurnIs
<1>4. /\ heard \in Seq([mic : Int, ref : Int]) /\ out \in [Slots -> [mic : Int, ref : Int]]
      /\ mic \in [Slots -> Int] /\ Heard \in Nat /\ fill <= Heard /\ failed \in Nat
  BY DEF Shift, Kinds, Where, Heard
<1>5. Chunk \in Seq([mic : Int, ref : Int]) /\ Len(Chunk) = Turn
      /\ \A i \in 1..Turn : Chunk[i] = out[fill + i - 1]
  BY <1>1, <1>3, <1>4 DEF Chunk, Slots
<1>6. /\ heard' \in Seq([mic : Int, ref : Int]) /\ Heard' = Heard + Turn
      /\ \A k \in 1..Heard' : heard'[k] = IF k <= Heard THEN heard[k] ELSE out[fill + (k - Heard) - 1]
  <2> HIDE DEF Chunk
  <2>1. heard' \in Seq([mic : Int, ref : Int]) /\ Len(heard') = Len(heard) + Turn
    BY <1>2, <1>4, <1>5, Joined
  <2>2. ASSUME NEW k \in 1..(Len(heard) + Turn)
        PROVE  heard'[k] = IF k <= Len(heard) THEN heard[k] ELSE out[fill + (k - Len(heard)) - 1]
    <3>1. heard'[k] = IF k <= Len(heard) THEN heard[k] ELSE Chunk[k - Len(heard)]
      BY <1>2, <1>4, <1>5, Joined
    <3>2. CASE k <= Len(heard)  BY <3>1, <3>2
    <3>3. CASE ~(k <= Len(heard))
      <4>1. k - Len(heard) \in 1..Turn  BY <1>3, <1>4, <3>3 DEF Heard
      <4> QED  BY <4>1, <3>1, <3>3, <1>5
    <3> QED  BY <3>2, <3>3
  <2> QED  BY <2>1, <2>2 DEF Heard
<1>7. Before' = Before  BY <1>1, <1>2, <1>3, <1>4, <1>6 DEF Before
<1>8. \A i \in (j + 1)..call.n : micIn[i] = Heard - j + i  BY DEF Shift, Coming
<1>9. \A i \in Slots : i < fill => mic[i] = Before + i + 1  BY DEF Shift, Filling
<1>10. DOMAIN micIn' = 1..call'.n /\ \A i \in (j' + 1)..call'.n : micIn'[i] = Heard' - j' + i
  <2>1. DOMAIN micIn = 1..call.n  BY DEF Shift, Coming
  <2>2. DOMAIN MicWritten = 1..call.n  BY <2>1 DEF MicWritten
  <2>3. ASSUME NEW i \in (j + Turn + 1)..call.n PROVE MicWritten[i] = Heard - j + i
    <3>1. i \in 1..call.n /\ i \in (j + 1)..call.n /\ i - j \notin 1..Turn  BY <1>1, <1>3
    <3> QED  BY <3>1, <2>1, <1>8 DEF MicWritten
  <2> QED  BY <2>2, <2>3, <1>1, <1>2, <1>3, <1>4, <1>6
<1>11. mic' \in [Slots -> Int] /\ \A i \in Slots : i < fill' => mic'[i] = Before' + i + 1
  <2>1. ASSUME NEW i \in Slots, i - fill \in 0..(Turn - 1)
        PROVE  mic'[i] = Before + i + 1
    <3>1. i \in Nat  BY <1>1 DEF Slots
    <3>2. j + i - fill + 1 \in (j + 1)..call.n  BY <1>1, <1>3, <2>1, <3>1
    <3>3. mic'[i] = micIn[j + i - fill + 1]  BY <1>2, <2>1
    <3>4. mic'[i] = Heard - j + (j + i - fill + 1)  BY <3>2, <3>3, <1>8
    <3> QED  BY <3>1, <3>4, <1>1, <1>4 DEF Before
  <2>2. ASSUME NEW i \in Slots, i - fill \notin 0..(Turn - 1)
        PROVE  mic'[i] = mic[i] /\ (i < fill' => i < fill)
    BY <1>1, <1>2, <1>3, <2>2 DEF Slots
  <2>3. Before \in Int /\ \A i \in Slots : i \in Int  BY <1>1, <1>4 DEF Before, Slots
  <2>4. \A i \in Slots : mic'[i] \in Int  BY <2>1, <2>2, <2>3, <1>4
  <2>5. mic' \in [Slots -> Int]  BY <2>4, <1>2
  <2> QED  BY <2>1, <2>2, <2>5, <1>7, <1>9
<1>12. ASSUME failed' = 0
       PROVE  /\ \A i \in Slots : out'[i].mic = Late(Before' + i + 1)
              /\ \A k \in 1..Heard' : heard'[k].mic = Late(k)
  <2>1. /\ \A i \in Slots : out[i].mic = Late(Before + i + 1)
        /\ \A k \in 1..Heard : heard[k].mic = Late(k)
    BY <1>2, <1>12 DEF Shift, HandedOut
  <2>2. ASSUME NEW k \in 1..Heard', ~(k <= Heard)
        PROVE  heard'[k].mic = Late(k)
    <3>1. fill + (k - Heard) - 1 \in Slots  BY <1>1, <1>3, <1>4, <1>6, <2>2 DEF Slots
    <3>2. Before + (fill + (k - Heard) - 1) + 1 = k  BY <1>1, <1>4, <2>2, <1>6, <1>3 DEF Before
    <3> QED  BY <3>1, <3>2, <2>1, <2>2, <1>6
  <2>3. \A i \in Slots : out'[i].mic = Late(Before' + i + 1)  BY <2>1, <1>2, <1>7
  <2>4. ASSUME NEW k \in 1..Heard', k <= Heard
        PROVE  heard'[k].mic = Late(k)
    <3>1. k \in 1..Heard /\ heard'[k] = heard[k]  BY <1>3, <1>4, <1>6, <2>4
    <3> QED  BY <3>1, <2>1
  <2> QED  BY <2>2, <2>3, <2>4
<1>13. Shift'
  <2>1. Kinds'  BY <1>2, <1>4, <1>6, <1>11 DEF Shift, Kinds
  <2>2. Where'  BY <1>1, <1>2, <1>3, <1>4, <1>6 DEF Shift, Where
  <2>3. Filling'  BY <1>11 DEF Filling
  <2>4. Coming'  BY <1>10 DEF Coming
  <2>5. HandedOut'  BY <1>12 DEF HandedOut
  <2> QED  BY <2>1, <2>2, <2>3, <2>4, <2>5 DEF Shift
<1>14. ASSUME even', failed' = 0
       PROVE  /\ refDropped' = 0 /\ refShort' = 0
              /\ call'.refs = call'.n /\ refSize' = fill' /\ pushed' = Heard'
              /\ \A i \in Slots : out'[i].ref = out'[i].mic
              /\ \A k \in 1..Heard' : heard'[k].ref = heard'[k].mic
  <2>1. /\ refDropped = 0 /\ refShort = 0
        /\ call.refs = call.n /\ refSize = fill /\ pushed = Heard
        /\ \A i \in Slots : out[i].ref = out[i].mic
        /\ \A k \in 1..Heard : heard[k].ref = heard[k].mic
    BY <1>2, <1>14 DEF Paired
  <2>2. Refs = Turn
    <3>1. j < call.refs /\ j + Turn <= call.refs  BY <2>1, <1>2, <1>3
    <3>2. call.refs \in Nat /\ Turn \in Nat /\ j \in Nat  BY <1>1, <1>3
    <3>3. Least(j + Turn, call.refs) = j + Turn  BY <3>1, <3>2 DEF Least
    <3> QED  BY <3>1, <3>2, <3>3 DEF Refs
  <2>3. Cut(Turn) = 0 /\ Over(Turn) = 0
    <3>1. refSize = fill /\ Turn \in Nat /\ fill + Turn <= Cap /\ Turn <= Cap  BY <2>1, <1>1, <1>3
    <3> QED  BY <3>1, <1>1 DEF Cut, Over
  <2>4. refDropped' = 0 /\ refSize' = fill + Turn /\ pushed' = Heard + Turn
    <3>1. /\ refSize' = refSize - Over(Turn) + (Turn - Cut(Turn))
          /\ refDropped' = refDropped + Cut(Turn) + Over(Turn)
          /\ pushed' = pushed + Turn
      BY <2>2, <1>2 DEF PushRef
    <3> QED  BY <3>1, <2>1, <2>3, <1>1, <1>3, <1>4
  <2>5. ASSUME NEW k \in 1..Heard', ~(k <= Heard)
        PROVE  heard'[k].ref = heard'[k].mic
    <3>1. fill + (k - Heard) - 1 \in Slots  BY <1>1, <1>3, <1>4, <1>6, <2>5 DEF Slots
    <3> QED  BY <3>1, <2>1, <2>5, <1>6
  <2>6. ASSUME NEW k \in 1..Heard', k <= Heard
        PROVE  heard'[k].ref = heard'[k].mic
    <3>1. k \in 1..Heard /\ heard'[k] = heard[k]  BY <1>3, <1>4, <1>6, <2>6
    <3> QED  BY <3>1, <2>1
  <2>7. \A k \in 1..Heard' : heard'[k].ref = heard'[k].mic  BY <2>5, <2>6
  <2>8. \A i \in Slots : out'[i].ref = out'[i].mic  BY <2>1, <1>2
  <2>9. call'.refs = call'.n /\ refSize' = fill' /\ pushed' = Heard' /\ refShort' = 0
    BY <2>1, <2>4, <1>2, <1>6
  <2> QED  BY <2>4, <2>7, <2>8, <2>9
<1> QED  BY <1>13, <1>14 DEF Paired

\* The frame that is full: with it, in lock step, come the references the ring
\* holds, which are those of its samples.
LEMMA ProcessKeeps ==
  ASSUME IInv, Shift, Paired, Process
  PROVE  Shift' /\ Paired'
<1>1. /\ Frame \in Nat \ {0} /\ Cap \in Nat /\ Cap >= Frame
      /\ fill \in 0..Frame /\ j \in Nat /\ call.n \in Nat /\ j <= call.n /\ pushed \in Nat
  BY RingAssumption DEF IInv, Ranges
<1>2. /\ at = "process" /\ TakeRef /\ fill' = 0 /\ at' = "loop" /\ fresh' = TRUE
      /\ UNCHANGED <<call, micIn, j, mic, calls, even, heard>>
  BY DEF Process, Views
<1>3. \/ /\ out' = [i \in Slots |-> [mic |-> mic[i], ref |-> ref'[i]]]
         /\ failed' = failed
      \/ failed' = failed + 1 /\ out' = out
  BY DEF Process
<1>4. /\ heard \in Seq([mic : Int, ref : Int]) /\ out \in [Slots -> [mic : Int, ref : Int]]
      /\ mic \in [Slots -> Int] /\ Heard \in Nat /\ fill <= Heard /\ failed \in Nat /\ fill = Frame
      /\ \A i \in Slots : i < fill => mic[i] = Before + i + 1
  BY <1>2 DEF Shift, Kinds, Where, Filling, Heard
<1>5. Heard' = Heard /\ Before' = Heard  BY <1>1, <1>2, <1>4 DEF Heard, Before
<1>6. ref' \in [Slots -> Int]
  <2>1. ASSUME NEW i \in Slots, i < Least(Frame, refSize)
        PROVE  refRing[At(refStart + i)] \in Int
    <3>1. refSize \in 0..Cap  BY DEF IInv, RingWindow
    <3>2. i \in 0..(refSize - 1)  BY <1>1, <2>1, <3>1 DEF Slots, Least
    <3>3. refRing[At(refStart + i)] = pushed - refSize + i + 1  BY <3>2 DEF IInv, RingWindow
    <3> QED  BY <1>1, <3>1, <3>2, <3>3
  <2> QED  BY <2>1, <1>2 DEF TakeRef
<1>7. out' \in [Slots -> [mic : Int, ref : Int]] /\ failed' \in Nat  BY <1>3, <1>4, <1>6
<1>8. ASSUME failed' = 0
      PROVE  /\ \A i \in Slots : out'[i] = [mic |-> Before + i + 1, ref |-> ref'[i]]
             /\ failed = 0
  <2>1. out' = [i \in Slots |-> [mic |-> mic[i], ref |-> ref'[i]]] /\ failed = 0
    BY <1>3, <1>4, <1>8
  <2>2. \A i \in Slots : mic[i] = Before + i + 1  BY <1>1, <1>4 DEF Slots
  <2> QED  BY <2>1, <2>2
<1>9. ASSUME failed' = 0
      PROVE  \A i \in Slots : out'[i].mic = Late(Before' + i + 1)
  <2>1. ASSUME NEW i \in Slots PROVE Before + i + 1 = Late(Heard + i + 1)
    BY <1>1, <1>4 DEF Before, Late, Slots
  <2> TAKE i \in Slots
  <2>2. out'[i] = [mic |-> Before + i + 1, ref |-> ref'[i]]  BY <1>8, <1>9
  <2>3. out'[i].mic = Before + i + 1  BY <2>2
  <2> QED  BY <2>1, <2>3, <1>5
<1>10. Shift'
  <2>1. Kinds'  BY <1>2, <1>4, <1>7 DEF Shift, Kinds
  <2>2. Where'  BY <1>2, <1>4, <1>5 DEF Where
  <2>3. Filling'  BY <1>1, <1>2 DEF Filling, Slots
  <2>4. Coming'  BY <1>2, <1>5 DEF Shift, Coming
  <2>5. HandedOut'  BY <1>2, <1>5, <1>8, <1>9 DEF Shift, HandedOut
  <2> QED  BY <2>1, <2>2, <2>3, <2>4, <2>5 DEF Shift
<1>11. ASSUME even', failed' = 0
       PROVE  /\ refDropped' = 0 /\ refShort' = 0
              /\ call'.refs = call'.n /\ refSize' = fill' /\ pushed' = Heard'
              /\ \A i \in Slots : out'[i].ref = out'[i].mic
              /\ \A k \in 1..Heard' : heard'[k].ref = heard'[k].mic
  <2>1. /\ refDropped = 0 /\ refShort = 0
        /\ call.refs = call.n /\ refSize = fill /\ pushed = Heard
        /\ \A k \in 1..Heard : heard[k].ref = heard[k].mic
    BY <1>2, <1>8, <1>11 DEF Paired
  <2>2. Least(Frame, refSize) = Frame  BY <2>1, <1>1, <1>4 DEF Least
  <2>3. refDropped' = 0 /\ refShort' = 0 /\ refSize' = 0 /\ pushed' = Heard
    BY <2>1, <2>2, <1>1, <1>2, <1>4 DEF TakeRef
  <2>4. ASSUME NEW i \in Slots PROVE ref'[i] = Before + i + 1
    <3>1. i < Frame /\ i \in 0..(refSize - 1)  BY <2>1, <1>1, <1>4 DEF Slots
    <3>2. ref'[i] = refRing[At(refStart + i)]  BY <3>1, <2>2, <1>2 DEF TakeRef
    <3>3. refRing[At(refStart + i)] = pushed - refSize + i + 1  BY <3>1 DEF IInv, RingWindow
    <3> QED  BY <3>2, <3>3, <2>1, <1>4 DEF Before
  <2>5. ASSUME NEW i \in Slots PROVE out'[i].ref = out'[i].mic
    <3>1. out'[i] = [mic |-> Before + i + 1, ref |-> ref'[i]]  BY <1>8, <1>11
    <3> QED  BY <3>1, <2>4
  <2>6. \A k \in 1..Heard' : heard'[k].ref = heard'[k].mic  BY <2>1, <1>2, <1>5
  <2>7. call'.refs = call'.n  BY <2>1, <1>2
  <2> QED  BY <2>3, <2>5, <2>6, <2>7, <1>2, <1>5
<1> QED  BY <1>10, <1>11 DEF Paired

LEMMA FinishKeeps ==
  ASSUME IInv, Shift, Paired, Finish
  PROVE  Shift' /\ Paired'
<1>1. /\ Frame \in Nat \ {0} /\ Cap \in Nat /\ Cap >= Frame
      /\ fill \in 0..Frame /\ call.n \in Nat /\ pushed \in Nat
  BY RingAssumption DEF IInv, Ranges
<1>2. /\ PushRef(RefsLeft) /\ at' = "out" /\ call' = NoCall /\ micIn' = <<>> /\ j' = 0
      /\ UNCHANGED <<refShort, fill, failed, mic, ref, out, fresh, calls, even, taken, heard>>
  BY DEF Finish, frames
<1>3. Heard' = Heard /\ Before' = Before  BY <1>2 DEF Heard, Before
<1>4. Shift'
  <2>1. Kinds'  BY <1>2 DEF Shift, Kinds
  <2>2. Where'  BY <1>2, <1>3 DEF Shift, Where
  <2>3. Filling'  BY <1>2, <1>3 DEF Shift, Filling
  <2>4. Coming'  BY <1>2 DEF NoCall, Coming
  <2>5. HandedOut'  BY <1>2, <1>3 DEF Shift, HandedOut
  <2> QED  BY <2>1, <2>2, <2>3, <2>4, <2>5 DEF Shift
<1>5. ASSUME even', failed' = 0
      PROVE  /\ refDropped' = 0 /\ refShort' = 0
             /\ call'.refs = call'.n /\ refSize' = fill' /\ pushed' = Heard'
             /\ \A i \in Slots : out'[i].ref = out'[i].mic
             /\ \A k \in 1..Heard' : heard'[k].ref = heard'[k].mic
  <2>1. /\ refDropped = 0 /\ refShort = 0
        /\ call.refs = call.n /\ refSize = fill /\ pushed = Heard
        /\ \A i \in Slots : out[i].ref = out[i].mic
        /\ \A k \in 1..Heard : heard[k].ref = heard[k].mic
    BY <1>2, <1>5 DEF Paired
  <2>2. RefsLeft = 0  BY <2>1, <1>1 DEF RefsLeft
  <2>3. Cut(0) = 0 /\ Over(0) = 0  BY <2>1, <1>1 DEF Cut, Over
  <2>4. refDropped' = 0 /\ refSize' = fill /\ pushed' = Heard
    BY <2>1, <2>2, <2>3, <1>1, <1>2 DEF PushRef
  <2> QED  BY <2>1, <2>4, <1>2, <1>3 DEF NoCall
<1> QED  BY <1>4, <1>5 DEF Paired

LEMMA CancelKeeps ==
  ASSUME IInv, Shift, Paired, NEW n \in Nat, NEW refs \in Nat, NEW same \in BOOLEAN,
         Cancel(n, refs, same)
  PROVE  Shift' /\ Paired'
<1>1. /\ at' = "loop" /\ call' = [n |-> n, refs |-> refs, same |-> same]
      /\ micIn' = [i \in 1..n |-> Len(heard) + i] /\ j' = 0
      /\ even' = (even /\ n = refs) /\ fresh' = TRUE
      /\ UNCHANGED <<refRing, refStart, refSize, refDropped, refShort, fill, failed,
                     mic, ref, out, pushed, taken, heard>>
  BY DEF Cancel, Views, ring, frames
<1>2. Heard' = Heard /\ Before' = Before /\ Heard \in Nat
  BY <1>1 DEF Heard, Before, Shift, Kinds
<1>3. Shift'
  <2>1. Kinds'  BY <1>1 DEF Shift, Kinds
  <2>2. Where'  BY <1>1, <1>2 DEF Shift, Where
  <2>3. Filling'  BY <1>1, <1>2 DEF Shift, Filling
  <2>4. Coming'  BY <1>1, <1>2 DEF Heard, Coming
  <2>5. HandedOut'  BY <1>1, <1>2 DEF Shift, HandedOut
  <2> QED  BY <2>1, <2>2, <2>3, <2>4, <2>5 DEF Shift
<1>4. Paired'  BY <1>1, <1>2 DEF Paired
<1> QED  BY <1>3, <1>4

LEMMA DelayNext == DInv /\ [Next]_vars => DInv'
<1> SUFFICES ASSUME DInv, [Next]_vars PROVE DInv'  OBVIOUS
<1>1. IInv /\ Shift /\ Paired  BY DEF DInv
<1>2. IInv'  BY <1>1, NextOk
<1>3. CASE UNCHANGED vars
  BY <1>1, <1>2, <1>3 DEF DInv, vars, ring, frames, cancel, history, Paired, Heard, Before,
       Shift, Kinds, Where, Filling, Coming, HandedOut
<1>4. CASE Grow
  BY <1>1, <1>2, <1>4 DEF DInv, Grow, ring, frames, cancel, history, Paired, Heard, Before,
       Shift, Kinds, Where, Filling, Coming, HandedOut
<1>5. ASSUME NEW l \in Lengths, NEW same \in BOOLEAN, Cancel(l[1], l[2], same) PROVE DInv'
  <2>1. l[1] \in Nat /\ l[2] \in Nat  BY RingAssumption
  <2> QED  BY <1>1, <1>2, <1>5, <2>1, CancelKeeps DEF DInv
<1>6. CASE Copy  BY <1>1, <1>2, <1>6, CopyKeeps DEF DInv
<1>7. CASE Process  BY <1>1, <1>2, <1>7, ProcessKeeps DEF DInv
<1>8. CASE Finish  BY <1>1, <1>2, <1>8, FinishKeeps DEF DInv
<1> QED  BY <1>3, <1>4, <1>5, <1>6, <1>7, <1>8 DEF Next

LEMMA DelayInit == Init => DInv
BY InitOk, ShiftInit DEF DInv

\* Whatever the frame, the ring and the lengths of the calls: what comes out is
\* the mic a frame earlier, no sample twice, lost or overwritten by the output
\* that is written over it (index.js:184-201).
THEOREM DelayedByAFrame == Spec => []Delayed
<1>1. DInv => Delayed
  <2> SUFFICES ASSUME DInv PROVE Delayed  OBVIOUS
  <2>1. DOMAIN heard = 1..Heard  BY DEF DInv, Shift, Kinds, Heard
  <2> QED  BY <2>1 DEF DInv, Shift, Where, HandedOut, Delayed, Late
<1> QED  BY <1>1, DelayInit, DelayNext, PTL DEF Spec

\* While every call brings as much reference as mic, of whatever lengths, none
\* is dropped or missing, and each sample of the mic meets the reference that
\* came with it (index.js:125-201).
THEOREM PairedInLockStep == Spec => []LockStep
<1>1. DInv => LockStep
  <2> SUFFICES ASSUME DInv PROVE LockStep  OBVIOUS
  <2>1. DOMAIN heard = 1..Heard  BY DEF DInv, Shift, Kinds, Heard
  <2> QED  BY <2>1 DEF DInv, Paired, LockStep
<1> QED  BY <1>1, DelayInit, DelayNext, PTL DEF Spec
=============================================================================
