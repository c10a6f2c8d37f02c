----------------------------- MODULE SysrootProofs -----------------------------
(***************************************************************************)
(* For all signals, threads, actions and depths of handlers: handlers mask *)
(* what they say and nest, the kernel agrees with the libc on a signal that*)
(* two threads did not change at once, and SA_RESETHAND runs a handler once.*)
(*                                                                         *)
(* For any number of uses, names, handles and addresses: a sem_t a program *)
(* has open is the semaphore it opened, and the kernel and the table count *)
(* what is open.                                                           *)
(***************************************************************************)
EXTENDS SigAction, NamedSem, FiniteSetTheorems, SequenceTheorems, TLAPS

-----------------------------------------------------------------------------
(* The stacks *)

Kinds == {"dfl", "ign", "fn"}
Actions == [h : Kinds, reset : BOOLEAN, nodefer : BOOLEAN, mask : SUBSET Sigs, id : 0..MaxSets]
InHandler == {"enter", "reset", "tell", "mask", "call", "run", "leave"}
Pcs == {"seed", "seeding", "store", "report"} \cup InHandler
Frame == [sig : Sigs, pc : Pcs, act : Actions, old : SUBSET Sigs]
Stacks == [Threads -> Seq(Frame)]

At(t) == 1..Len(stack[t])

\* The top frame of t becomes g.
Moved(t, g) ==
  /\ stack' \in Stacks
  /\ Len(stack[t]) \in At(t)
  /\ \A u \in Threads : Len(stack'[u]) = Len(stack[u])
  /\ \A u \in Threads : \A i \in At(u) : u # t \/ i # Len(stack[t]) => stack'[u][i] = stack[u][i]
  /\ stack'[t][Len(stack[t])] = g
\* g is pushed on t.
Pushed(t, g) ==
  /\ stack' \in Stacks
  /\ \A u \in Threads : Len(stack'[u]) = IF u = t THEN Len(stack[u]) + 1 ELSE Len(stack[u])
  /\ \A u \in Threads : \A i \in At(u) : stack'[u][i] = stack[u][i]
  /\ stack'[t][Len(stack[t]) + 1] = g
\* The top frame of t is gone.
Popped(t) ==
  /\ stack' \in Stacks
  /\ Len(stack[t]) \in At(t)
  /\ \A u \in Threads : Len(stack'[u]) = IF u = t THEN Len(stack[u]) - 1 ELSE Len(stack[u])
  /\ \A u \in Threads : \A i \in 1..Len(stack'[u]) : stack'[u][i] = stack[u][i]

LEMMA StackFacts ==
  ASSUME stack \in Stacks, NEW t \in Threads
  PROVE  /\ stack[t] \in Seq(Frame) /\ Len(stack[t]) \in Nat
         /\ \A i \in At(t) : stack[t][i] \in Frame
         /\ stack[t] # <<>> => Len(stack[t]) \in At(t) /\ Top(t) \in Frame
         /\ Len(stack[t]) = 0 => stack[t] = <<>>
<1>1. stack[t] \in Seq(Frame)
  BY DEF Stacks
<1>2. /\ Len(stack[t]) \in Nat /\ \A i \in At(t) : stack[t][i] \in Frame
      /\ stack[t] = <<>> <=> Len(stack[t]) = 0
  BY <1>1, EmptySeq DEF At
<1> QED BY <1>1, <1>2 DEF At, Top

LEMMA Moving ==
  ASSUME stack \in Stacks, NEW t \in Threads, stack[t] # <<>>, NEW g \in Frame,
         stack' = [stack EXCEPT ![t] = [stack[t] EXCEPT ![Len(stack[t])] = g]]
  PROVE  Moved(t, g)
<1>1. stack[t] \in Seq(Frame) /\ Len(stack[t]) \in At(t)
  BY StackFacts
<1> DEFINE q == [stack[t] EXCEPT ![Len(stack[t])] = g]
<1>2. q \in Seq(Frame) /\ Len(q) = Len(stack[t])
      /\ q[Len(stack[t])] = g /\ \A i \in At(t) : i # Len(stack[t]) => q[i] = stack[t][i]
  BY <1>1, ExceptSeq DEF At
<1> HIDE DEF q
<1>3. stack' = [stack EXCEPT ![t] = q]
  BY DEF q
<1> QED BY <1>1, <1>2, <1>3 DEF Moved, Stacks

LEMMA Pushing ==
  ASSUME stack \in Stacks, NEW t \in Threads, NEW g \in Frame, Push(t, g)
  PROVE  Pushed(t, g)
<1>1. stack[t] \in Seq(Frame) /\ Len(stack[t]) \in Nat
  BY StackFacts
<1> DEFINE q == Append(stack[t], g)
<1>2. q \in Seq(Frame) /\ Len(q) = Len(stack[t]) + 1
      /\ q[Len(stack[t]) + 1] = g /\ \A i \in At(t) : q[i] = stack[t][i]
  BY <1>1, AppendProperties DEF At
<1>3. stack' = [stack EXCEPT ![t] = q]
  BY DEF Push
<1> HIDE DEF q
<1> QED BY <1>1, <1>2, <1>3 DEF Pushed, Stacks

LEMMA Popping ==
  ASSUME stack \in Stacks, NEW t \in Threads, stack[t] # <<>>, Pop(t)
  PROVE  Popped(t)
<1>1. stack[t] \in Seq(Frame) /\ Len(stack[t]) \in At(t) /\ Len(stack[t]) \in Nat
  BY StackFacts
<1> DEFINE q == SubSeq(stack[t], 1, Len(stack[t]) - 1)
<1>2. q \in Seq(Frame) /\ Len(q) = Len(stack[t]) - 1
      /\ \A i \in 1..Len(q) : q[i] = stack[t][i]
  BY <1>1, SubSeqProperties DEF At
<1>3. stack' = [stack EXCEPT ![t] = q]
  BY DEF Pop
<1> HIDE DEF q
<1> QED BY <1>1, <1>2, <1>3 DEF Popped, Stacks

\* What a record EXCEPT does to a frame.
To(f, pc) == [f EXCEPT !.pc = pc]
LEMMA ToFrame ==
  ASSUME NEW f \in Frame, NEW pc \in Pcs
  PROVE  /\ To(f, pc) \in Frame /\ To(f, pc).pc = pc /\ To(f, pc).sig = f.sig
         /\ To(f, pc).act = f.act /\ To(f, pc).old = f.old
BY DEF To, Frame

LEMMA Going ==
  ASSUME stack \in Stacks, NEW t \in Threads, stack[t] # <<>>, NEW pc \in Pcs, Goto(t, pc)
  PROVE  Moved(t, To(Top(t), pc)) /\ Top(t) \in Frame
<1>1. Top(t) \in Frame /\ To(Top(t), pc) \in Frame
  BY StackFacts, ToFrame
<1>2. stack' = [stack EXCEPT ![t] = [stack[t] EXCEPT ![Len(stack[t])] = To(Top(t), pc)]]
  BY DEF Goto, Top, To
<1> QED BY <1>1, <1>2, Moving

-----------------------------------------------------------------------------
(* The inductive invariant *)

TypeOK ==
  /\ stack \in Stacks
  /\ table \in [Sigs -> Actions]
  /\ kdisp \in [Sigs -> Kinds]
  /\ mask \in [Threads -> SUBSET Sigs] /\ userMask \in [Threads -> SUBSET Sigs]
  /\ pending \subseteq Sigs
  /\ inherited \in {0, 1, 2}
  /\ sets \in 0..MaxSets
  /\ shots \in [1..MaxSets -> Nat]

\* What is in the middle of a change has nothing above it.
OnTop ==
  \A t \in Threads : \A i \in At(t) :
    stack[t][i].pc \in {"seed", "seeding", "store", "report", "enter", "reset", "tell"}
      => i = Len(stack[t])

\* From handler_mask_enter until its mask is put back, a frame blocks what it
\* says, frames above it keep that for later, and none of them is of a signal it
\* blocks; the first such frame has the program's own mask to put back.
Active(f) == f.pc \in {"call", "run"}
Stops(f) == Blocks(f.sig, f.act)
NestOf(k, blocked, asked) ==
  /\ \A i \in 1..Len(k) : Active(k[i]) => Stops(k[i]) \subseteq blocked
  /\ \A i, j \in 1..Len(k) : i < j /\ Active(k[i]) /\ Active(k[j]) => Stops(k[i]) \subseteq k[j].old
  /\ \A i, j \in 1..Len(k) : i < j /\ Active(k[i]) /\ k[j].pc \in InHandler => k[j].sig \notin Stops(k[i])
  /\ (\A i \in 1..Len(k) : ~Active(k[i])) => blocked = asked
  /\ \A i \in 1..Len(k) : Active(k[i]) /\ (\A j \in 1..Len(k) : j < i => ~Active(k[j])) => k[i].old = asked
Nests == \A t \in Threads : NestOf(stack[t], mask[t], userMask[t])

\* Before the seeding nothing is installed; one thread at a time does it.
Seeds ==
  /\ inherited # 2 =>
       /\ \A s \in Sigs : table[s].h = "dfl" /\ kdisp[s] # "fn"
       /\ \A t \in Threads : \A i \in At(t) : stack[t][i].pc \in {"seed", "seeding"}
  /\ \A t \in Threads : \A i \in At(t) :
       stack[t][i].pc = "seeding" =>
         /\ inherited = 1
         /\ \A u \in Threads : \A j \in At(u) : stack[u][j].pc = "seeding" => u = t

\* A signal that two threads change is noted.
Alone ==
  \A s \in Sigs \ raced : \A t, u \in Threads : Changing(t, s) /\ Changing(u, s) => t = u

\* The kernel's disposition of a signal is the table's, or on its way.
On(f, s, pc) == f.sig = s /\ f.pc = pc
Agree ==
  inherited = 2 => \A s \in Sigs \ raced :
    /\ (\A t \in Threads : \A i \in At(t) :
          ~On(stack[t][i], s, "report") /\ ~On(stack[t][i], s, "tell")) => kdisp[s] = table[s].h
    /\ \A t \in Threads : \A i \in At(t) :
         /\ On(stack[t][i], s, "report") => table[s].h = stack[t][i].act.h
         /\ On(stack[t][i], s, "tell") => table[s].h = "dfl"

\* A call's action is in one place: with the call, in the table (and, until it is
\* reset, with the frame that copied it), with the frame about to call the
\* handler, or used.
Early(f, n) == f.act.id = n /\ f.pc \in {"seed", "seeding", "store"}
Late(f, n) == f.act.id = n /\ f.act.reset /\ f.pc \in {"reset", "tell", "mask", "call"}
Armed(s, n) == table[s].id = n /\ table[s].h = "fn" /\ table[s].reset
Numbered ==
  /\ \A s \in Sigs : table[s].id <= sets
  /\ \A t \in Threads : \A i \in At(t) : stack[t][i].act.id <= sets
  /\ \A n \in 1..MaxSets : n > sets => shots[n] = 0
Before(n) ==
  \A t \in Threads : \A i \in At(t) : Early(stack[t][i], n) =>
    /\ shots[n] = 0
    /\ \A s \in Sigs : table[s].id # n
    /\ \A u \in Threads : \A j \in At(u) :
         /\ ~Late(stack[u][j], n)
         /\ Early(stack[u][j], n) => u = t /\ j = i
After(n) ==
  /\ shots[n] <= 1
  /\ \A s \in Sigs : Armed(s, n) =>
       /\ shots[n] = 0
       /\ \A r \in Sigs : Armed(r, n) => r = s
       /\ \A u \in Threads : \A j \in At(u) :
            Late(stack[u][j], n) => On(stack[u][j], s, "reset")
  /\ \A t \in Threads : \A i \in At(t) : Late(stack[t][i], n) =>
       /\ shots[n] = 0
       /\ \A u \in Threads : \A j \in At(u) : Late(stack[u][j], n) => u = t /\ j = i
Shots == \A n \in 1..MaxSets : Before(n) /\ (raced = {} => After(n))

IInv == TypeOK /\ OnTop /\ Nests /\ Seeds /\ Alone /\ Agree /\ Numbered /\ Shots

-----------------------------------------------------------------------------
(* Types *)

LEMMA TopFacts ==
  ASSUME TypeOK, NEW t \in Threads, NEW pc, pc # "program", In(t, pc)
  PROVE  /\ stack[t] # <<>> /\ Len(stack[t]) \in At(t) /\ stack[t][Len(stack[t])] = Top(t)
         /\ Top(t) \in Frame /\ Top(t).pc = pc /\ Top(t).sig \in Sigs /\ Top(t).act \in Actions
<1>1. stack[t] # <<>> /\ Top(t).pc = pc
  BY DEF In, Pc
<1>2. Len(stack[t]) \in At(t) /\ Top(t) \in Frame
  BY <1>1, StackFacts DEF TypeOK
<1> QED BY <1>1, <1>2 DEF Top, Frame

\* The bits of an action.
LEMMA ActFacts ==
  ASSUME NEW a \in Actions
  PROVE  /\ a.h \in Kinds /\ a.reset \in BOOLEAN /\ a.mask \subseteq Sigs /\ a.id \in 0..MaxSets
         /\ [a EXCEPT !.h = "ign"] \in Actions /\ AfterReset(a) \in Actions
         /\ [a EXCEPT !.h = "ign"].id = a.id /\ AfterReset(a).id = a.id
         /\ [a EXCEPT !.h = "ign"].h = "ign" /\ AfterReset(a).h = "dfl"
BY DEF Actions, Kinds, AfterReset

LEMMA DefaultAct == Default \in Actions /\ Default.id = 0 /\ Default.h = "dfl"
BY SigAssumption DEF Default, Actions, Kinds

LEMMA StopsFacts ==
  ASSUME NEW s \in Sigs, NEW a \in Actions
  PROVE  Blocks(s, a) \subseteq Sigs
BY DEF Blocks, Actions

\* What is pushed.
New(s, a) == [h |-> a.h, reset |-> a.reset, nodefer |-> a.nodefer, mask |-> a.mask, id |-> sets']
Begins(s, a) == [sig |-> s, pc |-> "seed", act |-> New(s, a), old |-> {}]
Enters(s) == [sig |-> s, pc |-> "enter", act |-> Default, old |-> {}]
Copies(f) == [f EXCEPT !.act = table[f.sig], !.pc = AfterCopy(table[f.sig])]
Masked(t, f) == [f EXCEPT !.old = mask[t], !.pc = "call"]

LEMMA SigactionMoves ==
  ASSUME TypeOK, NEW t \in Threads, NEW s \in Sigs \cup {BadSig}, NEW a \in Acts, Sigaction(t, s, a)
  PROVE  /\ s \in Sigs /\ Pushed(t, Begins(s, a)) /\ Begins(s, a) \in Frame
         /\ New(s, a) \in Actions /\ New(s, a).id = sets' /\ sets' = sets + 1 /\ sets' \in 1..MaxSets
         /\ TypeOK'
<1>1. s \in Sigs
  BY DEF Sigaction, Valid
<1>2. sets' = sets + 1 /\ sets' \in 1..MaxSets /\ sets' \in 0..MaxSets
  BY SigAssumption DEF Sigaction, TypeOK
<1>3. New(s, a) \in Actions /\ New(s, a).id = sets'
  BY <1>2, SigAssumption DEF New, Actions, Kinds
<1>4. Begins(s, a) \in Frame
  BY <1>1, <1>3 DEF Begins, Frame, Pcs
<1>5. Pushed(t, Begins(s, a))
  BY <1>4, Pushing DEF Sigaction, Begins, New, TypeOK
<1>6. TypeOK'
  BY <1>2, <1>5 DEF Sigaction, TypeOK, Pushed, libc, kernel
<1> QED BY <1>1, <1>2, <1>3, <1>4, <1>5, <1>6

LEMMA DeliverMoves ==
  ASSUME TypeOK, NEW t \in Threads, NEW s \in Sigs, Deliver(t, s)
  PROVE  /\ Pushed(t, Enters(s)) /\ Enters(s) \in Frame
         /\ TypeOK'
<1>1. Enters(s) \in Frame
  BY DefaultAct DEF Enters, Frame, Pcs, InHandler
<1>2. Pushed(t, Enters(s))
  BY <1>1, Pushing DEF Deliver, Enters, TypeOK
<1>3. TypeOK'
  BY <1>2 DEF Deliver, TypeOK, Pushed, libc, kernel, counts
<1> QED BY <1>1, <1>2, <1>3

LEMMA SeedMoves ==
  ASSUME TypeOK, NEW t \in Threads, Seed(t)
  PROVE  /\ \/ inherited = 2 /\ inherited' = 2 /\ Moved(t, To(Top(t), "store"))
            \/ inherited = 0 /\ inherited' = 1 /\ Moved(t, To(Top(t), "seeding"))
         /\ TypeOK'
<1>1. stack[t] # <<>> /\ stack \in Stacks
  BY TopFacts DEF Seed, TypeOK
<1>2. "store" \in Pcs /\ "seeding" \in Pcs
  BY DEF Pcs
<1>3. \/ inherited = 2 /\ inherited' = 2 /\ Moved(t, To(Top(t), "store"))
      \/ inherited = 0 /\ inherited' = 1 /\ Moved(t, To(Top(t), "seeding"))
  BY <1>1, <1>2, Going DEF Seed
<1>4. TypeOK'
  BY <1>3 DEF Seed, TypeOK, Moved, libc, kernel, counts
<1> QED BY <1>3, <1>4

LEMMA SeedingMoves ==
  ASSUME TypeOK, NEW t \in Threads, Seeding(t)
  PROVE  /\ Moved(t, To(Top(t), "store")) /\ inherited' = 2
         /\ TypeOK'
<1>1. stack[t] # <<>> /\ stack \in Stacks
  BY TopFacts DEF Seeding, TypeOK
<1>2. Moved(t, To(Top(t), "store"))
  BY <1>1, Going DEF Seeding, Pcs
<1>3. PICK ok \in BOOLEAN :
        /\ table' = [s \in Sigs |-> IF ok /\ kdisp[s] = "ign" /\ table[s].h = "dfl"
                                      THEN [table[s] EXCEPT !.h = "ign"] ELSE table[s]]
        /\ inherited' = Seeded(ok)
  BY DEF Seeding
<1>4. table' \in [Sigs -> Actions]
  BY <1>3, ActFacts DEF TypeOK
<1>5. inherited' = 2
  BY <1>3 DEF Seeded
<1>6. TypeOK'
  BY <1>2, <1>4, <1>5 DEF Seeding, TypeOK, Moved, libc, kernel, counts
<1> QED BY <1>2, <1>5, <1>6

LEMMA StoreMoves ==
  ASSUME TypeOK, NEW t \in Threads, Store(t)
  PROVE  /\ Moved(t, To(Top(t), "report"))
         /\ TypeOK'
<1>1. stack[t] # <<>> /\ stack \in Stacks /\ Top(t).act \in Actions
  BY TopFacts DEF Store, TypeOK
<1>2. Moved(t, To(Top(t), "report"))
  BY <1>1, Going DEF Store, Pcs
<1>3. table' \in [Sigs -> Actions]
  BY <1>1 DEF Store, TypeOK
<1>4. TypeOK'
  BY <1>2, <1>3 DEF Store, TypeOK, Moved, kernel, counts
<1> QED BY <1>2, <1>4

LEMMA ReportMoves ==
  ASSUME TypeOK, NEW t \in Threads, Report(t)
  PROVE  Popped(t) /\ TypeOK'
<1>1. stack[t] # <<>> /\ stack \in Stacks /\ Top(t).act.h \in Kinds
  BY TopFacts, ActFacts DEF Report, TypeOK
<1>2. Popped(t)
  BY <1>1, Popping DEF Report
<1>3. kdisp' \in [Sigs -> Kinds]
  BY <1>1 DEF Report, TypeOK
<1> QED BY <1>2, <1>3 DEF Report, TypeOK, Popped, libc, counts

LEMMA EnterIgnoredMoves ==
  ASSUME TypeOK, NEW t \in Threads, EnterIgnored(t)
  PROVE  Popped(t) /\ TypeOK'
<1>1. stack[t] # <<>> /\ stack \in Stacks
  BY TopFacts DEF EnterIgnored, TypeOK
<1>2. Popped(t)
  BY <1>1, Popping DEF EnterIgnored
<1> QED BY <1>2 DEF EnterIgnored, TypeOK, Popped, libc, kernel, counts

LEMMA LeaveMoves ==
  ASSUME TypeOK, NEW t \in Threads, Leave(t)
  PROVE  Popped(t) /\ TypeOK'
<1>1. stack[t] # <<>> /\ stack \in Stacks
  BY TopFacts DEF Leave, TypeOK
<1>2. Popped(t)
  BY <1>1, Popping DEF Leave
<1> QED BY <1>2 DEF Leave, TypeOK, Popped, libc, kernel, counts

LEMMA CopiesFacts ==
  ASSUME TypeOK, NEW f \in Frame
  PROVE  /\ Copies(f) \in Frame /\ Copies(f).sig = f.sig /\ Copies(f).act = table[f.sig]
         /\ Copies(f).pc = AfterCopy(table[f.sig]) /\ table[f.sig] \in Actions
<1>1. table[f.sig] \in Actions /\ f.sig \in Sigs
  BY DEF TypeOK, Frame
<1>2. AfterCopy(table[f.sig]) \in Pcs
  BY DEF AfterCopy, Pcs, InHandler
<1> QED BY <1>1, <1>2 DEF Copies, Frame

LEMMA EnterHandlerMoves ==
  ASSUME TypeOK, NEW t \in Threads, EnterHandler(t)
  PROVE  Moved(t, Copies(Top(t))) /\ TypeOK'
<1>1. stack[t] # <<>> /\ stack \in Stacks /\ Top(t) \in Frame
  BY TopFacts DEF EnterHandler, TypeOK
<1>2. Copies(Top(t)) \in Frame
  BY <1>1, CopiesFacts
<1>3. stack' = [stack EXCEPT ![t] = [stack[t] EXCEPT ![Len(stack[t])] = Copies(Top(t))]]
  BY <1>1 DEF EnterHandler, Copies, Top
<1>4. Moved(t, Copies(Top(t)))
  BY <1>1, <1>2, <1>3, Moving
<1> QED BY <1>4 DEF EnterHandler, TypeOK, Moved, libc, kernel, counts

LEMMA ResetMoves ==
  ASSUME TypeOK, NEW t \in Threads, Reset(t)
  PROVE  Moved(t, To(Top(t), "tell")) /\ TypeOK'
<1>1. stack[t] # <<>> /\ stack \in Stacks /\ Top(t).sig \in Sigs
  BY TopFacts DEF Reset, TypeOK
<1>2. Moved(t, To(Top(t), "tell"))
  BY <1>1, Going DEF Reset, Pcs, InHandler
<1>3. table' \in [Sigs -> Actions]
  BY <1>1, ActFacts DEF Reset, TypeOK
<1> QED BY <1>2, <1>3 DEF Reset, TypeOK, Moved, kernel, counts

LEMMA TellMoves ==
  ASSUME TypeOK, NEW t \in Threads, Tell(t)
  PROVE  Moved(t, To(Top(t), "mask")) /\ TypeOK'
<1>1. stack[t] # <<>> /\ stack \in Stacks
  BY TopFacts DEF Tell, TypeOK
<1>2. Moved(t, To(Top(t), "mask"))
  BY <1>1, Going DEF Tell, Pcs, InHandler
<1>3. kdisp' \in [Sigs -> Kinds]
  BY DEF Tell, Told, TypeOK, Kinds
<1> QED BY <1>2, <1>3 DEF Tell, TypeOK, Moved, libc, counts

LEMMA MaskedFacts ==
  ASSUME TypeOK, NEW t \in Threads, NEW f \in Frame
  PROVE  /\ Masked(t, f) \in Frame /\ Masked(t, f).sig = f.sig /\ Masked(t, f).act = f.act
         /\ Masked(t, f).pc = "call" /\ Masked(t, f).old = mask[t]
<1>1. mask[t] \in SUBSET Sigs /\ "call" \in Pcs
  BY DEF TypeOK, Pcs, InHandler
<1> QED BY <1>1 DEF Masked, Frame

LEMMA MaskEnterMoves ==
  ASSUME TypeOK, NEW t \in Threads, MaskEnter(t)
  PROVE  Moved(t, Masked(t, Top(t))) /\ TypeOK'
<1>1. stack[t] # <<>> /\ stack \in Stacks /\ Top(t) \in Frame
  BY TopFacts DEF MaskEnter, TypeOK
<1>2. Masked(t, Top(t)) \in Frame
  BY <1>1, MaskedFacts
<1>3. stack' = [stack EXCEPT ![t] = [stack[t] EXCEPT ![Len(stack[t])] = Masked(t, Top(t))]]
  BY <1>1 DEF MaskEnter, Masked, Top
<1>4. Moved(t, Masked(t, Top(t)))
  BY <1>1, <1>2, <1>3, Moving
<1>5. Blocks(Top(t).sig, Top(t).act) \subseteq Sigs
  BY <1>1, StopsFacts DEF Frame
<1>6. mask' \in [Threads -> SUBSET Sigs]
  BY <1>5 DEF MaskEnter, TypeOK
<1> QED BY <1>4, <1>6 DEF MaskEnter, TypeOK, Moved, libc, counts

LEMMA CallMoves ==
  ASSUME TypeOK, NEW t \in Threads, Call(t)
  PROVE  Moved(t, To(Top(t), "run")) /\ TypeOK'
<1>1. stack[t] # <<>> /\ stack \in Stacks
  BY TopFacts DEF Call, TypeOK
<1>2. Moved(t, To(Top(t), "run"))
  BY <1>1, Going DEF Call, Pcs, InHandler
<1>3. shots' \in [1..MaxSets -> Nat]
  <2>1. shots \in [1..MaxSets -> Nat] /\ \A n \in 1..MaxSets : shots[n] + 1 \in Nat
    BY DEF TypeOK
  <2>2. [shots EXCEPT ![Top(t).act.id] = @ + 1] \in [1..MaxSets -> Nat]
    BY <2>1, Zenon
  <2> QED BY <2>1, <2>2 DEF Call
<1> QED BY <1>2, <1>3 DEF Call, TypeOK, Moved, libc, kernel, counts

LEMMA ReturnMoves ==
  ASSUME TypeOK, NEW t \in Threads, Return(t)
  PROVE  Moved(t, To(Top(t), "leave")) /\ TypeOK'
<1>1. stack[t] # <<>> /\ stack \in Stacks /\ Top(t) \in Frame
  BY TopFacts DEF Return, TypeOK
<1>2. Moved(t, To(Top(t), "leave"))
  BY <1>1, Going DEF Return, Pcs, InHandler
<1>3. mask' \in [Threads -> SUBSET Sigs]
  BY <1>1 DEF Return, Restored, TypeOK, Frame
<1> QED BY <1>2, <1>3 DEF Return, TypeOK, Moved, libc, counts

-----------------------------------------------------------------------------
(* What a move keeps *)

\* Nothing is above what is in the middle of a change.
Tips == {"seed", "seeding", "store", "report", "enter", "reset", "tell"}

LEMMA MovedOnTop ==
  ASSUME TypeOK, OnTop, NEW t \in Threads, NEW g, Moved(t, g)
  PROVE  OnTop'
BY DEF OnTop, Moved, At

LEMMA PushedOnTop ==
  ASSUME TypeOK, OnTop, NEW t \in Threads, NEW g, Pushed(t, g), Pc(t) \notin Tips
  PROVE  OnTop'
<1> SUFFICES ASSUME NEW u \in Threads, NEW i \in 1..Len(stack'[u]), stack'[u][i].pc \in Tips
             PROVE  i = Len(stack'[u])
  BY DEF OnTop, At, Tips
<1>1. Len(stack[u]) \in Nat /\ (Len(stack[u]) = 0 => stack[u] = <<>>)
  BY StackFacts DEF TypeOK
<1>2. CASE u # t \/ i # Len(stack[u]) + 1
  <2>1. i \in At(u) /\ stack'[u][i] = stack[u][i]
    BY <1>1, <1>2 DEF Pushed, At
  <2>2. i = Len(stack[u])
    BY <2>1 DEF OnTop, Tips
  <2>3. CASE u = t
    <3>1. stack[t] # <<>> /\ Pc(t) = stack[t][i].pc
      BY <2>1, <2>2, <2>3, <1>1, EmptySeq DEF Pc, Top, At
    <3> QED BY <3>1, <2>1, <2>3
  <2>4. CASE u # t
    BY <2>2, <2>4 DEF Pushed
  <2> QED BY <2>3, <2>4
<1>3. CASE u = t /\ i = Len(stack[u]) + 1
  BY <1>3 DEF Pushed
<1> QED BY <1>2, <1>3

LEMMA PoppedOnTop ==
  ASSUME TypeOK, OnTop, NEW t \in Threads, Popped(t)
  PROVE  OnTop'
<1> SUFFICES ASSUME NEW u \in Threads, NEW i \in 1..Len(stack'[u]), stack'[u][i].pc \in Tips
             PROVE  i = Len(stack'[u])
  BY DEF OnTop, At, Tips
<1>1. Len(stack[u]) \in Nat
  BY StackFacts DEF TypeOK
<1>2. i \in At(u) /\ stack'[u][i] = stack[u][i]
  BY <1>1 DEF Popped, At
<1>3. i = Len(stack[u])
  BY <1>2 DEF OnTop, Tips
<1> QED BY <1>1, <1>2, <1>3 DEF Popped, At

\* The frames of a handler nest as they did when one of them only moves on,
LEMMA NestMoved ==
  ASSUME NEW k, NEW l, NEW m, NEW w, NestOf(k, m, w), Len(k) \in Nat, Len(l) = Len(k),
         \A i \in 1..Len(k) :
           /\ l[i].sig = k[i].sig /\ (l[i].pc \in InHandler => k[i].pc \in InHandler)
           /\ Active(l[i]) <=> Active(k[i])
           /\ Active(l[i]) => l[i].act = k[i].act /\ l[i].old = k[i].old
  PROVE  NestOf(l, m, w)
<1> DEFINE n == Len(k)
<1>1. \A i \in 1..n : Active(l[i]) => Active(k[i]) /\ Stops(l[i]) = Stops(k[i]) /\ l[i].old = k[i].old
  BY DEF Stops
<1>2. \A i \in 1..n : /\ Active(l[i]) <=> Active(k[i])
                      /\ l[i].sig = k[i].sig /\ (l[i].pc \in InHandler => k[i].pc \in InHandler)
  OBVIOUS
<1>3. /\ \A i \in 1..n : Active(k[i]) => Stops(k[i]) \subseteq m
      /\ \A i, j \in 1..n : i < j /\ Active(k[i]) /\ Active(k[j]) => Stops(k[i]) \subseteq k[j].old
      /\ \A i, j \in 1..n : i < j /\ Active(k[i]) /\ k[j].pc \in InHandler => k[j].sig \notin Stops(k[i])
      /\ (\A i \in 1..n : ~Active(k[i])) => m = w
      /\ \A i \in 1..n : Active(k[i]) /\ (\A j \in 1..n : j < i => ~Active(k[j])) => k[i].old = w
  BY DEF NestOf
<1>9. Len(l) = n
  OBVIOUS
<1> HIDE DEF n
<1>4. \A i \in 1..n : Active(l[i]) => Stops(l[i]) \subseteq m
  BY <1>1, <1>3
<1>5. \A i, j \in 1..n : i < j /\ Active(l[i]) /\ Active(l[j]) => Stops(l[i]) \subseteq l[j].old
  BY <1>1, <1>3
<1>6. \A i, j \in 1..n : i < j /\ Active(l[i]) /\ l[j].pc \in InHandler => l[j].sig \notin Stops(l[i])
  BY <1>1, <1>2, <1>3
<1>7. (\A i \in 1..n : ~Active(l[i])) => m = w
  BY <1>2, <1>3
<1>8. \A i \in 1..n : Active(l[i]) /\ (\A j \in 1..n : j < i => ~Active(l[j])) => l[i].old = w
  BY <1>1, <1>2, <1>3
<1> QED BY <1>4, <1>5, <1>6, <1>7, <1>8, <1>9, Zenon DEF NestOf

\* when one that is not active is pushed, of a signal that is not blocked,
LEMMA NestPushed ==
  ASSUME NEW k, NEW l, NEW m, NEW w, NestOf(k, m, w), Len(k) \in Nat, Len(l) = Len(k) + 1,
         \A i \in 1..Len(k) : l[i] = k[i],
         ~Active(l[Len(l)]), l[Len(l)].pc \in InHandler => l[Len(l)].sig \notin m
  PROVE  NestOf(l, m, w)
<1> DEFINE n == Len(k)
<1>1. \A i \in 1..Len(l) : (i \in 1..n /\ l[i] = k[i]) \/ i = Len(l)
  OBVIOUS
<1>2. /\ \A i \in 1..n : Active(k[i]) => Stops(k[i]) \subseteq m
      /\ \A i, j \in 1..n : i < j /\ Active(k[i]) /\ Active(k[j]) => Stops(k[i]) \subseteq k[j].old
      /\ \A i, j \in 1..n : i < j /\ Active(k[i]) /\ k[j].pc \in InHandler => k[j].sig \notin Stops(k[i])
      /\ (\A i \in 1..n : ~Active(k[i])) => m = w
      /\ \A i \in 1..n : Active(k[i]) /\ (\A j \in 1..n : j < i => ~Active(k[j])) => k[i].old = w
  BY DEF NestOf
<1>3. \A i \in 1..n : i \in 1..Len(l) /\ l[i] = k[i] /\ i < Len(l)
  OBVIOUS
<1> HIDE DEF n
<1>4. \A i \in 1..Len(l) : Active(l[i]) => i \in 1..n /\ l[i] = k[i] /\ Active(k[i])
  BY <1>1
<1>5. \A i \in 1..Len(l) : Active(l[i]) => Stops(l[i]) \subseteq m
  BY <1>2, <1>4
<1>6. \A i, j \in 1..Len(l) : i < j /\ Active(l[i]) /\ Active(l[j]) => Stops(l[i]) \subseteq l[j].old
  BY <1>2, <1>4
<1>7. ASSUME NEW i \in 1..Len(l), NEW j \in 1..Len(l), i < j, Active(l[i]), l[j].pc \in InHandler
      PROVE  l[j].sig \notin Stops(l[i])
  <2>1. CASE j \in 1..n /\ l[j] = k[j]
    BY <1>2, <1>4, <1>7, <2>1
  <2>2. CASE j = Len(l)
    BY <1>2, <1>4, <1>7, <2>2
  <2> QED BY <1>1, <2>1, <2>2
<1>8. (\A i \in 1..Len(l) : ~Active(l[i])) => m = w
  BY <1>2, <1>3
<1>9. \A i \in 1..Len(l) : Active(l[i]) /\ (\A j \in 1..Len(l) : j < i => ~Active(l[j])) => l[i].old = w
  BY <1>2, <1>3, <1>4
<1> QED BY <1>5, <1>6, <1>7, <1>8, <1>9, Zenon DEF NestOf

\* and when one that is not active goes.
LEMMA NestPopped ==
  ASSUME NEW k, NEW l, NEW m, NEW w, NestOf(k, m, w), Len(k) \in Nat, Len(l) = Len(k) - 1,
         \A i \in 1..Len(l) : l[i] = k[i],
         Len(k) \in 1..Len(k), ~Active(k[Len(k)])
  PROVE  NestOf(l, m, w)
<1> DEFINE n == Len(k)
<1>1. \A i \in 1..Len(l) : i \in 1..n /\ l[i] = k[i]
  OBVIOUS
<1>2. /\ \A i \in 1..n : Active(k[i]) => Stops(k[i]) \subseteq m
      /\ \A i, j \in 1..n : i < j /\ Active(k[i]) /\ Active(k[j]) => Stops(k[i]) \subseteq k[j].old
      /\ \A i, j \in 1..n : i < j /\ Active(k[i]) /\ k[j].pc \in InHandler => k[j].sig \notin Stops(k[i])
      /\ (\A i \in 1..n : ~Active(k[i])) => m = w
      /\ \A i \in 1..n : Active(k[i]) /\ (\A j \in 1..n : j < i => ~Active(k[j])) => k[i].old = w
  BY DEF NestOf
<1>3. \A i \in 1..n : Active(k[i]) => i \in 1..Len(l)
  OBVIOUS
<1> HIDE DEF n
<1>4. \A i \in 1..Len(l) : Active(l[i]) => Stops(l[i]) \subseteq m
  BY <1>1, <1>2
<1>5. \A i, j \in 1..Len(l) : i < j /\ Active(l[i]) /\ Active(l[j]) => Stops(l[i]) \subseteq l[j].old
  BY <1>1, <1>2
<1>6. \A i, j \in 1..Len(l) : i < j /\ Active(l[i]) /\ l[j].pc \in InHandler => l[j].sig \notin Stops(l[i])
  BY <1>1, <1>2
<1>7. (\A i \in 1..Len(l) : ~Active(l[i])) => m = w
  BY <1>1, <1>2, <1>3
<1>8. \A i \in 1..Len(l) : Active(l[i]) /\ (\A j \in 1..Len(l) : j < i => ~Active(l[j])) => l[i].old = w
  BY <1>1, <1>2, <1>3
<1> QED BY <1>4, <1>5, <1>6, <1>7, <1>8, Zenon DEF NestOf

\* handler_mask_enter makes the top frame active,
LEMMA NestMasked ==
  ASSUME NEW k, NEW l, NEW m, NEW w, NestOf(k, m, w), Len(k) \in Nat, Len(l) = Len(k),
         Len(k) \in 1..Len(k), \A i \in 1..Len(k) : i # Len(k) => l[i] = k[i],
         ~Active(k[Len(k)]), k[Len(k)].pc \in InHandler, Active(l[Len(k)]),
         l[Len(k)].sig = k[Len(k)].sig, l[Len(k)].old = m
  PROVE  NestOf(l, m \cup Stops(l[Len(k)]), w)
<1> DEFINE n == Len(k) g == l[n]
<1>1. /\ \A i \in 1..n : (l[i] = k[i] /\ i < n) \/ i = n
      /\ \A i, j \in 1..n : i < j => l[i] = k[i] /\ i < n
  OBVIOUS
<1>2. /\ \A i \in 1..n : Active(k[i]) => Stops(k[i]) \subseteq m
      /\ \A i, j \in 1..n : i < j /\ Active(k[i]) /\ Active(k[j]) => Stops(k[i]) \subseteq k[j].old
      /\ \A i, j \in 1..n : i < j /\ Active(k[i]) /\ k[j].pc \in InHandler => k[j].sig \notin Stops(k[i])
      /\ (\A i \in 1..n : ~Active(k[i])) => m = w
      /\ \A i \in 1..n : Active(k[i]) /\ (\A j \in 1..n : j < i => ~Active(k[j])) => k[i].old = w
  BY DEF NestOf
<1>3. /\ Len(l) = n /\ n \in 1..n /\ ~Active(k[n]) /\ k[n].pc \in InHandler
      /\ g = l[n] /\ Active(g) /\ g.sig = k[n].sig /\ g.old = m
  OBVIOUS
<1> HIDE DEF n, g
<1>4. \A i \in 1..n : Active(l[i]) => Stops(l[i]) \subseteq m \cup Stops(g)
  BY <1>1, <1>2, <1>3
<1>5. ASSUME NEW i \in 1..n, NEW j \in 1..n, i < j, Active(l[i]), Active(l[j])
      PROVE  Stops(l[i]) \subseteq l[j].old
  BY <1>1, <1>2, <1>3, <1>5
<1>6. ASSUME NEW i \in 1..n, NEW j \in 1..n, i < j, Active(l[i]), l[j].pc \in InHandler
      PROVE  l[j].sig \notin Stops(l[i])
  BY <1>1, <1>2, <1>3, <1>6
<1>7. (\A i \in 1..n : ~Active(l[i])) => m \cup Stops(g) = w
  BY <1>3
<1>8. ASSUME NEW i \in 1..n, Active(l[i]), \A j \in 1..n : j < i => ~Active(l[j])
      PROVE  l[i].old = w
  <2>1. CASE i < n /\ l[i] = k[i]
    BY <1>1, <1>2, <1>8, <2>1
  <2>2. CASE i = n
    <3>1. \A j \in 1..n : ~Active(k[j])
      BY <1>1, <1>3, <1>8, <2>2
    <3>2. m = w
      BY <1>2, <3>1
    <3> QED BY <1>3, <2>2, <3>2
  <2> QED BY <1>1, <2>1, <2>2
<1>9. NestOf(l, m \cup Stops(g), w)
  BY <1>3, <1>4, <1>5, <1>6, <1>7, <1>8, Zenon DEF NestOf
<1> QED BY <1>9 DEF g, n

\* and the way back puts back what it found.
LEMMA NestReturned ==
  ASSUME NEW k, NEW l, NEW m, NEW w, NestOf(k, m, w), Len(k) \in Nat, Len(l) = Len(k),
         Len(k) \in 1..Len(k), \A i \in 1..Len(k) : i # Len(k) => l[i] = k[i],
         Active(k[Len(k)]), k[Len(k)].pc \in InHandler, ~Active(l[Len(k)]),
         l[Len(k)].sig = k[Len(k)].sig
  PROVE  NestOf(l, k[Len(k)].old, w)
<1> DEFINE n == Len(k)
<1>1. /\ \A i \in 1..n : (l[i] = k[i] /\ i < n) \/ i = n
      /\ \A i, j \in 1..n : i < j => l[i] = k[i] /\ i < n
  OBVIOUS
<1>2. /\ \A i \in 1..n : Active(k[i]) => Stops(k[i]) \subseteq m
      /\ \A i, j \in 1..n : i < j /\ Active(k[i]) /\ Active(k[j]) => Stops(k[i]) \subseteq k[j].old
      /\ \A i, j \in 1..n : i < j /\ Active(k[i]) /\ k[j].pc \in InHandler => k[j].sig \notin Stops(k[i])
      /\ (\A i \in 1..n : ~Active(k[i])) => m = w
      /\ \A i \in 1..n : Active(k[i]) /\ (\A j \in 1..n : j < i => ~Active(k[j])) => k[i].old = w
  BY DEF NestOf
<1>3. Len(l) = n /\ n \in 1..n /\ Active(k[n]) /\ k[n].pc \in InHandler /\ ~Active(l[n]) /\ l[n].sig = k[n].sig
  OBVIOUS
<1> HIDE DEF n
<1>a. \A i \in 1..n : Active(l[i]) => i < n /\ l[i] = k[i]
  BY <1>1, <1>3
<1>4. \A i \in 1..n : Active(l[i]) => Stops(l[i]) \subseteq k[n].old
  BY <1>2, <1>3, <1>a
<1>5. \A i, j \in 1..n : i < j /\ Active(l[i]) /\ Active(l[j]) => Stops(l[i]) \subseteq l[j].old
  BY <1>2, <1>a
<1>6. ASSUME NEW i \in 1..n, NEW j \in 1..n, i < j, Active(l[i]), l[j].pc \in InHandler
      PROVE  l[j].sig \notin Stops(l[i])
  BY <1>1, <1>2, <1>3, <1>6
<1>7. (\A i \in 1..n : ~Active(l[i])) => k[n].old = w
  BY <1>1, <1>2, <1>3
<1>8. \A i \in 1..n : Active(l[i]) /\ (\A j \in 1..n : j < i => ~Active(l[j])) => l[i].old = w
  BY <1>1, <1>2, <1>a
<1>9. NestOf(l, k[n].old, w)
  BY <1>3, <1>4, <1>5, <1>6, <1>7, <1>8, Zenon DEF NestOf
<1> QED BY <1>9 DEF n

\* A step of t disturbs no other thread.
LEMMA NestElsewhere ==
  ASSUME TypeOK, Nests, NEW t \in Threads,
         \A u \in Threads : u # t =>
           /\ Len(stack'[u]) = Len(stack[u]) /\ \A i \in At(u) : stack'[u][i] = stack[u][i]
           /\ mask'[u] = mask[u] /\ userMask'[u] = userMask[u],
         NestOf(stack'[t], mask'[t], userMask'[t])
  PROVE  Nests'
<1> SUFFICES ASSUME NEW u \in Threads, u # t PROVE NestOf(stack'[u], mask'[u], userMask'[u])
  BY DEF Nests
<1>1. NestOf(stack[u], mask[u], userMask[u]) /\ Len(stack[u]) \in Nat
  BY StackFacts DEF Nests, TypeOK
<1>2. Len(stack'[u]) = Len(stack[u]) /\ \A i \in 1..Len(stack[u]) : stack'[u][i] = stack[u][i]
  BY DEF At
<1>3. \A i \in 1..Len(stack[u]) :
         LET f == stack'[u][i] g == stack[u][i] IN
           /\ f.sig = g.sig /\ (f.pc \in InHandler => g.pc \in InHandler)
           /\ Active(f) <=> Active(g)
           /\ Active(f) => f.act = g.act /\ f.old = g.old
  BY <1>2
<1>4. NestOf(stack'[u], mask[u], userMask[u])
  BY <1>1, <1>2, <1>3, NestMoved
<1> QED BY <1>4

LEMMA NestsMoved ==
  ASSUME TypeOK, Nests, NEW t \in Threads, NEW g, Moved(t, g), UNCHANGED <<mask, userMask>>,
         g.sig = Top(t).sig, g.pc \in InHandler => Top(t).pc \in InHandler,
         Active(g) <=> Active(Top(t)), Active(g) => g.act = Top(t).act /\ g.old = Top(t).old
  PROVE  Nests'
<1>1. NestOf(stack[t], mask[t], userMask[t]) /\ Len(stack[t]) \in Nat
  BY StackFacts DEF Nests, TypeOK
<1>2. Len(stack'[t]) = Len(stack[t])
  BY DEF Moved
<1>3. ASSUME NEW i \in 1..Len(stack[t])
      PROVE  LET f == stack'[t][i] h == stack[t][i] IN
           /\ f.sig = h.sig /\ (f.pc \in InHandler => h.pc \in InHandler)
           /\ Active(f) <=> Active(h)
           /\ Active(f) => f.act = h.act /\ f.old = h.old
  <2>1. CASE i = Len(stack[t])
    <3>1. stack[t][i] = Top(t) /\ stack'[t][i] = g
      BY <2>1 DEF Moved, Top
    <3> QED BY <3>1
  <2>2. CASE i # Len(stack[t])
    <3>1. stack'[t][i] = stack[t][i]
      BY <2>2 DEF Moved, At
    <3> QED BY <3>1
  <2> QED BY <2>1, <2>2
<1>4. NestOf(stack'[t], mask[t], userMask[t])
  BY <1>1, <1>2, <1>3, NestMoved
<1>5. \A u \in Threads : u # t =>
        Len(stack'[u]) = Len(stack[u]) /\ \A i \in At(u) : stack'[u][i] = stack[u][i]
  BY DEF Moved
<1> QED BY <1>4, <1>5, NestElsewhere

LEMMA NestsPushed ==
  ASSUME TypeOK, Nests, NEW t \in Threads, NEW g, Pushed(t, g), UNCHANGED <<mask, userMask>>,
         ~Active(g), g.pc \in InHandler => g.sig \notin mask[t]
  PROVE  Nests'
<1>1. NestOf(stack[t], mask[t], userMask[t]) /\ Len(stack[t]) \in Nat
  BY StackFacts DEF Nests, TypeOK
<1>2. /\ Len(stack'[t]) = Len(stack[t]) + 1 /\ \A i \in 1..Len(stack[t]) : stack'[t][i] = stack[t][i]
      /\ stack'[t][Len(stack[t]) + 1] = g
  BY DEF Pushed, At
<1>a. stack'[t][Len(stack'[t])] = g
  BY <1>2
<1>3. NestOf(stack'[t], mask[t], userMask[t])
  BY <1>1, <1>2, <1>a, NestPushed
<1>4. \A u \in Threads : u # t =>
        Len(stack'[u]) = Len(stack[u]) /\ \A i \in At(u) : stack'[u][i] = stack[u][i]
  BY DEF Pushed
<1> QED BY <1>3, <1>4, NestElsewhere

LEMMA NestsPopped ==
  ASSUME TypeOK, Nests, NEW t \in Threads, Popped(t), UNCHANGED <<mask, userMask>>, ~Active(Top(t))
  PROVE  Nests'
<1>1. NestOf(stack[t], mask[t], userMask[t]) /\ Len(stack[t]) \in Nat
  BY StackFacts DEF Nests, TypeOK
<1>2. /\ Len(stack'[t]) = Len(stack[t]) - 1 /\ \A i \in 1..Len(stack'[t]) : stack'[t][i] = stack[t][i]
      /\ Len(stack[t]) \in 1..Len(stack[t]) /\ ~Active(stack[t][Len(stack[t])])
  BY DEF Popped, At, Top
<1>3. NestOf(stack'[t], mask[t], userMask[t])
  BY <1>1, <1>2, NestPopped
<1>4. \A u \in Threads : u # t => Len(stack'[u]) = Len(stack[u])
  BY DEF Popped
<1>5. \A u \in Threads : u # t => \A i \in At(u) : stack'[u][i] = stack[u][i]
  BY <1>4 DEF Popped, At
<1> QED BY <1>3, <1>4, <1>5, NestElsewhere

LEMMA NestsMasked ==
  ASSUME TypeOK, Nests, NEW t \in Threads, MaskEnter(t)
  PROVE  Nests'
<1>1. NestOf(stack[t], mask[t], userMask[t]) /\ Len(stack[t]) \in Nat /\ mask \in [Threads -> SUBSET Sigs]
  BY StackFacts DEF Nests, TypeOK
<1>2. Moved(t, Masked(t, Top(t)))
  BY MaskEnterMoves
<1>3. Top(t).pc = "mask" /\ Top(t) \in Frame /\ stack[t][Len(stack[t])] = Top(t) /\ Len(stack[t]) \in At(t)
  BY TopFacts DEF MaskEnter
<1> DEFINE g == Masked(t, Top(t))
<1>4. g.sig = Top(t).sig /\ g.act = Top(t).act /\ g.pc = "call" /\ g.old = mask[t]
  BY <1>3, MaskedFacts
<1>5. mask'[t] = mask[t] \cup Stops(g) /\ userMask' = userMask
      /\ \A u \in Threads : u # t => mask'[u] = mask[u]
  BY <1>1, <1>4 DEF MaskEnter, Stops
<1>6. /\ Len(stack'[t]) = Len(stack[t]) /\ stack'[t][Len(stack[t])] = g
      /\ \A i \in 1..Len(stack[t]) : i # Len(stack[t]) => stack'[t][i] = stack[t][i]
  BY <1>2 DEF Moved, At
<1>7. /\ Len(stack[t]) \in 1..Len(stack[t]) /\ ~Active(stack[t][Len(stack[t])])
      /\ stack[t][Len(stack[t])].pc \in InHandler /\ Active(g)
      /\ g.sig = stack[t][Len(stack[t])].sig
  BY <1>3, <1>4 DEF Active, InHandler, At
<1>8. NestOf(stack'[t], mask[t] \cup Stops(stack'[t][Len(stack[t])]), userMask[t])
  BY <1>1, <1>4, <1>6, <1>7, NestMasked
<1>9. NestOf(stack'[t], mask'[t], userMask'[t])
  BY <1>5, <1>6, <1>8
<1>10. \A u \in Threads : u # t =>
        Len(stack'[u]) = Len(stack[u]) /\ \A i \in At(u) : stack'[u][i] = stack[u][i]
  BY <1>2 DEF Moved
<1> QED BY <1>5, <1>9, <1>10, NestElsewhere

LEMMA NestsReturned ==
  ASSUME TypeOK, Nests, NEW t \in Threads, Return(t)
  PROVE  Nests'
<1>1. NestOf(stack[t], mask[t], userMask[t]) /\ Len(stack[t]) \in Nat /\ mask \in [Threads -> SUBSET Sigs]
  BY StackFacts DEF Nests, TypeOK
<1>2. Moved(t, To(Top(t), "leave"))
  BY ReturnMoves
<1>3. Top(t).pc = "run" /\ Top(t) \in Frame /\ stack[t][Len(stack[t])] = Top(t) /\ Len(stack[t]) \in At(t)
  BY TopFacts DEF Return
<1> DEFINE g == To(Top(t), "leave")
<1>4. g.sig = Top(t).sig /\ g.pc = "leave"
  BY <1>3, ToFrame DEF Pcs, InHandler
<1>5. mask'[t] = stack[t][Len(stack[t])].old /\ userMask' = userMask
      /\ \A u \in Threads : u # t => mask'[u] = mask[u]
  BY <1>1, <1>3 DEF Return, Restored
<1>6. /\ Len(stack'[t]) = Len(stack[t]) /\ stack'[t][Len(stack[t])] = g
      /\ \A i \in 1..Len(stack[t]) : i # Len(stack[t]) => stack'[t][i] = stack[t][i]
  BY <1>2 DEF Moved, At
<1>7. /\ Len(stack[t]) \in 1..Len(stack[t]) /\ Active(stack[t][Len(stack[t])])
      /\ stack[t][Len(stack[t])].pc \in InHandler /\ ~Active(g)
      /\ g.sig = stack[t][Len(stack[t])].sig
  BY <1>3, <1>4 DEF Active, InHandler, At
<1>8. NestOf(stack'[t], stack[t][Len(stack[t])].old, userMask[t])
  BY <1>1, <1>6, <1>7, NestReturned
<1>9. NestOf(stack'[t], mask'[t], userMask'[t])
  BY <1>5, <1>8
<1>10. \A u \in Threads : u # t =>
        Len(stack'[u]) = Len(stack[u]) /\ \A i \in At(u) : stack'[u][i] = stack[u][i]
  BY <1>2 DEF Moved
<1> QED BY <1>5, <1>9, <1>10, NestElsewhere

\* The frames of a state are those before the step, but for the one that moved
\* or was pushed.
Old(u, i) == i \in At(u) /\ stack'[u][i] = stack[u][i]
Step(t, g) ==
  \/ Popped(t)
  \/ Moved(t, g)
  \/ Pushed(t, g)
Place(t) == Len(stack'[t])

LEMMA StepFrames ==
  ASSUME TypeOK, NEW t \in Threads, NEW g, Step(t, g)
  PROVE  /\ \A u \in Threads : \A i \in 1..Len(stack'[u]) :
              Old(u, i) \/ (u = t /\ i = Place(t) /\ stack'[u][i] = g /\ ~Popped(t))
         /\ \A u \in Threads : \A i \in At(u) :
              \/ Old(u, i) /\ i \in 1..Len(stack'[u])
              \/ u = t /\ i = Len(stack[t]) /\ stack[u][i] = Top(t) /\ ~Pushed(t, g)
<1>1. \A u \in Threads : Len(stack[u]) \in Nat
  BY StackFacts DEF TypeOK
<1>2. CASE Popped(t)
  <2>1. ~Pushed(t, g)
    BY <1>1, <1>2 DEF Popped, Pushed
  <2>2. \A u \in Threads : \A i \in 1..Len(stack'[u]) : Old(u, i)
    BY <1>1, <1>2 DEF Popped, Old, At
  <2>3. \A u \in Threads : \A i \in At(u) :
          \/ Old(u, i) /\ i \in 1..Len(stack'[u])
          \/ u = t /\ i = Len(stack[t]) /\ stack[u][i] = Top(t)
    BY <1>1, <1>2, <2>2 DEF Popped, At, Top
  <2> QED BY <2>1, <2>2, <2>3
<1>3. CASE Moved(t, g)
  <2>1. ~Pushed(t, g) /\ ~Popped(t) /\ \A u \in Threads : Len(stack'[u]) = Len(stack[u])
    BY <1>1, <1>3 DEF Moved, Pushed, Popped
  <2>2. \A u \in Threads : \A i \in At(u) :
          Old(u, i) \/ (u = t /\ i = Len(stack[t]) /\ stack'[u][i] = g /\ stack[u][i] = Top(t))
    BY <1>3 DEF Moved, Old, Top
  <2> QED BY <2>1, <2>2 DEF Place, At
<1>4. CASE Pushed(t, g)
  <2>1. ~Popped(t)
    BY <1>1, <1>4 DEF Pushed, Popped
  <2>2. \A u \in Threads : \A i \in At(u) : Old(u, i) /\ i \in 1..Len(stack'[u])
    BY <1>1, <1>4 DEF Pushed, Old, At
  <2>3. \A u \in Threads : \A i \in 1..Len(stack'[u]) :
          i \in At(u) \/ (u = t /\ i = Place(t) /\ stack'[u][i] = g)
    BY <1>1, <1>4 DEF Pushed, Place, At
  <2> QED BY <2>1, <2>2, <2>3
<1> QED BY <1>2, <1>3, <1>4 DEF Step

\* Once something is past the seeding it is over.
LEMMA SeedsOver ==
  ASSUME TypeOK, Seeds, inherited = 2, inherited' = 2, NEW t \in Threads, NEW g, Step(t, g),
         g.pc # "seeding"
  PROVE  Seeds'
<1>1. \A u \in Threads : \A i \in At(u) : stack[u][i].pc # "seeding"
  BY DEF Seeds
<1>2. \A u \in Threads : \A i \in 1..Len(stack'[u]) : stack'[u][i].pc # "seeding"
  BY <1>1, StepFrames DEF Old
<1> QED BY <1>2 DEF Seeds, At

Changes == {"report", "reset", "tell"}
LEMMA AloneKept ==
  ASSUME TypeOK, Alone, NEW t \in Threads, NEW g, Step(t, g), raced' = raced,
         g.pc \in Changes /\ ~Popped(t) => Moved(t, g) /\ Top(t).pc \in Changes /\ Top(t).sig = g.sig
  PROVE  Alone'
<1>1. \A u \in Threads : stack[u] \in Seq(Frame) /\ stack'[u] \in Seq(Frame)
  BY DEF TypeOK, Stacks, Step, Moved, Pushed, Popped
<1>2. ASSUME NEW u \in Threads, NEW s \in Sigs, Changing(u, s)'
      PROVE  Changing(u, s)
  <2>1. PICK i \in 1..Len(stack'[u]) : stack'[u][i].sig = s /\ stack'[u][i].pc \in Changes
    BY <1>1, <1>2 DEF Changing, Changes
  <2>2. CASE Old(u, i)
    BY <1>1, <2>1, <2>2 DEF Changing, Changes, Old, At
  <2>3. CASE u = t /\ stack'[u][i] = g /\ ~Popped(t)
    <3>1. Top(t).pc \in Changes /\ Top(t).sig = s /\ Len(stack[t]) \in At(t)
      BY <2>1, <2>3 DEF Moved
    <3> QED BY <1>1, <2>3, <3>1 DEF Changing, Changes, At, Top
  <2> QED BY <2>2, <2>3, StepFrames
<1> QED BY <1>2 DEF Alone

LEMMA AloneNoted ==
  ASSUME Noted
  PROVE  Alone'
BY DEF Noted, Racing, Alone

\* A step that neither changes a disposition nor reports one.
Reports == {"report", "tell"}
LEMMA AgreeKept ==
  ASSUME TypeOK, Agree, NEW t \in Threads, NEW g, Step(t, g), inherited' = inherited,
         raced \subseteq raced', kdisp' = kdisp, table' = table,
         ~Pushed(t, g) => Top(t).pc \notin Reports,
         ~Popped(t) => g.pc \notin Reports
  PROVE  Agree'
<1> SUFFICES ASSUME inherited = 2, NEW s \in Sigs \ raced
             PROVE  /\ (\A u \in Threads : \A i \in 1..Len(stack'[u]) :
                          ~On(stack'[u][i], s, "report") /\ ~On(stack'[u][i], s, "tell"))
                          => kdisp[s] = table[s].h
                    /\ \A u \in Threads : \A i \in 1..Len(stack'[u]) :
                         /\ On(stack'[u][i], s, "report") => table[s].h = stack'[u][i].act.h
                         /\ On(stack'[u][i], s, "tell") => table[s].h = "dfl"
  BY DEF Agree, At, On
<1>1. /\ (\A u \in Threads : \A i \in At(u) :
            ~On(stack[u][i], s, "report") /\ ~On(stack[u][i], s, "tell")) => kdisp[s] = table[s].h
      /\ \A u \in Threads : \A i \in At(u) :
           /\ On(stack[u][i], s, "report") => table[s].h = stack[u][i].act.h
           /\ On(stack[u][i], s, "tell") => table[s].h = "dfl"
  BY DEF Agree
<1>2. \A u \in Threads : \A i \in At(u) :
        On(stack[u][i], s, "report") \/ On(stack[u][i], s, "tell") =>
          i \in 1..Len(stack'[u]) /\ stack'[u][i] = stack[u][i]
  BY StepFrames DEF Old, On, Reports
<1>3. \A u \in Threads : \A i \in 1..Len(stack'[u]) :
        On(stack'[u][i], s, "report") \/ On(stack'[u][i], s, "tell") =>
          i \in At(u) /\ stack'[u][i] = stack[u][i]
  BY StepFrames DEF Old, On, Reports
<1>4. ASSUME \A u \in Threads : \A i \in 1..Len(stack'[u]) :
               ~On(stack'[u][i], s, "report") /\ ~On(stack'[u][i], s, "tell")
      PROVE  kdisp[s] = table[s].h
  BY <1>1, <1>2, <1>4
<1> QED BY <1>1, <1>3, <1>4

LEMMA NumberedKept ==
  ASSUME TypeOK, Numbered, NEW t \in Threads, NEW g, Step(t, g),
         ~Popped(t) => g.act.id <= sets', sets' \in Nat, sets <= sets',
         \A s \in Sigs : table'[s].id <= sets',
         \A n \in 1..MaxSets : n > sets' => shots'[n] = shots[n]
  PROVE  Numbered'
<1>1. \A u \in Threads : \A i \in 1..Len(stack'[u]) : stack'[u][i].act.id <= sets'
  <2> SUFFICES ASSUME NEW u \in Threads, NEW i \in 1..Len(stack'[u])
               PROVE  stack'[u][i].act.id <= sets'
    OBVIOUS
  <2>1. CASE Old(u, i)
    <3>1. i \in At(u) /\ stack \in Stacks
      BY <2>1 DEF Old, TypeOK
    <3>2. stack[u][i].act.id <= sets /\ stack[u][i] \in Frame
      BY <3>1, StackFacts DEF Numbered
    <3>3. stack[u][i].act.id \in 0..MaxSets /\ sets \in 0..MaxSets
      BY <3>2, ActFacts DEF Frame, TypeOK
    <3> QED BY <2>1, <3>2, <3>3 DEF Old
  <2> QED BY <2>1, StepFrames
<1>2. \A n \in 1..MaxSets : n > sets' => shots'[n] = 0
  BY DEF Numbered, TypeOK
<1> QED BY <1>1, <1>2 DEF Numbered, At

\* No new place for the action of a call,
Less(n) ==
  \A u \in Threads : \A i \in 1..Len(stack'[u]) :
    /\ Early(stack'[u][i], n) => i \in At(u) /\ Early(stack[u][i], n)
    /\ Late(stack'[u][i], n) => i \in At(u) /\ Late(stack[u][i], n)
\* and what was about to reset it still is.
Stands(n) ==
  \A u \in Threads : \A i \in 1..Len(stack'[u]) :
    Late(stack'[u][i], n) /\ stack[u][i].pc = "reset" =>
      stack'[u][i].pc = "reset" /\ stack'[u][i].sig = stack[u][i].sig

LEMMA LessStep ==
  ASSUME TypeOK, NEW t \in Threads, NEW g, Step(t, g), NEW n,
         ~Popped(t) => /\ Early(g, n) => Moved(t, g) /\ Early(Top(t), n)
                       /\ Late(g, n) => Moved(t, g) /\ Late(Top(t), n)
  PROVE  Less(n) /\ (Popped(t) \/ ~Late(g, n) \/ Top(t).pc # "reset" => Stands(n))
<1>1. ASSUME NEW u \in Threads, NEW i \in 1..Len(stack'[u])
      PROVE  /\ Early(stack'[u][i], n) => i \in At(u) /\ Early(stack[u][i], n)
             /\ Late(stack'[u][i], n) => i \in At(u) /\ Late(stack[u][i], n)
             /\ Late(stack'[u][i], n) /\ stack[u][i].pc = "reset" =>
                  \/ stack'[u][i].pc = "reset" /\ stack'[u][i].sig = stack[u][i].sig
                  \/ Top(t).pc = "reset" /\ Late(g, n) /\ ~Popped(t)
  <2>1. CASE Old(u, i)
    BY <2>1 DEF Old
  <2>2. CASE u = t /\ i = Place(t) /\ stack'[u][i] = g /\ ~Popped(t)
    <3>1. Moved(t, g) => i \in At(u) /\ stack[u][i] = Top(t)
      BY <2>2 DEF Moved, Place, Top
    <3> QED BY <2>2, <3>1
  <2> QED BY <2>1, <2>2, StepFrames
<1> QED BY <1>1 DEF Less, Stands

LEMMA BeforeKept ==
  ASSUME NEW n \in 1..MaxSets, Before(n), Less(n), shots'[n] = shots[n],
         \A s \in Sigs : table'[s].id = n => table[s].id = n
  PROVE  Before(n)'
<1> SUFFICES ASSUME NEW t \in Threads, NEW i \in 1..Len(stack'[t]), Early(stack'[t][i], n)
             PROVE  /\ shots'[n] = 0
                    /\ \A s \in Sigs : table'[s].id # n
                    /\ \A u \in Threads : \A j \in 1..Len(stack'[u]) :
                         /\ ~Late(stack'[u][j], n)
                         /\ Early(stack'[u][j], n) => u = t /\ j = i
  BY DEF Before, At, Early, Late
<1>1. i \in At(t) /\ Early(stack[t][i], n)
  BY DEF Less
<1>2. /\ shots[n] = 0
      /\ \A s \in Sigs : table[s].id # n
      /\ \A u \in Threads : \A j \in At(u) :
           ~Late(stack[u][j], n) /\ (Early(stack[u][j], n) => u = t /\ j = i)
  BY <1>1 DEF Before
<1> QED BY <1>2 DEF Less

LEMMA AfterKept ==
  ASSUME NEW n \in 1..MaxSets, After(n), Less(n), shots'[n] = shots[n],
         \A s \in Sigs : Armed(s, n)' => Armed(s, n) /\ Stands(n)
  PROVE  After(n)'
<1>1. shots'[n] <= 1
  BY DEF After
<1>2. ASSUME NEW s \in Sigs, Armed(s, n)'
      PROVE  /\ shots'[n] = 0
             /\ \A r \in Sigs : Armed(r, n)' => r = s
             /\ \A u \in Threads : \A j \in 1..Len(stack'[u]) :
                  Late(stack'[u][j], n) => On(stack'[u][j], s, "reset")
  <2>1. /\ Armed(s, n) /\ shots[n] = 0
        /\ \A r \in Sigs : Armed(r, n) => r = s
        /\ \A u \in Threads : \A j \in At(u) : Late(stack[u][j], n) => On(stack[u][j], s, "reset")
    BY <1>2 DEF After
  <2>2. \A u \in Threads : \A j \in 1..Len(stack'[u]) :
          Late(stack'[u][j], n) => On(stack'[u][j], s, "reset")
    BY <1>2, <2>1 DEF Less, Stands, On
  <2> QED BY <2>1, <2>2
<1>3. ASSUME NEW t \in Threads, NEW i \in 1..Len(stack'[t]), Late(stack'[t][i], n)
      PROVE  /\ shots'[n] = 0
             /\ \A u \in Threads : \A j \in 1..Len(stack'[u]) : Late(stack'[u][j], n) => u = t /\ j = i
  <2>1. i \in At(t) /\ Late(stack[t][i], n)
    BY <1>3 DEF Less
  <2>2. shots[n] = 0 /\ \A u \in Threads : \A j \in At(u) : Late(stack[u][j], n) => u = t /\ j = i
    BY <2>1 DEF After
  <2> QED BY <2>2 DEF Less
<1> QED BY <1>1, <1>2, <1>3 DEF After, At, Late, On

LEMMA ShotsKept ==
  ASSUME TypeOK, Shots, NEW t \in Threads, NEW g, Step(t, g), raced \subseteq raced', shots' = shots,
         \A s \in Sigs : /\ table'[s].id = table[s].id
                         /\ table'[s].h = "fn" /\ table'[s].reset => table[s].h = "fn" /\ table[s].reset,
         ~Popped(t) =>
           \A n \in 1..MaxSets : /\ Early(g, n) => Moved(t, g) /\ Early(Top(t), n)
                                 /\ Late(g, n) => Moved(t, g) /\ Late(Top(t), n) /\ Top(t).pc # "reset"
  PROVE  Shots'
<1> SUFFICES ASSUME NEW n \in 1..MaxSets
             PROVE  Before(n)' /\ (raced' = {} => After(n)')
  BY DEF Shots
<1>1. Before(n) /\ (raced' = {} => After(n))
  BY DEF Shots
<1>2. Less(n) /\ Stands(n)
  BY LessStep
<1>3. \A s \in Sigs : (Armed(s, n)' => Armed(s, n)) /\ (table'[s].id = n => table[s].id = n)
  BY DEF Armed
<1> QED BY <1>1, <1>2, <1>3, BeforeKept, AfterKept

-----------------------------------------------------------------------------
(* The steps *)

LEMMA InitInv == Init => IInv
<1> SUFFICES ASSUME Init PROVE IInv
  OBVIOUS
<1>1. /\ \A t \in Threads : stack[t] = <<>>
      /\ stack \in Stacks
  <2>1. stack = [t \in Threads |-> <<>>] /\ <<>> \in Seq(Frame)
    BY DEF Init
  <2> QED BY <2>1 DEF Stacks
<1>2. \A t \in Threads : At(t) = {}
  BY <1>1 DEF At
<1>3. table \in [Sigs -> Actions] /\ \A s \in Sigs : table[s] = Default
  BY DefaultAct DEF Init
<1>4. kdisp \in [Sigs -> Kinds] /\ \A s \in Sigs : kdisp[s] # "fn"
  BY DEF Init, Kinds
<1>5. shots \in [1..MaxSets -> Nat] /\ \A n \in 1..MaxSets : shots[n] = 0
  BY DEF Init
<1>6. TypeOK
  BY <1>1, <1>3, <1>4, <1>5, SigAssumption DEF Init, TypeOK
<1>7. Nests
  <2> SUFFICES ASSUME NEW t \in Threads PROVE NestOf(stack[t], mask[t], userMask[t])
    BY DEF Nests
  <2>1. Len(stack[t]) = 0 /\ mask[t] = userMask[t]
    BY <1>1 DEF Init
  <2>2. 1..Len(stack[t]) = {}
    BY <2>1
  <2> QED BY <2>1, <2>2 DEF NestOf
<1>8. OnTop /\ Seeds
  BY <1>2, <1>3, <1>4, DefaultAct DEF Init, OnTop, Seeds
<1>9. Alone
  BY <1>1, EmptySeq DEF Alone, Changing
<1>10. Agree
  BY DEF Init, Agree
<1>11. Numbered
  BY <1>2, <1>3, <1>5, DefaultAct DEF Init, Numbered
<1>12. Shots
  BY <1>2, <1>3, <1>5, DefaultAct DEF Shots, Before, After, Armed
<1> QED BY <1>6, <1>7, <1>8, <1>9, <1>10, <1>11, <1>12 DEF IInv

\* What the top frame says.
LEMMA TopInv ==
  ASSUME IInv, NEW t \in Threads, NEW pc, pc # "program", In(t, pc)
  PROVE  /\ Len(stack[t]) \in At(t) /\ stack[t][Len(stack[t])] = Top(t)
         /\ Top(t) \in Frame /\ Top(t).pc = pc /\ Top(t).sig \in Sigs /\ Top(t).act \in Actions
         /\ Top(t).act.id <= sets
         /\ pc \notin {"seed", "seeding"} => inherited = 2
<1>1. /\ Len(stack[t]) \in At(t) /\ stack[t][Len(stack[t])] = Top(t)
      /\ Top(t) \in Frame /\ Top(t).pc = pc /\ Top(t).sig \in Sigs /\ Top(t).act \in Actions
  BY TopFacts DEF IInv
<1>2. Top(t).act.id <= sets
  BY <1>1 DEF IInv, Numbered
<1>3. pc \notin {"seed", "seeding"} => inherited = 2
  BY <1>1 DEF IInv, Seeds
<1> QED BY <1>1, <1>2, <1>3

LEMMA Bounds ==
  ASSUME TypeOK
  PROVE  sets \in Nat /\ MaxSets \in Nat /\ \A s \in Sigs : table[s].id \in Nat
<1>1. \A s \in Sigs : table[s].id \in 0..MaxSets
  BY ActFacts DEF TypeOK
<1>2. MaxSets \in Nat
  BY SigAssumption
<1>3. sets \in 0..MaxSets
  BY DEF TypeOK
<1> QED BY <1>1, <1>2, <1>3

\* A step of the program or the kernel that changes no stack and no disposition.
LEMMA StillRest ==
  ASSUME IInv, UNCHANGED <<table, inherited, stack, kdisp, shots, sets, raced>>
  PROVE  OnTop' /\ Seeds' /\ Alone' /\ Agree' /\ Numbered' /\ Shots'
<1>1. OnTop' /\ Seeds'
  BY DEF IInv, OnTop, Seeds, At
<1>2. Alone'
  BY DEF IInv, Alone, Changing
<1>3. Agree'
  BY DEF IInv, Agree, At
<1>4. Numbered'
  BY DEF IInv, Numbered, At
<1>5. Shots'
  <2> SUFFICES ASSUME NEW n \in 1..MaxSets PROVE Before(n)' /\ (raced' = {} => After(n)')
    BY DEF Shots
  <2>1. Before(n) /\ (raced = {} => After(n))
    BY DEF IInv, Shots
  <2>2. Before(n)'
    BY <2>1 DEF Before, At
  <2>3. raced' = {} => After(n)'
    BY <2>1 DEF After, At, Armed
  <2> QED BY <2>2, <2>3
<1> QED BY <1>1, <1>2, <1>3, <1>4, <1>5

LEMMA StillInv ==
  ASSUME IInv, UNCHANGED <<table, inherited, stack, kdisp, mask, userMask, shots, sets, raced>>,
         pending' \subseteq Sigs
  PROVE  IInv'
<1>1. TypeOK' /\ Nests'
  BY DEF IInv, TypeOK, Nests
<1> QED BY <1>1, StillRest DEF IInv

LEMMA SetMaskInv ==
  ASSUME IInv, NEW t \in Threads, NEW m \in Masks, SetMask(t, m)
  PROVE  IInv'
<1>u. UNCHANGED <<table, inherited, stack, kdisp, shots, sets, raced, pending>> /\ stack[t] = <<>>
  BY DEF SetMask, libc, counts
<1>1. m \subseteq Sigs
  BY SigAssumption
<1>2. TypeOK'
  BY <1>u, <1>1 DEF IInv, TypeOK, SetMask
<1>3. Nests'
  <2>1. mask'[t] = m /\ userMask'[t] = m
    BY DEF SetMask, IInv, TypeOK
  <2>2. Len(stack'[t]) = 0 /\ 1..0 = {}
    BY <1>u
  <2>3. NestOf(stack'[t], mask'[t], userMask'[t])
    BY <2>1, <2>2 DEF NestOf
  <2>4. \A u \in Threads : u # t => mask'[u] = mask[u] /\ userMask'[u] = userMask[u]
    BY DEF SetMask, IInv, TypeOK
  <2> QED BY <1>u, <2>3, <2>4, NestElsewhere DEF IInv
<1> QED BY <1>u, <1>2, <1>3, StillRest DEF IInv

LEMMA SigactionInv ==
  ASSUME IInv, NEW t \in Threads, NEW s \in Sigs \cup {BadSig}, NEW a \in Acts, Sigaction(t, s, a)
  PROVE  IInv'
<1> DEFINE g == Begins(s, a)
<1>i. TypeOK /\ OnTop /\ Nests /\ Seeds /\ Alone /\ Agree /\ Numbered /\ Shots
  BY DEF IInv
<1>u. UNCHANGED <<table, inherited, kdisp, mask, userMask, shots, raced>> /\ Pc(t) \in {"program", "run"}
  BY DEF Sigaction, libc, kernel, InProgram
<1>1. /\ Pushed(t, g) /\ g.act.id = sets' /\ sets' = sets + 1 /\ sets' \in 1..MaxSets
      /\ TypeOK' /\ g.pc = "seed" /\ g.act \in Actions
  BY <1>i, SigactionMoves DEF Begins
<1> HIDE DEF g
<1>s. Step(t, g) /\ ~Popped(t)
  BY <1>i, <1>1, StackFacts DEF Step, Pushed, Popped, TypeOK
<1>b. sets \in Nat /\ MaxSets \in Nat /\ \A r \in Sigs : table[r].id \in Nat
  BY <1>i, Bounds
<1>2. OnTop'
  BY <1>i, <1>u, <1>1, PushedOnTop DEF Tips
<1>3. Nests'
  BY <1>i, <1>u, <1>1, NestsPushed DEF Active, InHandler
<1>4. Seeds'
  <2>1. \A u \in Threads : \A i \in 1..Len(stack'[u]) : Old(u, i) \/ stack'[u][i].pc = "seed"
    BY <1>i, <1>s, <1>1, StepFrames
  <2> QED BY <1>i, <1>u, <2>1 DEF Seeds, Old, At
<1>5. Alone'
  BY <1>i, <1>u, <1>s, <1>1, AloneKept DEF Changes
<1>6. Agree'
  BY <1>i, <1>u, <1>s, <1>1, AgreeKept DEF Reports
<1>7. Numbered'
  <2>1. \A r \in Sigs : table'[r].id <= sets'
    BY <1>i, <1>u, <1>1, <1>b DEF Numbered
  <2> QED BY <1>i, <1>u, <1>s, <1>1, <1>b, <2>1, NumberedKept
<1>8. Shots'
  <2> SUFFICES ASSUME NEW n \in 1..MaxSets PROVE Before(n)' /\ (raced' = {} => After(n)')
    BY DEF Shots
  <2>1. Before(n) /\ (raced' = {} => After(n))
    BY <1>i, <1>u DEF Shots
  <2>2. \A r \in Sigs : (Armed(r, n)' => Armed(r, n)) /\ (table'[r].id = n => table[r].id = n)
    BY <1>u DEF Armed
  <2>3. CASE n # sets'
    <3>1. ~Early(g, n) /\ ~Late(g, n)
      BY <1>1, <2>3 DEF Early, Late
    <3>2. Less(n) /\ Stands(n)
      BY <1>i, <1>s, <3>1, LessStep
    <3> QED BY <1>u, <2>1, <2>2, <3>2, BeforeKept, AfterKept
  <2>4. CASE n = sets'
    <3>1. \A u \in Threads : \A i \in At(u) : ~Early(stack[u][i], n) /\ ~Late(stack[u][i], n)
      <4> SUFFICES ASSUME NEW u \in Threads, NEW i \in At(u) PROVE stack[u][i].act.id # n
        BY DEF Early, Late
      <4>1. stack[u][i].act.id <= sets
        BY <1>i DEF Numbered
      <4> QED BY <1>1, <1>b, <2>4, <4>1
    <3>2. shots[n] = 0 /\ \A r \in Sigs : table[r].id # n
      BY <1>i, <1>1, <1>b, <2>4 DEF Numbered
    <3>3. ~Late(g, n)
      BY <1>1 DEF Late
    <3>4. \A u \in Threads : \A i \in 1..Len(stack'[u]) :
            ~Late(stack'[u][i], n) /\ (Early(stack'[u][i], n) => u = t /\ i = Place(t))
      BY <1>i, <1>s, <3>1, <3>3, StepFrames DEF Old
    <3>5. Before(n)'
      BY <1>u, <3>2, <3>4 DEF Before, At, Early, Late
    <3>6. After(n)'
      <4>1. shots'[n] = 0 /\ (\A r \in Sigs : ~Armed(r, n)')
        BY <1>u, <3>2 DEF Armed
      <4> QED BY <3>4, <4>1 DEF After, At, Late
    <3> QED BY <3>5, <3>6
  <2> QED BY <2>3, <2>4
<1> QED BY <1>1, <1>2, <1>3, <1>4, <1>5, <1>6, <1>7, <1>8 DEF IInv

LEMMA DeliverInv ==
  ASSUME IInv, NEW t \in Threads, NEW s \in Sigs, Deliver(t, s)
  PROVE  IInv'
<1> DEFINE g == Enters(s)
<1>i. TypeOK /\ OnTop /\ Nests /\ Seeds /\ Alone /\ Agree /\ Numbered /\ Shots
  BY DEF IInv
<1>u. /\ UNCHANGED <<table, inherited, kdisp, mask, userMask, shots, sets, raced>>
      /\ Pc(t) \in {"program", "mask", "call", "run", "leave"} /\ s \notin mask[t] /\ kdisp[s] = "fn"
  BY DEF Deliver, libc, counts
<1>1. Pushed(t, g) /\ TypeOK' /\ g.pc = "enter" /\ g.sig = s /\ g.act.id = 0
  BY <1>i, DeliverMoves, DefaultAct DEF Enters
<1> HIDE DEF g
<1>s. Step(t, g) /\ ~Popped(t)
  BY <1>i, <1>1, StackFacts DEF Step, Pushed, Popped, TypeOK
<1>b. sets \in Nat /\ MaxSets \in Nat /\ \A r \in Sigs : table[r].id \in Nat
  BY <1>i, Bounds
<1>2. OnTop'
  BY <1>i, <1>u, <1>1, PushedOnTop DEF Tips
<1>3. Nests'
  BY <1>i, <1>u, <1>1, NestsPushed DEF Active, InHandler
<1>4. Seeds'
  <2>1. inherited = 2
    BY <1>i, <1>u DEF Seeds
  <2> QED BY <1>i, <1>u, <1>s, <1>1, <2>1, SeedsOver
<1>5. Alone'
  BY <1>i, <1>u, <1>s, <1>1, AloneKept DEF Changes
<1>6. Agree'
  BY <1>i, <1>u, <1>s, <1>1, AgreeKept DEF Reports
<1>7. Numbered'
  <2>1. (\A r \in Sigs : table'[r].id <= sets') /\ g.act.id <= sets' /\ sets <= sets' /\ sets' \in Nat
    BY <1>i, <1>u, <1>1, <1>b DEF Numbered
  <2> QED BY <1>i, <1>u, <1>s, <2>1, NumberedKept
<1>8. Shots'
  <2>1. \A n \in 1..MaxSets : ~Early(g, n) /\ ~Late(g, n)
    BY <1>1 DEF Early, Late
  <2> QED BY <1>i, <1>u, <1>s, <2>1, ShotsKept
<1> QED BY <1>1, <1>2, <1>3, <1>4, <1>5, <1>6, <1>7, <1>8 DEF IInv

LEMMA SeedInv ==
  ASSUME IInv, NEW t \in Threads, Seed(t)
  PROVE  IInv'
<1>i. TypeOK /\ OnTop /\ Nests /\ Seeds /\ Alone /\ Agree /\ Numbered /\ Shots
  BY DEF IInv
<1>u. UNCHANGED <<table, kdisp, mask, userMask, shots, sets, raced>> /\ In(t, "seed")
  BY DEF Seed, kernel, counts
<1>t. Top(t) \in Frame /\ Top(t).pc = "seed" /\ Top(t).act.id <= sets
  BY <1>u, TopInv
<1>b. sets \in Nat /\ MaxSets \in Nat /\ \A r \in Sigs : table[r].id \in Nat
  BY <1>i, Bounds
<1>1. PICK pc \in {"store", "seeding"} :
        /\ Moved(t, To(Top(t), pc))
        /\ \/ inherited = 2 /\ inherited' = 2 /\ pc = "store"
           \/ inherited = 0 /\ inherited' = 1 /\ pc = "seeding"
  BY <1>i, SeedMoves
<1>2. TypeOK'
  BY <1>i, SeedMoves
<1> DEFINE g == To(Top(t), pc)
<1>g. g.pc = pc /\ g.act = Top(t).act /\ g.sig = Top(t).sig
  BY <1>t, ToFrame DEF Pcs
<1>m. Moved(t, g)
  BY <1>1
<1> HIDE DEF g
<1>s. Step(t, g) /\ ~Popped(t) /\ ~Pushed(t, g)
  BY <1>i, <1>m, StackFacts DEF Step, Moved, Pushed, Popped, TypeOK
<1>3. OnTop'
  BY <1>i, <1>m, MovedOnTop
<1>4. Nests'
  BY <1>i, <1>u, <1>t, <1>g, <1>m, NestsMoved DEF Active, InHandler
<1>5. Seeds'
  <2>1. CASE inherited = 2
    BY <1>1, <1>i, <1>g, <1>s, <2>1, SeedsOver
  <2>2. CASE inherited = 0 /\ inherited' = 1 /\ pc = "seeding"
    <3>1. \A u \in Threads : \A i \in 1..Len(stack'[u]) :
            (Old(u, i) /\ stack[u][i].pc = "seed") \/ (u = t /\ i = Place(t) /\ stack'[u][i].pc = "seeding")
      BY <1>i, <1>g, <1>s, <2>2, StepFrames DEF Seeds, Old
    <3> QED BY <1>i, <1>u, <2>2, <3>1 DEF Seeds, Old, At
  <2> QED BY <1>1, <2>1, <2>2
<1>6. Alone'
  BY <1>i, <1>u, <1>s, <1>g, AloneKept DEF Changes
<1>7. Agree'
  <2>1. CASE inherited' = inherited
    BY <1>i, <1>u, <1>t, <1>g, <1>s, <2>1, AgreeKept DEF Reports
  <2>2. CASE inherited' = 1
    BY <2>2 DEF Agree
  <2> QED BY <1>1, <2>1, <2>2
<1>8. Numbered'
  <2>1. (\A r \in Sigs : table'[r].id <= sets') /\ g.act.id <= sets' /\ sets <= sets' /\ sets' \in Nat
    BY <1>i, <1>u, <1>t, <1>g, <1>b DEF Numbered
  <2> QED BY <1>i, <1>u, <1>s, <2>1, NumberedKept
<1>9. Shots'
  <2>1. \A n \in 1..MaxSets : (Early(g, n) => Early(Top(t), n)) /\ ~Late(g, n)
    BY <1>t, <1>g DEF Early, Late
  <2> QED BY <1>i, <1>u, <1>m, <1>s, <2>1, ShotsKept
<1> QED BY <1>2, <1>3, <1>4, <1>5, <1>6, <1>7, <1>8, <1>9 DEF IInv

LEMMA SeedingInv ==
  ASSUME IInv, NEW t \in Threads, Seeding(t)
  PROVE  IInv'
<1> DEFINE g == To(Top(t), "store")
<1>i. TypeOK /\ OnTop /\ Nests /\ Seeds /\ Alone /\ Agree /\ Numbered /\ Shots
  BY DEF IInv
<1>u. UNCHANGED <<kdisp, mask, userMask, shots, sets, raced>> /\ In(t, "seeding")
  BY DEF Seeding, kernel, counts
<1>t. /\ Top(t) \in Frame /\ Top(t).pc = "seeding" /\ Top(t).act.id <= sets
      /\ Len(stack[t]) \in At(t) /\ stack[t][Len(stack[t])] = Top(t)
  BY <1>u, TopInv
<1>b. sets \in Nat /\ MaxSets \in Nat /\ \A r \in Sigs : table[r].id \in Nat
  BY <1>i, Bounds
<1>m. Moved(t, g) /\ inherited' = 2 /\ TypeOK'
  BY <1>i, SeedingMoves
<1>g. g.pc = "store" /\ g.act = Top(t).act /\ g.sig = Top(t).sig
  BY <1>t, ToFrame DEF Pcs
<1>1. PICK ok \in BOOLEAN :
        /\ (\E s \in Sigs : kdisp[s] = "ign") => ok
        /\ table' = [s \in Sigs |-> IF ok /\ kdisp[s] = "ign" /\ table[s].h = "dfl"
                                      THEN [table[s] EXCEPT !.h = "ign"] ELSE table[s]]
  BY DEF Seeding
<1> HIDE DEF g
<1>s. Step(t, g) /\ ~Popped(t) /\ ~Pushed(t, g)
  BY <1>i, <1>m, StackFacts DEF Step, Moved, Pushed, Popped, TypeOK
\* Nothing was installed before.
<1>2. /\ inherited = 1 /\ \A s \in Sigs : table[s].h = "dfl" /\ kdisp[s] # "fn"
      /\ \A u \in Threads : \A i \in At(u) : stack[u][i].pc \in {"seed", "seeding"}
      /\ \A u \in Threads : \A i \in At(u) : stack[u][i].pc = "seeding" => u = t
  BY <1>i, <1>t DEF Seeds
<1>3. \A s \in Sigs :
        /\ table'[s].id = table[s].id /\ table'[s].h = kdisp[s]
        /\ ~(table'[s].h = "fn")
  <2> SUFFICES ASSUME NEW s \in Sigs
               PROVE  table'[s].id = table[s].id /\ table'[s].h = kdisp[s] /\ table'[s].h # "fn"
    OBVIOUS
  <2>1. table[s] \in Actions /\ kdisp[s] \in {"dfl", "ign"} /\ table[s].h = "dfl"
    BY <1>i, <1>2 DEF TypeOK, Kinds
  <2>2. CASE kdisp[s] = "ign"
    <3>1. table'[s] = [table[s] EXCEPT !.h = "ign"]
      BY <1>1, <2>1, <2>2
    <3> QED BY <2>1, <2>2, <3>1, ActFacts
  <2>3. CASE kdisp[s] = "dfl"
    BY <1>1, <2>1, <2>3
  <2> QED BY <2>1, <2>2, <2>3
<1>4. OnTop'
  BY <1>i, <1>m, MovedOnTop
<1>5. Nests'
  BY <1>i, <1>u, <1>t, <1>g, <1>m, NestsMoved DEF Active, InHandler
<1>6. \A u \in Threads : \A i \in 1..Len(stack'[u]) : stack'[u][i].pc \in {"seed", "store"}
  <2> SUFFICES ASSUME NEW u \in Threads, NEW i \in 1..Len(stack'[u])
               PROVE  stack'[u][i].pc \in {"seed", "store"}
    OBVIOUS
  <2>1. CASE i = Place(t) /\ u = t
    BY <1>g, <1>m, <2>1 DEF Moved, Place
  <2>2. CASE Old(u, i) /\ ~(u = t /\ i = Place(t))
    <3>1. stack[u][i].pc = "seeding" => u = t /\ i = Len(stack[t])
      BY <1>2, <1>i, <2>2 DEF OnTop, Old
    <3>2. stack[u][i].pc = "seed"
      BY <1>2, <1>m, <2>2, <3>1 DEF Old, Place, Moved
    <3> QED BY <2>2, <3>2 DEF Old
  <2> QED BY <1>i, <1>s, <2>1, <2>2, StepFrames
<1>7. Seeds'
  BY <1>m, <1>6 DEF Seeds, At
<1>8. Alone'
  BY <1>i, <1>u, <1>s, <1>g, AloneKept DEF Changes
<1>9. Agree'
  BY <1>u, <1>3, <1>6 DEF Agree, On, At
<1>10. Numbered'
  <2>1. (\A r \in Sigs : table'[r].id <= sets') /\ g.act.id <= sets' /\ sets <= sets' /\ sets' \in Nat
    BY <1>i, <1>u, <1>t, <1>g, <1>b, <1>3 DEF Numbered
  <2> QED BY <1>i, <1>u, <1>s, <2>1, NumberedKept
<1>11. Shots'
  <2>1. \A n \in 1..MaxSets : (Early(g, n) => Early(Top(t), n)) /\ ~Late(g, n)
    BY <1>t, <1>g DEF Early, Late
  <2> QED BY <1>i, <1>u, <1>m, <1>s, <1>3, <2>1, ShotsKept
<1> QED BY <1>m, <1>4, <1>5, <1>7, <1>8, <1>9, <1>10, <1>11 DEF IInv

LEMMA StoreInv ==
  ASSUME IInv, NEW t \in Threads, Store(t)
  PROVE  IInv'
<1> DEFINE g == To(Top(t), "report")
<1>i. TypeOK /\ OnTop /\ Nests /\ Seeds /\ Alone /\ Agree /\ Numbered /\ Shots
  BY DEF IInv
<1>u. UNCHANGED <<inherited, kdisp, mask, userMask, shots, sets>> /\ In(t, "store") /\ Noted
  BY DEF Store, kernel, counts
<1>t. /\ Top(t) \in Frame /\ Top(t).pc = "store" /\ Top(t).act.id <= sets /\ inherited = 2
      /\ Len(stack[t]) \in At(t) /\ stack[t][Len(stack[t])] = Top(t)
      /\ Top(t).sig \in Sigs /\ Top(t).act \in Actions
  BY <1>u, TopInv
<1>b. sets \in Nat /\ MaxSets \in Nat /\ \A r \in Sigs : table[r].id \in Nat
  BY <1>i, Bounds
<1>m. Moved(t, g) /\ TypeOK'
  BY <1>i, StoreMoves
<1>g. g.pc = "report" /\ g.act = Top(t).act /\ g.sig = Top(t).sig
  BY <1>t, ToFrame DEF Pcs
<1>1. \A s \in Sigs : table'[s] = IF s = Top(t).sig THEN Top(t).act ELSE table[s]
  BY <1>i DEF Store, TypeOK
<1> HIDE DEF g
<1>s. Step(t, g) /\ ~Popped(t) /\ ~Pushed(t, g)
  BY <1>i, <1>m, StackFacts DEF Step, Moved, Pushed, Popped, TypeOK
<1>2. OnTop'
  BY <1>i, <1>m, MovedOnTop
<1>3. Nests'
  BY <1>i, <1>u, <1>t, <1>g, <1>m, NestsMoved DEF Active, InHandler
<1>4. Seeds'
  BY <1>i, <1>u, <1>t, <1>g, <1>s, SeedsOver
<1>5. Alone'
  BY <1>u, AloneNoted
<1>6. Agree'
  <2> SUFFICES ASSUME NEW s \in Sigs \ raced'
               PROVE  /\ (\A u \in Threads : \A i \in 1..Len(stack'[u]) :
                            ~On(stack'[u][i], s, "report") /\ ~On(stack'[u][i], s, "tell"))
                            => kdisp[s] = table'[s].h
                      /\ \A u \in Threads : \A i \in 1..Len(stack'[u]) :
                           /\ On(stack'[u][i], s, "report") => table'[s].h = stack'[u][i].act.h
                           /\ On(stack'[u][i], s, "tell") => table'[s].h = "dfl"
    BY <1>u DEF Agree, At, On
  <2>o. Place(t) \in 1..Len(stack'[t]) /\ stack'[t][Place(t)] = g
    BY <1>m DEF Moved, Place, At
  <2>r. s \in Sigs \ raced
    BY <1>u DEF Noted
  <2>1. CASE s = Top(t).sig
    <3>1. On(g, s, "report") /\ table'[s].h = g.act.h
      BY <1>1, <1>g, <2>1 DEF On
    <3>2. ASSUME NEW u \in Threads, NEW i \in 1..Len(stack'[u]),
                 On(stack'[u][i], s, "report") \/ On(stack'[u][i], s, "tell")
          PROVE  stack'[u][i] = g
      <4>1. stack' \in Stacks /\ stack'[t] \in Seq(Frame) /\ stack'[u] \in Seq(Frame)
        BY <1>m DEF Moved, Stacks
      <4>2. Changing(u, s)' /\ Changing(t, s)'
        BY <2>o, <3>1, <3>2, <4>1 DEF Changing, On
      <4>3. u = t
        BY <1>5, <4>2 DEF Alone
      <4>4. i = Place(t)
        BY <1>2, <3>2, <4>3 DEF OnTop, On, Place, At
      <4> QED BY <2>o, <4>3, <4>4
    <3> QED BY <2>o, <3>1, <3>2 DEF On
  <2>2. CASE s # Top(t).sig
    <3>1. table'[s] = table[s] /\ (\A pc : ~On(g, s, pc) /\ ~On(Top(t), s, pc))
      BY <1>1, <1>g, <2>2 DEF On
    <3>2. /\ (\A u \in Threads : \A i \in At(u) :
                ~On(stack[u][i], s, "report") /\ ~On(stack[u][i], s, "tell")) => kdisp[s] = table[s].h
          /\ \A u \in Threads : \A i \in At(u) :
               /\ On(stack[u][i], s, "report") => table[s].h = stack[u][i].act.h
               /\ On(stack[u][i], s, "tell") => table[s].h = "dfl"
      BY <1>i, <1>t, <2>r DEF Agree
    <3>3. \A u \in Threads : \A i \in At(u) :
            On(stack[u][i], s, "report") \/ On(stack[u][i], s, "tell") =>
              i \in 1..Len(stack'[u]) /\ stack'[u][i] = stack[u][i]
      BY <1>i, <1>s, <3>1, StepFrames DEF Old
    <3>4. \A u \in Threads : \A i \in 1..Len(stack'[u]) :
            On(stack'[u][i], s, "report") \/ On(stack'[u][i], s, "tell") =>
              i \in At(u) /\ stack'[u][i] = stack[u][i]
      BY <1>i, <1>s, <3>1, StepFrames DEF Old
    <3> QED BY <3>1, <3>2, <3>3, <3>4
  <2> QED BY <2>1, <2>2
<1>7. Numbered'
  <2>1. (\A r \in Sigs : table'[r].id <= sets') /\ g.act.id <= sets' /\ sets <= sets' /\ sets' \in Nat
    BY <1>i, <1>u, <1>t, <1>g, <1>b, <1>1 DEF Numbered
  <2> QED BY <1>i, <1>u, <1>s, <2>1, NumberedKept
<1>8. Shots'
  <2> SUFFICES ASSUME NEW n \in 1..MaxSets PROVE Before(n)' /\ (raced' = {} => After(n)')
    BY DEF Shots
  <2>1. Before(n) /\ (raced' = {} => After(n))
    BY <1>i, <1>u DEF Shots, Noted
  <2>2. ~Early(g, n) /\ ~Late(g, n)
    BY <1>g DEF Early, Late
  <2>3. Less(n) /\ Stands(n)
    BY <1>i, <1>s, <2>2, LessStep
  <2>4. CASE Top(t).act.id # n
    <3>1. \A r \in Sigs : (Armed(r, n)' => Armed(r, n)) /\ (table'[r].id = n => table[r].id = n)
      BY <1>1, <2>4 DEF Armed
    <3> QED BY <1>u, <2>1, <2>3, <3>1, BeforeKept, AfterKept
  <2>5. CASE Top(t).act.id = n
    <3>1. Early(Top(t), n)
      BY <1>t, <2>5 DEF Early
    <3>2. /\ shots[n] = 0 /\ \A s \in Sigs : table[s].id # n
          /\ \A u \in Threads : \A j \in At(u) :
               ~Late(stack[u][j], n) /\ (Early(stack[u][j], n) => u = t /\ j = Len(stack[t]))
      BY <1>t, <2>1, <3>1 DEF Before
    <3>3. \A u \in Threads : \A j \in 1..Len(stack'[u]) : ~Late(stack'[u][j], n) /\ ~Early(stack'[u][j], n)
      BY <1>m, <2>2, <2>3, <3>2 DEF Less, Moved
    <3>4. Before(n)'
      BY <3>3 DEF Before, At, Early
    <3>5. \A r, q \in Sigs : Armed(r, n)' /\ Armed(q, n)' => q = r
      BY <1>1, <3>2 DEF Armed
    <3>6. After(n)'
      BY <1>u, <3>2, <3>3, <3>5 DEF After, At, Late
    <3> QED BY <3>4, <3>6
  <2> QED BY <2>4, <2>5
<1> QED BY <1>m, <1>2, <1>3, <1>4, <1>5, <1>6, <1>7, <1>8 DEF IInv

\* What the steps of a handler, and the end of a call, have in common.
LEMMA Rest ==
  ASSUME IInv, NEW t \in Threads, NEW g, Moved(t, g) \/ Popped(t), inherited = 2, inherited' = 2,
         sets' = sets, \A n \in 1..MaxSets : n > sets => shots'[n] = shots[n],
         \A s \in Sigs : table'[s].id = table[s].id,
         ~Popped(t) => g.pc # "seeding" /\ g.act.id <= sets
  PROVE  Step(t, g) /\ ~Pushed(t, g) /\ (Moved(t, g) => ~Popped(t)) /\ OnTop' /\ Seeds' /\ Numbered'
<1>i. TypeOK /\ OnTop /\ Seeds /\ Numbered
  BY DEF IInv
<1>b. sets \in Nat /\ MaxSets \in Nat /\ \A r \in Sigs : table[r].id \in Nat
  BY <1>i, Bounds
<1>1. Step(t, g) /\ ~Pushed(t, g) /\ (Moved(t, g) => ~Popped(t))
  BY <1>i, StackFacts DEF Step, Moved, Pushed, Popped, TypeOK
<1>2. OnTop'
  BY <1>i, MovedOnTop, PoppedOnTop
<1>3. Seeds'
  <2>1. \A u \in Threads : \A i \in At(u) : stack[u][i].pc # "seeding"
    BY <1>i DEF Seeds
  <2>2. \A u \in Threads : \A i \in 1..Len(stack'[u]) : stack'[u][i].pc # "seeding"
    BY <1>i, <1>1, <2>1, StepFrames DEF Old
  <2> QED BY <2>2 DEF Seeds, At
<1>4. Numbered'
  <2>1. (\A r \in Sigs : table'[r].id <= sets') /\ sets <= sets' /\ sets' \in Nat
    BY <1>i, <1>b DEF Numbered
  <2> QED BY <1>i, <1>1, <2>1, NumberedKept
<1> QED BY <1>1, <1>2, <1>3, <1>4

LEMMA ReportInv ==
  ASSUME IInv, NEW t \in Threads, Report(t)
  PROVE  IInv'
<1> DEFINE g == Top(t)
<1>i. TypeOK /\ OnTop /\ Nests /\ Seeds /\ Alone /\ Agree /\ Numbered /\ Shots
  BY DEF IInv
<1>u. UNCHANGED <<inherited, table, mask, userMask, shots, sets, raced>> /\ In(t, "report")
  BY DEF Report, libc, counts
<1>t. /\ Top(t) \in Frame /\ Top(t).pc = "report" /\ inherited = 2 /\ Top(t).sig \in Sigs
      /\ Len(stack[t]) \in At(t) /\ stack[t][Len(stack[t])] = Top(t)
  BY <1>u, TopInv
<1>m. Popped(t) /\ TypeOK'
  BY <1>i, ReportMoves
<1>1. \A s \in Sigs : kdisp'[s] = IF s = Top(t).sig THEN Top(t).act.h ELSE kdisp[s]
  BY <1>i DEF Report, TypeOK
<1>2. Step(t, g) /\ ~Pushed(t, g) /\ OnTop' /\ Seeds' /\ Numbered'
  BY <1>u, <1>t, <1>m, Rest
<1>3. Nests'
  BY <1>i, <1>u, <1>t, <1>m, NestsPopped DEF Active
<1>4. Alone'
  BY <1>i, <1>u, <1>m, <1>2, AloneKept
<1>5. Agree'
  <2> SUFFICES ASSUME NEW s \in Sigs \ raced
               PROVE  /\ (\A u \in Threads : \A i \in 1..Len(stack'[u]) :
                            ~On(stack'[u][i], s, "report") /\ ~On(stack'[u][i], s, "tell"))
                            => kdisp'[s] = table[s].h
                      /\ \A u \in Threads : \A i \in 1..Len(stack'[u]) :
                           /\ On(stack'[u][i], s, "report") => table[s].h = stack'[u][i].act.h
                           /\ On(stack'[u][i], s, "tell") => table[s].h = "dfl"
    BY <1>u DEF Agree, At, On
  <2>1. /\ (\A u \in Threads : \A i \in At(u) :
              ~On(stack[u][i], s, "report") /\ ~On(stack[u][i], s, "tell")) => kdisp[s] = table[s].h
        /\ \A u \in Threads : \A i \in At(u) :
             /\ On(stack[u][i], s, "report") => table[s].h = stack[u][i].act.h
             /\ On(stack[u][i], s, "tell") => table[s].h = "dfl"
    BY <1>i, <1>t DEF Agree
  <2>2. \A u \in Threads : \A i \in 1..Len(stack'[u]) : i \in At(u) /\ stack'[u][i] = stack[u][i]
    BY <1>i, <1>m, <1>2, StepFrames DEF Old
  <2>3. CASE s = Top(t).sig
    <3>1. table[s].h = Top(t).act.h
      BY <1>t, <2>1, <2>3 DEF On
    <3> QED BY <1>1, <2>1, <2>2, <2>3, <3>1
  <2>4. CASE s # Top(t).sig
    <3>1. \A u \in Threads : \A i \in At(u) :
            On(stack[u][i], s, "report") \/ On(stack[u][i], s, "tell") =>
              i \in 1..Len(stack'[u]) /\ stack'[u][i] = stack[u][i]
      BY <1>i, <1>2, <2>4, StepFrames DEF Old, On
    <3> QED BY <1>1, <2>1, <2>2, <2>4, <3>1
  <2> QED BY <2>3, <2>4
<1>6. Shots'
  BY <1>i, <1>u, <1>m, <1>2, ShotsKept
<1> QED BY <1>m, <1>2, <1>3, <1>4, <1>5, <1>6 DEF IInv

\* A frame goes that neither reports nor is active.
LEMMA GoneInv ==
  ASSUME IInv, NEW t \in Threads, NEW pc \in {"enter", "leave"}, In(t, pc), Popped(t), TypeOK',
         UNCHANGED <<inherited, table, kdisp, mask, userMask, shots, sets, raced>>
  PROVE  IInv'
<1> DEFINE g == Top(t)
<1>i. TypeOK /\ OnTop /\ Nests /\ Seeds /\ Alone /\ Agree /\ Numbered /\ Shots
  BY DEF IInv
<1>t. Top(t).pc = pc /\ inherited = 2
  BY TopInv
<1>1. Step(t, g) /\ ~Pushed(t, g) /\ OnTop' /\ Seeds' /\ Numbered'
  BY <1>t, Rest
<1>2. Nests'
  BY <1>i, <1>t, NestsPopped DEF Active
<1>3. Alone'
  BY <1>i, <1>1, AloneKept
<1>4. Agree'
  BY <1>i, <1>t, <1>1, AgreeKept DEF Reports
<1>5. Shots'
  BY <1>i, <1>1, ShotsKept
<1> QED BY <1>1, <1>2, <1>3, <1>4, <1>5 DEF IInv

LEMMA ResetInv ==
  ASSUME IInv, NEW t \in Threads, Reset(t)
  PROVE  IInv'
<1> DEFINE g == To(Top(t), "tell")
<1>i. TypeOK /\ OnTop /\ Nests /\ Seeds /\ Alone /\ Agree /\ Numbered /\ Shots
  BY DEF IInv
<1>u. UNCHANGED <<inherited, kdisp, mask, userMask, shots, sets, raced>> /\ In(t, "reset")
  BY DEF Reset, kernel, counts
<1>t. /\ Top(t) \in Frame /\ Top(t).pc = "reset" /\ Top(t).act.id <= sets /\ inherited = 2
      /\ Len(stack[t]) \in At(t) /\ stack[t][Len(stack[t])] = Top(t) /\ Top(t).sig \in Sigs
  BY <1>u, TopInv
<1>m. Moved(t, g) /\ TypeOK'
  BY <1>i, ResetMoves
<1>g. g.pc = "tell" /\ g.act = Top(t).act /\ g.sig = Top(t).sig
  BY <1>t, ToFrame DEF Pcs, InHandler
<1>1. \A s \in Sigs : /\ table'[s].id = table[s].id
                      /\ s # Top(t).sig => table'[s] = table[s]
                      /\ s = Top(t).sig => table'[s].h = "dfl"
  <2> SUFFICES ASSUME NEW s \in Sigs
               PROVE  /\ table'[s].id = table[s].id
                      /\ s # Top(t).sig => table'[s] = table[s]
                      /\ s = Top(t).sig => table'[s].h = "dfl"
    OBVIOUS
  <2>1. table'[s] = IF s = Top(t).sig THEN AfterReset(table[s]) ELSE table[s]
    BY <1>i DEF Reset, TypeOK
  <2>2. table[s] \in Actions
    BY <1>i DEF TypeOK
  <2> QED BY <2>1, <2>2, ActFacts
<1> HIDE DEF g
<1>2. Step(t, g) /\ ~Popped(t) /\ ~Pushed(t, g) /\ OnTop' /\ Seeds' /\ Numbered'
  BY <1>u, <1>t, <1>g, <1>m, <1>1, Rest
<1>3. Nests'
  BY <1>i, <1>u, <1>t, <1>g, <1>m, NestsMoved DEF Active, InHandler
<1>4. Alone'
  BY <1>i, <1>u, <1>t, <1>g, <1>m, <1>2, AloneKept DEF Changes
<1>5. Agree'
  <2> SUFFICES ASSUME NEW s \in Sigs \ raced
               PROVE  /\ (\A u \in Threads : \A i \in 1..Len(stack'[u]) :
                            ~On(stack'[u][i], s, "report") /\ ~On(stack'[u][i], s, "tell"))
                            => kdisp[s] = table'[s].h
                      /\ \A u \in Threads : \A i \in 1..Len(stack'[u]) :
                           /\ On(stack'[u][i], s, "report") => table'[s].h = stack'[u][i].act.h
                           /\ On(stack'[u][i], s, "tell") => table'[s].h = "dfl"
    BY <1>u DEF Agree, At, On
  <2>o. Place(t) \in 1..Len(stack'[t]) /\ stack'[t][Place(t)] = g
    BY <1>m DEF Moved, Place, At
  <2>1. CASE s = Top(t).sig
    <3>1. On(g, s, "tell") /\ table'[s].h = "dfl"
      BY <1>1, <1>g, <2>1 DEF On
    <3>2. ASSUME NEW u \in Threads, NEW i \in 1..Len(stack'[u]),
                 On(stack'[u][i], s, "report") \/ On(stack'[u][i], s, "tell")
          PROVE  stack'[u][i] = g
      <4>1. stack' \in Stacks /\ stack'[t] \in Seq(Frame) /\ stack'[u] \in Seq(Frame)
        BY <1>m DEF Moved, Stacks
      <4>2. Changing(u, s)' /\ Changing(t, s)'
        BY <2>o, <3>1, <3>2, <4>1 DEF Changing, On
      <4>3. u = t
        BY <1>u, <1>4, <4>2 DEF Alone
      <4>4. i = Place(t)
        BY <1>2, <3>2, <4>3 DEF OnTop, On, Place, At
      <4> QED BY <2>o, <4>3, <4>4
    <3> QED BY <1>g, <2>o, <3>1, <3>2 DEF On
  <2>2. CASE s # Top(t).sig
    <3>1. table'[s] = table[s] /\ (\A pc : ~On(g, s, pc) /\ ~On(Top(t), s, pc))
      BY <1>1, <1>g, <2>2 DEF On
    <3>2. /\ (\A u \in Threads : \A i \in At(u) :
                ~On(stack[u][i], s, "report") /\ ~On(stack[u][i], s, "tell")) => kdisp[s] = table[s].h
          /\ \A u \in Threads : \A i \in At(u) :
               /\ On(stack[u][i], s, "report") => table[s].h = stack[u][i].act.h
               /\ On(stack[u][i], s, "tell") => table[s].h = "dfl"
      BY <1>i, <1>t DEF Agree
    <3>3. \A u \in Threads : \A i \in At(u) :
            On(stack[u][i], s, "report") \/ On(stack[u][i], s, "tell") =>
              i \in 1..Len(stack'[u]) /\ stack'[u][i] = stack[u][i]
      BY <1>i, <1>2, <3>1, StepFrames DEF Old
    <3>4. \A u \in Threads : \A i \in 1..Len(stack'[u]) :
            On(stack'[u][i], s, "report") \/ On(stack'[u][i], s, "tell") =>
              i \in At(u) /\ stack'[u][i] = stack[u][i]
      BY <1>i, <1>2, <3>1, StepFrames DEF Old
    <3> QED BY <3>1, <3>2, <3>3, <3>4
  <2> QED BY <2>1, <2>2
<1>6. Shots'
  <2> SUFFICES ASSUME NEW n \in 1..MaxSets PROVE Before(n)' /\ (raced' = {} => After(n)')
    BY DEF Shots
  <2>1. Before(n) /\ (raced' = {} => After(n))
    BY <1>i, <1>u DEF Shots
  <2>2. ~Early(g, n) /\ (Late(g, n) => Late(Top(t), n))
    BY <1>t, <1>g DEF Early, Late
  <2>3. Less(n) /\ (~Late(g, n) => Stands(n))
    BY <1>i, <1>m, <1>2, <2>2, LessStep
  <2>4. \A r \in Sigs : (Armed(r, n)' => Armed(r, n) /\ r # Top(t).sig) /\ (table'[r].id = n => table[r].id = n)
    BY <1>1 DEF Armed
  <2>5. Before(n)'
    BY <1>u, <2>1, <2>3, <2>4, BeforeKept
  <2>6. ASSUME raced' = {} PROVE After(n)'
    <3>1. ASSUME NEW r \in Sigs, Armed(r, n)' PROVE Stands(n)
      <4>1. Late(Top(t), n) => r = Top(t).sig
        BY <1>t, <2>1, <2>4, <2>6, <3>1 DEF After, On
      <4> QED BY <2>2, <2>3, <2>4, <3>1, <4>1
    <3> QED BY <1>u, <2>1, <2>3, <2>4, <2>6, <3>1, AfterKept
  <2> QED BY <2>5, <2>6
<1> QED BY <1>m, <1>2, <1>3, <1>4, <1>5, <1>6 DEF IInv

LEMMA TellInv ==
  ASSUME IInv, NEW t \in Threads, Tell(t)
  PROVE  IInv'
<1> DEFINE g == To(Top(t), "mask")
<1>i. TypeOK /\ OnTop /\ Nests /\ Seeds /\ Alone /\ Agree /\ Numbered /\ Shots
  BY DEF IInv
<1>u. UNCHANGED <<inherited, table, mask, userMask, shots, sets, raced>> /\ In(t, "tell")
  BY DEF Tell, libc, counts
<1>t. /\ Top(t) \in Frame /\ Top(t).pc = "tell" /\ Top(t).act.id <= sets /\ inherited = 2
      /\ Len(stack[t]) \in At(t) /\ stack[t][Len(stack[t])] = Top(t) /\ Top(t).sig \in Sigs
  BY <1>u, TopInv
<1>m. Moved(t, g) /\ TypeOK'
  BY <1>i, TellMoves
<1>g. g.pc = "mask" /\ g.act = Top(t).act /\ g.sig = Top(t).sig
  BY <1>t, ToFrame DEF Pcs, InHandler
<1>1. \A s \in Sigs : kdisp'[s] = IF s = Top(t).sig THEN "dfl" ELSE kdisp[s]
  BY <1>i DEF Tell, Told, TypeOK
<1> HIDE DEF g
<1>2. Step(t, g) /\ ~Popped(t) /\ ~Pushed(t, g) /\ OnTop' /\ Seeds' /\ Numbered'
  BY <1>u, <1>t, <1>g, <1>m, Rest
<1>3. Nests'
  BY <1>i, <1>u, <1>t, <1>g, <1>m, NestsMoved DEF Active, InHandler
<1>4. Alone'
  BY <1>i, <1>u, <1>g, <1>2, AloneKept DEF Changes
<1>5. Agree'
  <2> SUFFICES ASSUME NEW s \in Sigs \ raced
               PROVE  /\ (\A u \in Threads : \A i \in 1..Len(stack'[u]) :
                            ~On(stack'[u][i], s, "report") /\ ~On(stack'[u][i], s, "tell"))
                            => kdisp'[s] = table[s].h
                      /\ \A u \in Threads : \A i \in 1..Len(stack'[u]) :
                           /\ On(stack'[u][i], s, "report") => table[s].h = stack'[u][i].act.h
                           /\ On(stack'[u][i], s, "tell") => table[s].h = "dfl"
    BY <1>u DEF Agree, At, On
  <2>1. /\ (\A u \in Threads : \A i \in At(u) :
              ~On(stack[u][i], s, "report") /\ ~On(stack[u][i], s, "tell")) => kdisp[s] = table[s].h
        /\ \A u \in Threads : \A i \in At(u) :
             /\ On(stack[u][i], s, "report") => table[s].h = stack[u][i].act.h
             /\ On(stack[u][i], s, "tell") => table[s].h = "dfl"
    BY <1>i, <1>t DEF Agree
  <2>2. \A u \in Threads : \A i \in 1..Len(stack'[u]) :
          On(stack'[u][i], s, "report") \/ On(stack'[u][i], s, "tell") =>
            i \in At(u) /\ stack'[u][i] = stack[u][i]
    BY <1>i, <1>g, <1>2, StepFrames DEF Old, On
  <2>3. CASE s = Top(t).sig
    <3>1. table[s].h = "dfl"
      BY <1>t, <2>1, <2>3 DEF On
    <3> QED BY <1>1, <2>1, <2>2, <2>3, <3>1
  <2>4. CASE s # Top(t).sig
    <3>1. \A u \in Threads : \A i \in At(u) :
            On(stack[u][i], s, "report") \/ On(stack[u][i], s, "tell") =>
              i \in 1..Len(stack'[u]) /\ stack'[u][i] = stack[u][i]
      BY <1>i, <1>2, <2>4, StepFrames DEF Old, On
    <3> QED BY <1>1, <2>1, <2>2, <2>4, <3>1
  <2> QED BY <2>3, <2>4
<1>6. Shots'
  <2>1. \A n \in 1..MaxSets : ~Early(g, n) /\ (Late(g, n) => Late(Top(t), n) /\ Top(t).pc # "reset")
    BY <1>t, <1>g DEF Early, Late
  <2> QED BY <1>i, <1>u, <1>m, <1>2, <2>1, ShotsKept
<1> QED BY <1>m, <1>2, <1>3, <1>4, <1>5, <1>6 DEF IInv

LEMMA EnterHandlerInv ==
  ASSUME IInv, NEW t \in Threads, EnterHandler(t)
  PROVE  IInv'
<1> DEFINE g == Copies(Top(t))
<1>i. TypeOK /\ OnTop /\ Nests /\ Seeds /\ Alone /\ Agree /\ Numbered /\ Shots
  BY DEF IInv
<1>u. /\ UNCHANGED <<inherited, table, kdisp, mask, userMask, shots, sets>> /\ In(t, "enter") /\ Noted
      /\ table[Top(t).sig].h = "fn"
  BY DEF EnterHandler, libc, kernel, counts
<1>t. /\ Top(t) \in Frame /\ Top(t).pc = "enter" /\ inherited = 2
      /\ Len(stack[t]) \in At(t) /\ stack[t][Len(stack[t])] = Top(t) /\ Top(t).sig \in Sigs
  BY <1>u, TopInv
<1>s. PICK s \in Sigs : s = Top(t).sig
  BY <1>t
<1>m. Moved(t, g) /\ TypeOK'
  BY <1>i, EnterHandlerMoves
<1>g. g.sig = s /\ g.act = table[s] /\ g.pc = (IF table[s].reset THEN "reset" ELSE "mask")
  BY <1>i, <1>s, <1>t, CopiesFacts DEF AfterCopy
<1> HIDE DEF g
<1>1. g.act.id <= sets
  BY <1>i, <1>g DEF Numbered
<1>2. Step(t, g) /\ ~Popped(t) /\ ~Pushed(t, g) /\ OnTop' /\ Seeds' /\ Numbered'
  BY <1>u, <1>t, <1>g, <1>m, <1>1, Rest
<1>3. Nests'
  BY <1>i, <1>u, <1>t, <1>g, <1>m, <1>s, NestsMoved DEF Active, InHandler
<1>4. Alone'
  BY <1>u, AloneNoted
<1>5. Agree'
  <2>1. raced \subseteq raced' /\ Top(t).pc \notin Reports /\ g.pc \notin Reports
    BY <1>u, <1>t, <1>g DEF Noted, Reports
  <2> QED BY <1>i, <1>u, <1>2, <2>1, AgreeKept
<1>6. Shots'
  <2> SUFFICES ASSUME NEW n \in 1..MaxSets PROVE Before(n)' /\ (raced' = {} => After(n)')
    BY DEF Shots
  <2>1. Before(n) /\ (raced' = {} => After(n))
    BY <1>i, <1>u DEF Shots, Noted
  <2>2. ~Early(g, n)
    BY <1>g DEF Early
  <2>3. \A r \in Sigs : (Armed(r, n)' <=> Armed(r, n)) /\ (table'[r].id = n => table[r].id = n)
    BY <1>u DEF Armed
  <2>4. CASE ~Late(g, n)
    <3>1. Less(n) /\ Stands(n)
      BY <1>i, <1>2, <2>2, <2>4, LessStep
    <3> QED BY <1>u, <2>1, <2>3, <3>1, BeforeKept, AfterKept
  <2>5. CASE Late(g, n)
    <3>1. table[s].id = n /\ Armed(s, n) /\ On(g, s, "reset")
      BY <1>u, <1>s, <1>g, <2>5 DEF Late, Armed, On
    <3>2. \A u \in Threads : \A i \in At(u) : ~Early(stack[u][i], n)
      BY <1>t, <2>1, <3>1 DEF Before
    <3>3. \A u \in Threads : \A i \in 1..Len(stack'[u]) : ~Early(stack'[u][i], n)
      BY <1>i, <1>2, <2>2, <3>2, StepFrames DEF Old
    <3>4. Before(n)'
      BY <3>3 DEF Before, At, Early
    <3>5. ASSUME raced' = {} PROVE After(n)'
      <4>1. /\ shots[n] = 0
            /\ \A r \in Sigs : Armed(r, n) => r = s
            /\ \A u \in Threads : \A j \in At(u) : Late(stack[u][j], n) => On(stack[u][j], s, "reset")
        BY <1>t, <2>1, <3>1, <3>5 DEF After
      <4>2. ASSUME NEW u \in Threads, NEW j \in 1..Len(stack'[u]), Late(stack'[u][j], n), Old(u, j)
            PROVE  FALSE
        <5>1. On(stack[u][j], s, "reset") /\ j \in At(u)
          BY <4>1, <4>2 DEF Old
        <5>2. stack' \in Stacks /\ stack'[t] \in Seq(Frame) /\ stack'[u] \in Seq(Frame)
          BY <1>m DEF Moved, Stacks
        <5>3. Len(stack[t]) \in 1..Len(stack'[t]) /\ stack'[t][Len(stack[t])] = g
          BY <1>m DEF Moved, At
        <5>4. Changing(u, s)' /\ Changing(t, s)'
          BY <3>1, <4>2, <5>1, <5>2, <5>3 DEF Changing, On, Old
        <5>5. u = t
          BY <1>t, <1>4, <3>5, <5>4 DEF Alone
        <5>6. j = Len(stack[t])
          BY <1>i, <5>1, <5>5 DEF OnTop, On
        <5> QED BY <1>t, <5>1, <5>5, <5>6 DEF On
      <4>3. \A u \in Threads : \A j \in 1..Len(stack'[u]) :
              Late(stack'[u][j], n) => u = t /\ j = Place(t) /\ stack'[u][j] = g
        BY <1>i, <1>2, <4>2, StepFrames
      <4>4. \A u \in Threads : \A j \in 1..Len(stack'[u]) :
              Late(stack'[u][j], n) => On(stack'[u][j], s, "reset")
        BY <3>1, <4>3
      <4>5. \A r \in Sigs : Armed(r, n)' => r = s
        BY <2>3, <4>1
      <4> QED BY <1>u, <4>1, <4>3, <4>4, <4>5 DEF After, At, Late, On
    <3> QED BY <3>4, <3>5
  <2> QED BY <2>4, <2>5
<1> QED BY <1>m, <1>2, <1>3, <1>4, <1>5, <1>6 DEF IInv

LEMMA MaskEnterInv ==
  ASSUME IInv, NEW t \in Threads, MaskEnter(t)
  PROVE  IInv'
<1> DEFINE g == Masked(t, Top(t))
<1>i. TypeOK /\ OnTop /\ Nests /\ Seeds /\ Alone /\ Agree /\ Numbered /\ Shots
  BY DEF IInv
<1>u. UNCHANGED <<inherited, table, kdisp, userMask, shots, sets, raced>> /\ In(t, "mask")
  BY DEF MaskEnter, libc, counts
<1>t. Top(t) \in Frame /\ Top(t).pc = "mask" /\ Top(t).act.id <= sets /\ inherited = 2
  BY <1>u, TopInv
<1>m. Moved(t, g) /\ TypeOK'
  BY <1>i, MaskEnterMoves
<1>g. g.pc = "call" /\ g.act = Top(t).act /\ g.sig = Top(t).sig
  BY <1>i, <1>t, MaskedFacts
<1> HIDE DEF g
<1>1. Step(t, g) /\ ~Popped(t) /\ ~Pushed(t, g) /\ OnTop' /\ Seeds' /\ Numbered'
  BY <1>u, <1>t, <1>g, <1>m, Rest
<1>2. Nests'
  BY <1>i, NestsMasked
<1>3. Alone'
  BY <1>i, <1>u, <1>g, <1>1, AloneKept DEF Changes
<1>4. Agree'
  BY <1>i, <1>u, <1>t, <1>g, <1>1, AgreeKept DEF Reports
<1>5. Shots'
  <2>1. \A n \in 1..MaxSets : ~Early(g, n) /\ (Late(g, n) => Late(Top(t), n) /\ Top(t).pc # "reset")
    BY <1>t, <1>g DEF Early, Late
  <2> QED BY <1>i, <1>u, <1>m, <1>1, <2>1, ShotsKept
<1> QED BY <1>m, <1>1, <1>2, <1>3, <1>4, <1>5 DEF IInv

LEMMA ReturnInv ==
  ASSUME IInv, NEW t \in Threads, Return(t)
  PROVE  IInv'
<1> DEFINE g == To(Top(t), "leave")
<1>i. TypeOK /\ OnTop /\ Nests /\ Seeds /\ Alone /\ Agree /\ Numbered /\ Shots
  BY DEF IInv
<1>u. UNCHANGED <<inherited, table, kdisp, userMask, shots, sets, raced>> /\ In(t, "run")
  BY DEF Return, libc, counts
<1>t. Top(t) \in Frame /\ Top(t).pc = "run" /\ Top(t).act.id <= sets /\ inherited = 2
  BY <1>u, TopInv
<1>m. Moved(t, g) /\ TypeOK'
  BY <1>i, ReturnMoves
<1>g. g.pc = "leave" /\ g.act = Top(t).act /\ g.sig = Top(t).sig
  BY <1>t, ToFrame DEF Pcs, InHandler
<1> HIDE DEF g
<1>1. Step(t, g) /\ ~Popped(t) /\ ~Pushed(t, g) /\ OnTop' /\ Seeds' /\ Numbered'
  BY <1>u, <1>t, <1>g, <1>m, Rest
<1>2. Nests'
  BY <1>i, NestsReturned
<1>3. Alone'
  BY <1>i, <1>u, <1>g, <1>1, AloneKept DEF Changes
<1>4. Agree'
  BY <1>i, <1>u, <1>t, <1>g, <1>1, AgreeKept DEF Reports
<1>5. Shots'
  <2>1. \A n \in 1..MaxSets : ~Early(g, n) /\ ~Late(g, n)
    BY <1>g DEF Early, Late
  <2> QED BY <1>i, <1>u, <1>m, <1>1, <2>1, ShotsKept
<1> QED BY <1>m, <1>1, <1>2, <1>3, <1>4, <1>5 DEF IInv

LEMMA CallInv ==
  ASSUME IInv, NEW t \in Threads, Call(t)
  PROVE  IInv'
<1> DEFINE g == To(Top(t), "run") m == Top(t).act.id
<1>i. TypeOK /\ OnTop /\ Nests /\ Seeds /\ Alone /\ Agree /\ Numbered /\ Shots
  BY DEF IInv
<1>u. UNCHANGED <<inherited, table, kdisp, mask, userMask, sets, raced>> /\ In(t, "call")
  BY DEF Call, libc, kernel, counts
<1>t. /\ Top(t) \in Frame /\ Top(t).pc = "call" /\ m <= sets /\ inherited = 2
      /\ Len(stack[t]) \in At(t) /\ stack[t][Len(stack[t])] = Top(t)
  BY <1>u, TopInv
<1>m. Moved(t, g) /\ TypeOK'
  BY <1>i, CallMoves
<1>g. g.pc = "run" /\ g.act = Top(t).act /\ g.sig = Top(t).sig /\ g.old = Top(t).old
  BY <1>t, ToFrame DEF Pcs, InHandler
<1>1. /\ \A n \in 1..MaxSets : n # m => shots'[n] = shots[n]
      /\ Top(t).act.reset /\ m \in 1..MaxSets => shots'[m] = shots[m] + 1
      /\ ~Top(t).act.reset => shots' = shots
  <2>1. shots \in [1..MaxSets -> Nat]
    BY <1>i DEF TypeOK
  <2>2. CASE Top(t).act.reset
    <3>1. shots' = [shots EXCEPT ![m] = @ + 1]
      BY <2>2 DEF Call
    <3> QED BY <2>1, <2>2, <3>1
  <2>3. CASE ~Top(t).act.reset
    BY <2>3 DEF Call
  <2> QED BY <2>2, <2>3
<1> HIDE DEF g
<1>2. Step(t, g) /\ ~Popped(t) /\ ~Pushed(t, g) /\ OnTop' /\ Seeds' /\ Numbered'
  <2>1. \A n \in 1..MaxSets : n > sets => shots'[n] = shots[n]
    <3>1. sets \in Nat /\ m \in Nat
      <4>1. m \in 0..MaxSets
        BY <1>t, ActFacts DEF Frame
      <4> QED BY <1>i, <4>1, Bounds
    <3> QED BY <1>1, <1>t, <3>1
  <2> QED BY <1>u, <1>t, <1>g, <1>m, <2>1, Rest
<1>3. Nests'
  BY <1>i, <1>u, <1>t, <1>g, <1>m, NestsMoved DEF Active, InHandler
<1>4. Alone'
  BY <1>i, <1>u, <1>g, <1>2, AloneKept DEF Changes
<1>5. Agree'
  BY <1>i, <1>u, <1>t, <1>g, <1>2, AgreeKept DEF Reports
<1>6. Shots'
  <2> SUFFICES ASSUME NEW n \in 1..MaxSets PROVE Before(n)' /\ (raced' = {} => After(n)')
    BY DEF Shots
  <2>1. Before(n) /\ (raced' = {} => After(n))
    BY <1>i, <1>u DEF Shots
  <2>2. ~Early(g, n) /\ ~Late(g, n)
    BY <1>g DEF Early, Late
  <2>3. Less(n) /\ Stands(n)
    BY <1>i, <1>2, <2>2, LessStep
  <2>4. \A r \in Sigs : (Armed(r, n)' => Armed(r, n)) /\ (table'[r].id = n => table[r].id = n)
    BY <1>u DEF Armed
  <2>5. CASE shots'[n] = shots[n]
    BY <2>1, <2>3, <2>4, <2>5, BeforeKept, AfterKept
  <2>6. CASE n = m /\ Top(t).act.reset
    <3>1. Late(Top(t), n) /\ ~On(Top(t), Top(t).sig, "reset")
      BY <1>t, <2>6 DEF Late, On
    <3>2. \A u \in Threads : \A i \in At(u) : ~Early(stack[u][i], n)
      BY <1>t, <2>1, <3>1 DEF Before
    <3>3. Before(n)'
      BY <2>3, <3>2 DEF Before, Less, At, Early
    <3>4. ASSUME raced' = {} PROVE After(n)'
      <4>1. shots[n] = 0 /\ \A u \in Threads : \A j \in At(u) : Late(stack[u][j], n) => u = t /\ j = Len(stack[t])
        BY <1>t, <2>1, <3>1, <3>4 DEF After
      <4>2. \A r \in Sigs : ~Armed(r, n)'
        BY <1>t, <2>1, <2>4, <3>1, <3>4 DEF After, On
      <4>3. \A u \in Threads : \A j \in 1..Len(stack'[u]) : ~Late(stack'[u][j], n)
        BY <1>m, <2>2, <2>3, <4>1 DEF Less, Moved
      <4>4. shots'[n] <= 1
        BY <1>1, <2>6, <4>1
      <4> QED BY <4>2, <4>3, <4>4 DEF After, At, Late
    <3> QED BY <3>3, <3>4
  <2> QED BY <1>1, <2>5, <2>6
<1> QED BY <1>m, <1>2, <1>3, <1>4, <1>5, <1>6 DEF IInv

LEMMA StepInv == IInv /\ [Next]_vars => IInv'
<1> SUFFICES ASSUME IInv, [Next]_vars PROVE IInv'
  OBVIOUS
<1>i. TypeOK /\ pending \subseteq Sigs
  BY DEF IInv, TypeOK
<1>1. ASSUME NEW s \in Sigs, Send(s) PROVE IInv'
  BY <1>1, <1>i, StillInv DEF Send, libc
<1>2. ASSUME NEW s \in Sigs, KernelApplies(s) PROVE IInv'
  BY <1>2, <1>i, StillInv DEF KernelApplies, libc, counts
<1>3. ASSUME NEW t \in Threads, EnterDefault(t) PROVE IInv'
  BY <1>3, <1>i, StillInv DEF EnterDefault, libc, kernel, counts
<1>4. ASSUME NEW t \in Threads, EnterIgnored(t) PROVE IInv'
  BY <1>4, <1>i, EnterIgnoredMoves, GoneInv DEF EnterIgnored, libc, kernel, counts
<1>5. ASSUME NEW t \in Threads, Leave(t) PROVE IInv'
  BY <1>5, <1>i, LeaveMoves, GoneInv DEF Leave, libc, kernel, counts
<1>6. ASSUME NEW t \in Threads, Libc(t) PROVE IInv'
  BY <1>3, <1>4, <1>5, <1>6, SeedInv, SeedingInv, StoreInv, ReportInv, EnterHandlerInv,
     ResetInv, TellInv, MaskEnterInv, CallInv DEF Libc
<1>7. CASE UNCHANGED vars
  BY <1>7, <1>i, StillInv DEF vars, libc, kernel, counts
<1> QED BY <1>1, <1>2, <1>6, <1>7, ReturnInv, DeliverInv, SigactionInv, SetMaskInv DEF Next

LEMMA Invariant == Spec => []IInv
BY InitInv, StepInv, PTL DEF Spec

-----------------------------------------------------------------------------
\* However deep handlers nest and wherever the kernel delivers, no handler begins
\* above another that blocks its signal, and a thread that is back in its program
\* has the mask the program asked for.
THEOREM HandlersNest == Spec => []MasksNest
<1>1. IInv => MasksNest
  <2> SUFFICES ASSUME IInv PROVE MasksNest
    OBVIOUS
  <2>1. MaskHeld
    <3> SUFFICES ASSUME NEW t \in Threads, NEW i \in DOMAIN stack[t], NEW j \in DOMAIN stack[t],
                        i < j, stack[t][i].pc = "run", stack[t][j].pc = "run"
                 PROVE  /\ stack[t][j].sig \notin stack[t][i].act.mask
                        /\ stack[t][j].sig = stack[t][i].sig => stack[t][i].act.nodefer
      BY DEF MaskHeld
    <3>1. stack[t] \in Seq(Frame) /\ NestOf(stack[t], mask[t], userMask[t])
      BY DEF IInv, TypeOK, Stacks, Nests
    <3>2. i \in 1..Len(stack[t]) /\ j \in 1..Len(stack[t])
      BY <3>1
    <3>3. stack[t][j].sig \notin Stops(stack[t][i])
      BY <3>1, <3>2 DEF NestOf, Active, InHandler
    <3> QED BY <3>3 DEF Stops, Blocks
  <2>2. MaskRestored
    <3> SUFFICES ASSUME NEW t \in Threads, stack[t] = <<>> PROVE mask[t] = userMask[t]
      BY DEF MaskRestored
    <3>1. 1..Len(stack[t]) = {} /\ NestOf(stack[t], mask[t], userMask[t])
      BY DEF IInv, Nests
    <3> QED BY <3>1 DEF NestOf
  <2> QED BY <2>1, <2>2 DEF MasksNest
<1> QED BY <1>1, Invariant, PTL

\* The kernel has each signal's disposition as the libc has it, except while it is
\* reported and for signals two threads changed at once.
THEOREM KernelAgrees == Spec => []AgreesWithKernel
<1>1. IInv => AgreesWithKernel
  <2> SUFFICES ASSUME IInv, inherited = 2, Settled, NEW s \in Sigs \ raced PROVE kdisp[s] = table[s].h
    BY DEF AgreesWithKernel
  <2>1. ASSUME NEW t \in Threads, NEW i \in At(t)
        PROVE  ~On(stack[t][i], s, "report") /\ ~On(stack[t][i], s, "tell")
    <3>1. stack[t] \in Seq(Frame) /\ i \in DOMAIN stack[t]
      BY DEF IInv, TypeOK, Stacks, At
    <3> QED BY <3>1 DEF Settled, Frames, On
  <2> QED BY <2>1 DEF IInv, Agree
<1> QED BY <1>1, Invariant, PTL

\* A handler set with SA_RESETHAND runs once at most, unless two threads changed a
\* disposition at once.
THEOREM RunsOnce == Spec => []OneShot
<1>1. IInv => OneShot
  BY DEF IInv, Shots, After, OneShot
<1> QED BY <1>1, Invariant, PTL

-----------------------------------------------------------------------------
(* The semaphores.                                                         *)

Objs == Nat \cup {NoObj}
Records ==
  [at : {"free"}]
    \cup [at : {"opened"}, handle : Handles, obj : Nat]
    \cup [at : {"failed"}, handle : Handles]
    \cup [at : {"held"}, ptr : Ptrs, obj : Nat]
    \cup [at : {"closing"}, ptr : Ptrs]

SemTypeOK ==
  /\ byName \in [Names -> Objs] /\ made \in Nat
  /\ objOf \in [Handles -> Objs] /\ opens \in [Handles -> Nat]
  /\ Live \subseteq Ptrs /\ named \in [Live -> [handle : Handles, count : Nat]]
  /\ use \in [Uses -> Records]

\* A handle that is open has an object, and an object that is open one handle.
Kernel ==
  /\ \A h \in Handles : opens[h] = 0 <=> objOf[h] = NoObj
  /\ \A g, h \in Handles : objOf[g] = objOf[h] /\ objOf[g] # NoObj => g = h

\* What a use has from the kernel is the object it asked for, and what it has
\* from the table is there until it closes it.
Mine ==
  /\ \A u \in Uses : use[u].at = "opened" => objOf[use[u].handle] = use[u].obj
  /\ \A u \in Uses : use[u].at = "closing" => use[u].ptr \in Live

SemIInv == SemTypeOK /\ Kernel /\ Mine /\ SemIsTheirs /\ HandlesCounted

LEMMA SemInitInv == SemInit => SemIInv
<1> SUFFICES ASSUME SemInit PROVE SemIInv
  OBVIOUS
<1>1. Live = {} /\ named \in [Live -> [handle : Handles, count : Nat]]
  BY DEF SemInit, Live
<1>2. \A u \in Uses : use[u] = [at |-> "free"]
  BY DEF SemInit, Free
<1>3. SemTypeOK
  <2>1. use \in [Uses -> Records]
    BY DEF SemInit, Free, Records
  <2> QED BY <1>1, <2>1 DEF SemTypeOK, SemInit, Objs
<1>4. \A h \in Handles : Openers(h) = {}
  BY <1>2 DEF Openers
<1>5. HandlesCounted
  BY <1>1, <1>4, FS_EmptySet DEF HandlesCounted, SemInit
<1>6. Kernel /\ Mine /\ SemIsTheirs
  BY <1>1, <1>2 DEF Kernel, Mine, SemIsTheirs, SemInit
<1> QED BY <1>3, <1>5, <1>6 DEF SemIInv

-----------------------------------------------------------------------------
(* Counting *)

LEMMA Finite ==
  /\ \A h : IsFiniteSet(Openers(h))
  /\ \A p : IsFiniteSet(Users(p))
BY SemAssumption, FS_Subset DEF Openers, Users

LEMMA CountOne ==
  ASSUME NEW S, IsFiniteSet(S)
  PROVE  /\ Cardinality(S) \in Nat
         /\ Cardinality(S) = 0 <=> S = {}
         /\ Cardinality(S) = 1 => \A u \in S : S = {u}
<1>1. Cardinality(S) \in Nat
  BY FS_CardinalityType
<1>2. Cardinality(S) = 0 <=> S = {}
  BY FS_EmptySet
<1>3. ASSUME Cardinality(S) = 1, NEW u \in S PROVE S = {u}
  <2>1. IsFiniteSet(S \ {u}) /\ Cardinality(S \ {u}) = 0
    BY <1>3, FS_RemoveElement
  <2>2. S \ {u} = {}
    BY <2>1, FS_EmptySet
  <2> QED BY <1>3, <2>2
<1> QED BY <1>1, <1>2, <1>3

\* Two sets of uses that differ in u at most.
LEMMA SameUses ==
  ASSUME NEW S, NEW T, NEW u, S \ {u} = T \ {u}, u \in S <=> u \in T
  PROVE  S = T
OBVIOUS

LEMMA CountStep ==
  ASSUME NEW S, NEW T, NEW u, IsFiniteSet(S), IsFiniteSet(T), S \ {u} = T \ {u}
  PROVE  /\ Cardinality(S) \in Nat /\ Cardinality(T) \in Nat
         /\ (u \in S <=> u \in T) => S = T
         /\ u \in S /\ u \notin T => Cardinality(S) = Cardinality(T) + 1
         /\ u \notin S /\ u \in T => Cardinality(T) = Cardinality(S) + 1
<1>1. Cardinality(S) \in Nat /\ Cardinality(T) \in Nat
  BY FS_CardinalityType
<1>2. (u \in S <=> u \in T) => S = T
  OBVIOUS
<1>3. ASSUME u \in S, u \notin T PROVE Cardinality(S) = Cardinality(T) + 1
  <2>1. S = T \cup {u}
    BY <1>3
  <2> QED BY <1>3, <2>1, FS_AddElement
<1>4. ASSUME u \notin S, u \in T PROVE Cardinality(T) = Cardinality(S) + 1
  <2>1. T = S \cup {u}
    BY <1>4
  <2> QED BY <1>4, <2>1, FS_AddElement
<1> QED BY <1>1, <1>2, <1>3, <1>4

\* A step of the use u, which leaves it with r, to the sets the counts are of.
Moves(u, r) ==
  /\ use' = [use EXCEPT ![u] = r]
  /\ \A v \in Uses \ {u} : use[v].at = "held" =>
       named'[use[v].ptr].handle = named[use[v].ptr].handle

LEMMA Others ==
  ASSUME SemTypeOK, NEW u \in Uses, NEW r \in Records, Moves(u, r)
  PROVE  /\ use' \in [Uses -> Records] /\ use'[u] = r
         /\ \A v \in Uses \ {u} : use'[v] = use[v]
         /\ \A h : Openers(h)' \ {u} = Openers(h) \ {u}
         /\ \A p : Users(p)' \ {u} = Users(p) \ {u}
         /\ \A h : u \in Openers(h)' <=>
              \/ r.at \in {"opened", "failed"} /\ r.handle = h
              \/ r.at = "held" /\ named'[r.ptr].handle = h
         /\ \A p : u \in Users(p)' <=> r.at \in {"held", "closing"} /\ r.ptr = p
         /\ \A h : IsFiniteSet(Openers(h)')
         /\ \A p : IsFiniteSet(Users(p)')
<1>1. use' \in [Uses -> Records] /\ use'[u] = r /\ \A v \in Uses \ {u} : use'[v] = use[v]
  BY DEF SemTypeOK, Moves
<1>2. \A h : Openers(h)' \ {u} = Openers(h) \ {u}
  BY <1>1 DEF Openers, Moves
<1>3. \A p : Users(p)' \ {u} = Users(p) \ {u}
  BY <1>1 DEF Users
<1>4. \A h : IsFiniteSet(Openers(h)')
  BY SemAssumption, FS_Subset DEF Openers
<1>5. \A p : IsFiniteSet(Users(p)')
  BY SemAssumption, FS_Subset DEF Users
<1> QED BY <1>1, <1>2, <1>3, <1>4, <1>5 DEF Openers, Users

\* The kernel closes the handle of u: its object goes with its last use.
LEMMA Closes ==
  ASSUME SemIInv, NEW u \in Uses, NEW h \in Handles, u \in Openers(h), KernelCloses(h)
  PROVE  /\ objOf' \in [Handles -> Objs] /\ opens' \in [Handles -> Nat]
         /\ opens[h] = opens'[h] + 1
         /\ \A g \in Handles \ {h} : opens'[g] = opens[g] /\ objOf'[g] = objOf[g]
         /\ objOf'[h] \in {objOf[h], NoObj}
         /\ \A v \in Openers(h) \ {u} : objOf'[h] = objOf[h]
         /\ Kernel'
<1>1. opens[h] = Cardinality(Openers(h)) /\ opens[h] \in Nat
  BY DEF SemIInv, SemTypeOK, HandlesCounted
<1>2. opens[h] # 0 /\ (opens[h] = 1 => Openers(h) = {u})
  BY <1>1, Finite, CountOne
<1>3. /\ opens' = [opens EXCEPT ![h] = opens[h] - 1]
      /\ objOf' = [objOf EXCEPT ![h] = IF opens[h] = 1 THEN NoObj ELSE objOf[h]]
  BY DEF KernelCloses
<1>4. /\ objOf' \in [Handles -> Objs] /\ opens' \in [Handles -> Nat]
      /\ opens[h] = opens'[h] + 1
      /\ \A g \in Handles \ {h} : opens'[g] = opens[g] /\ objOf'[g] = objOf[g]
      /\ objOf'[h] = IF opens[h] = 1 THEN NoObj ELSE objOf[h]
  BY <1>1, <1>2, <1>3 DEF SemIInv, SemTypeOK, Objs
<1>5. \A v \in Openers(h) \ {u} : objOf'[h] = objOf[h]
  BY <1>2, <1>4
<1>6. \A g \in Handles : opens'[g] = 0 <=> objOf'[g] = NoObj
  BY <1>1, <1>2, <1>4 DEF SemIInv, Kernel
<1>7. \A f, g \in Handles : objOf'[f] = objOf'[g] /\ objOf'[f] # NoObj => f = g
  BY <1>4 DEF SemIInv, Kernel
<1> QED BY <1>4, <1>5, <1>6, <1>7 DEF Kernel

\* What the others have stays theirs, when the table is as it was and u has
\* neither an object nor a sem_t but one that it closes.
LEMMA OthersKeep ==
  ASSUME SemIInv, NEW u \in Uses, use' \in [Uses -> Records],
         named' = named, Live' = Live,
         use'[u].at \in {"free", "closing"}, use'[u].at = "closing" => use'[u].ptr \in Live,
         \A v \in Uses \ {u} : use'[v] = use[v],
         \A v \in Uses \ {u} : \A g \in Handles : v \in Openers(g) => objOf'[g] = objOf[g]
  PROVE  Mine' /\ SemIsTheirs'
<1>1. ASSUME NEW v \in Uses, use'[v].at = "opened" PROVE objOf'[use'[v].handle] = use'[v].obj
  <2>1. v # u /\ use'[v] = use[v] /\ use[v].at = "opened"
    BY <1>1
  <2>2. use[v].handle \in Handles /\ v \in Openers(use[v].handle)
    BY <2>1 DEF SemIInv, SemTypeOK, Records, Openers
  <2> QED BY <2>1, <2>2 DEF SemIInv, Mine
<1>2. ASSUME NEW v \in Uses, use'[v].at = "closing" PROVE use'[v].ptr \in Live'
  BY <1>2 DEF SemIInv, Mine
<1>3. ASSUME NEW v \in Uses, use'[v].at = "held"
      PROVE  use'[v].ptr \in Live' /\ objOf'[named'[use'[v].ptr].handle] = use'[v].obj
  <2>1. v # u /\ use'[v] = use[v] /\ use[v].at = "held"
    BY <1>3
  <2>2. use[v].ptr \in Live /\ objOf[named[use[v].ptr].handle] = use[v].obj
    BY <2>1 DEF SemIInv, SemIsTheirs
  <2>3. named[use[v].ptr].handle \in Handles /\ v \in Openers(named[use[v].ptr].handle)
    BY <2>1, <2>2 DEF SemIInv, SemTypeOK, Openers
  <2> QED BY <2>1, <2>2, <2>3
<1> QED BY <1>1, <1>2, <1>3 DEF SemIInv, Mine, SemIsTheirs

-----------------------------------------------------------------------------
(* One lemma per action *)

LEMMA OpenInv ==
  ASSUME SemIInv, NEW u \in Uses, NEW n \in Names, NEW h \in Handles, Open(u, n, h)
  PROVE  SemIInv'
<1> DEFINE o == byName'[n]
           r == [at |-> "opened", handle |-> h, obj |-> o]
<1>1. byName' \in [Names -> Objs] /\ made' \in Nat /\ o \in Nat
  <2>1. CASE byName[n] = NoObj
    BY <2>1 DEF Open, SemIInv, SemTypeOK, Objs
  <2>2. CASE byName[n] # NoObj
    BY <2>2 DEF Open, SemIInv, SemTypeOK, Objs
  <2> QED BY <2>1, <2>2
<1> HIDE DEF o
<1>2. r \in Records
  BY <1>1 DEF Records
<1>3. named' = named /\ Live' = Live /\ use[u].at = "free"
  BY DEF Open, Live
<1>4. Moves(u, r)
  BY <1>3 DEF Open, Moves, o
<1>5. /\ \A g : Openers(g)' \ {u} = Openers(g) \ {u}
      /\ \A p : Users(p)' \ {u} = Users(p) \ {u}
      /\ \A g : IsFiniteSet(Openers(g)') /\ IsFiniteSet(Users(g)')
      /\ use' \in [Uses -> Records] /\ use'[u] = r
      /\ \A v \in Uses \ {u} : use'[v] = use[v]
      /\ \A g : u \in Openers(g)' <=> g = h
      /\ \A p : u \notin Users(p)'
  BY <1>2, <1>4, Others DEF SemIInv
<1>6. \A g : u \notin Openers(g) /\ u \notin Users(g)
  BY <1>3 DEF Openers, Users
<1>7. /\ objOf' = [objOf EXCEPT ![h] = o] /\ opens' = [opens EXCEPT ![h] = opens[h] + 1]
      /\ IF \E g \in Handles : objOf[g] = o THEN objOf[h] = o ELSE objOf[h] = NoObj
  BY DEF Open, KernelOpens, o
<1>8. /\ objOf' \in [Handles -> Objs] /\ opens' \in [Handles -> Nat]
      /\ opens'[h] = opens[h] + 1 /\ objOf'[h] = o
      /\ \A g \in Handles \ {h} : opens'[g] = opens[g] /\ objOf'[g] = objOf[g]
      /\ opens[h] \in Nat
  BY <1>1, <1>7 DEF SemIInv, SemTypeOK, Objs
<1>9. o # NoObj
  BY <1>1, SemAssumption
<1>10. \A g \in Handles : g # h => objOf[g] # o
  BY <1>7, <1>9 DEF SemIInv, Kernel
<1>11. Kernel'
  BY <1>8, <1>9, <1>10 DEF SemIInv, Kernel
\* A handle with an object keeps it.
<1>12. \A g \in Handles : objOf[g] # NoObj => objOf'[g] = objOf[g]
  BY <1>7, <1>8
<1>13. SemTypeOK'
  BY <1>1, <1>3, <1>5, <1>8 DEF SemIInv, SemTypeOK
<1>14. Mine'
  <2>1. ASSUME NEW v \in Uses, use'[v].at = "opened" PROVE objOf'[use'[v].handle] = use'[v].obj
    <3>1. CASE v = u
      BY <3>1, <1>5, <1>8
    <3>2. CASE v # u
      <4>1. use'[v] = use[v] /\ use[v].handle \in Handles /\ use[v].obj \in Nat
        BY <2>1, <3>2, <1>5 DEF SemIInv, SemTypeOK, Records
      <4> QED BY <2>1, <4>1, <1>12, SemAssumption DEF SemIInv, Mine
    <3> QED BY <3>1, <3>2
  <2>2. ASSUME NEW v \in Uses, use'[v].at = "closing" PROVE use'[v].ptr \in Live'
    BY <2>2, <1>3, <1>5 DEF SemIInv, Mine
  <2> QED BY <2>1, <2>2 DEF Mine
<1>15. SemIsTheirs'
  <2>1. ASSUME NEW v \in Uses, use'[v].at = "held"
        PROVE  use'[v].ptr \in Live' /\ objOf'[named'[use'[v].ptr].handle] = use'[v].obj
    <3>1. use'[v] = use[v] /\ use[v].obj \in Nat
      BY <2>1, <1>5 DEF SemIInv, SemTypeOK, Records
    <3>2. use[v].ptr \in Live /\ objOf[named[use[v].ptr].handle] = use[v].obj
      BY <2>1, <3>1 DEF SemIInv, SemIsTheirs
    <3>3. named[use[v].ptr].handle \in Handles
      BY <3>2 DEF SemIInv, SemTypeOK
    <3> QED BY <3>1, <3>2, <3>3, <1>3, <1>12, SemAssumption
  <2> QED BY <2>1, <1>3 DEF SemIInv, SemIsTheirs
<1>16. HandlesCounted'
  <2>1. ASSUME NEW g \in Handles PROVE opens'[g] = Cardinality(Openers(g)')
    BY <1>5, <1>6, <1>8, Finite, CountStep DEF SemIInv, HandlesCounted
  <2>2. \A p \in Live : Users(p)' = Users(p)
    BY <1>5, <1>6
  <2> QED BY <2>1, <2>2, <1>3 DEF SemIInv, HandlesCounted
<1> QED BY <1>11, <1>13, <1>14, <1>15, <1>16 DEF SemIInv

\* A sem_t is given out: u, which had the handle, has its sem_t.
LEMMA GivesInv ==
  ASSUME SemIInv, NEW u \in Uses, use[u].at = "opened", UNCHANGED objects,
         NEW p \in Ptrs, Gives(u, p),
         named' \in [Live' -> [handle : Handles, count : Nat]],
         Live' = Live \cup {p}, named'[p].handle = use[u].handle,
         \A q \in Live \ {p} : named'[q] = named[q],
         p \in Live => named[p].handle = use[u].handle /\ named'[p].count = named[p].count + 1,
         p \notin Live => Entries(use[u].handle) = {} /\ named'[p].count = 1
  PROVE  SemIInv'
<1> DEFINE r == [at |-> "held", ptr |-> p, obj |-> use[u].obj]
<1>1. /\ use[u].handle \in Handles /\ use[u].obj \in Nat /\ r \in Records
      /\ objOf[use[u].handle] = use[u].obj
  BY DEF SemIInv, SemTypeOK, Mine, Records
<1>2. \A q \in Live : q \in Live' /\ named'[q].handle = named[q].handle
  OBVIOUS
<1>3. \A v \in Uses : use[v].at \in {"held", "closing"} => use[v].ptr \in Live
  BY DEF SemIInv, SemIsTheirs, Mine
<1>4. Moves(u, r)
  BY <1>2, <1>3 DEF Gives, Moves
<1>5. /\ \A g : Openers(g)' \ {u} = Openers(g) \ {u}
      /\ \A q : Users(q)' \ {u} = Users(q) \ {u}
      /\ \A g : IsFiniteSet(Openers(g)') /\ IsFiniteSet(Users(g)')
      /\ use' \in [Uses -> Records] /\ use'[u] = r
      /\ \A v \in Uses \ {u} : use'[v] = use[v]
      /\ \A g : u \in Openers(g)' <=> g = use[u].handle
      /\ \A q : u \in Users(q)' <=> q = p
  BY <1>1, <1>4, Others DEF SemIInv
<1>6. /\ \A g : u \in Openers(g) <=> g = use[u].handle
      /\ \A q : u \notin Users(q)
  BY DEF Openers, Users
<1>7. byName' = byName /\ made' = made /\ objOf' = objOf /\ opens' = opens
  BY DEF objects
<1>8. SemTypeOK' /\ Kernel'
  BY <1>5, <1>7 DEF SemIInv, SemTypeOK, Kernel
<1>9. Mine'
  BY <1>2, <1>5, <1>7 DEF SemIInv, Mine
<1>10. SemIsTheirs'
  <2>1. ASSUME NEW v \in Uses, use'[v].at = "held"
        PROVE  use'[v].ptr \in Live' /\ objOf'[named'[use'[v].ptr].handle] = use'[v].obj
    <3>1. CASE v = u
      BY <3>1, <1>1, <1>5, <1>7
    <3>2. CASE v # u
      BY <2>1, <3>2, <1>2, <1>5, <1>7 DEF SemIInv, SemIsTheirs
    <3> QED BY <3>1, <3>2
  <2>2. ASSUME NEW x \in Live', NEW y \in Live', named'[x].handle = named'[y].handle
        PROVE  x = y
    <3>1. \A q \in Live \ {p} : named[q].handle # use[u].handle
      BY DEF SemIInv, SemIsTheirs, Entries
    <3> QED BY <2>2, <3>1, <1>2 DEF SemIInv, SemIsTheirs
  <2> QED BY <2>1, <2>2 DEF SemIsTheirs
<1>11. HandlesCounted'
  <2>1. \A g \in Handles : opens'[g] = Cardinality(Openers(g)')
    <3>1. \A g : Openers(g)' = Openers(g)
      BY <1>5, <1>6, Finite, CountStep
    <3> QED BY <3>1, <1>7 DEF SemIInv, HandlesCounted
  <2>2. ASSUME NEW q \in Live'
        PROVE  named'[q].count = Cardinality(Users(q)') /\ Users(q)' # {}
    <3>1. CASE q # p
      <4>1. q \in Live /\ named'[q] = named[q]
        BY <3>1
      <4>2. Users(q)' = Users(q)
        BY <3>1, <1>5, <1>6, Finite, CountStep
      <4> QED BY <4>1, <4>2 DEF SemIInv, HandlesCounted
    <3>2. CASE q = p /\ p \in Live
      <4>1. Cardinality(Users(p)') = Cardinality(Users(p)) + 1 /\ u \in Users(p)'
        BY <1>5, <1>6, Finite, CountStep
      <4> QED BY <3>2, <4>1 DEF SemIInv, HandlesCounted
    <3>3. CASE q = p /\ p \notin Live
      <4>1. Users(p) = {}
        BY <3>3, <1>3 DEF Users
      <4>2. Cardinality(Users(p)) = 0
        BY <4>1, FS_EmptySet
      <4>3. Cardinality(Users(p)') = Cardinality(Users(p)) + 1 /\ u \in Users(p)'
        BY <1>5, <1>6, Finite, CountStep
      <4> QED BY <3>3, <4>2, <4>3
    <3> QED BY <3>1, <3>2, <3>3
  <2> QED BY <2>1, <2>2 DEF HandlesCounted
<1> QED BY <1>8, <1>9, <1>10, <1>11 DEF SemIInv

LEMMA OpenAgainInv ==
  ASSUME SemIInv, NEW u \in Uses, OpenAgain(u)
  PROVE  SemIInv'
<1>1. PICK p \in Entries(use[u].handle) : named' = Counted(p) /\ Gives(u, p)
  BY DEF OpenAgain
<1>2. p \in Live /\ named[p].handle = use[u].handle
  BY DEF Entries
<1>3. named' = [named EXCEPT ![p].count = named[p].count + 1]
  BY <1>1 DEF Counted
<1>4. /\ Live' = Live /\ named' \in [Live -> [handle : Handles, count : Nat]]
      /\ named'[p].handle = named[p].handle /\ named'[p].count = named[p].count + 1
      /\ \A q \in Live \ {p} : named'[q] = named[q]
  BY <1>2, <1>3 DEF SemIInv, SemTypeOK, Live
<1>5. p \in Ptrs
  BY <1>2 DEF SemIInv, SemTypeOK
<1> QED BY <1>1, <1>2, <1>4, <1>5, GivesInv DEF OpenAgain

LEMMA OpenFreshInv ==
  ASSUME SemIInv, NEW u \in Uses, OpenFresh(u)
  PROVE  SemIInv'
<1>1. PICK p \in Ptrs \ Live :
        /\ named' = [q \in Live \cup {p} |->
                       IF q = p THEN [handle |-> use[u].handle, count |-> 1] ELSE named[q]]
        /\ Gives(u, p)
  BY DEF OpenFresh
<1>2. use[u].at = "opened" /\ Entries(use[u].handle) = {} /\ UNCHANGED objects
  BY DEF OpenFresh, Fresh
<1>3. use[u].handle \in Handles
  BY <1>2 DEF SemIInv, SemTypeOK, Records
<1>4. /\ Live' = Live \cup {p} /\ named' \in [Live' -> [handle : Handles, count : Nat]]
      /\ named'[p].handle = use[u].handle /\ named'[p].count = 1
      /\ \A q \in Live \ {p} : named'[q] = named[q]
  BY <1>1, <1>3 DEF SemIInv, SemTypeOK, Live
<1> QED BY <1>1, <1>2, <1>4, GivesInv

LEMMA OpenFailsInv ==
  ASSUME SemIInv, NEW u \in Uses, OpenFails(u)
  PROVE  SemIInv'
<1> DEFINE r == [at |-> "failed", handle |-> use[u].handle]
<1>1. use[u].at = "opened" /\ r \in Records
  BY DEF OpenFails, Fresh, SemIInv, SemTypeOK, Records
<1>2. /\ named' = named /\ Live' = Live /\ byName' = byName /\ made' = made
      /\ objOf' = objOf /\ opens' = opens
  BY DEF OpenFails, objects, Live
<1>3. Moves(u, r)
  BY <1>2 DEF OpenFails, Moves
<1>4. /\ \A g : Openers(g)' \ {u} = Openers(g) \ {u}
      /\ \A q : Users(q)' \ {u} = Users(q) \ {u}
      /\ use' \in [Uses -> Records] /\ use'[u] = r
      /\ \A v \in Uses \ {u} : use'[v] = use[v]
      /\ \A g : u \in Openers(g)' <=> g = use[u].handle
      /\ \A q : u \notin Users(q)'
  BY <1>1, <1>3, Others DEF SemIInv
<1>5. /\ \A g : u \in Openers(g) <=> g = use[u].handle
      /\ \A q : u \notin Users(q)
  BY <1>1 DEF Openers, Users
<1>6. \A g : Openers(g)' = Openers(g) /\ Users(g)' = Users(g)
  BY <1>4, <1>5, SameUses
<1>7. HandlesCounted'
  BY <1>2, <1>6 DEF SemIInv, HandlesCounted
<1>8. SemTypeOK'
  BY <1>2, <1>4 DEF SemIInv, SemTypeOK
<1>9. Kernel'
  BY <1>2 DEF SemIInv, Kernel
<1>10. use'[u].at = "failed"
  BY <1>4
<1>11. Mine'
  BY <1>2, <1>4, <1>10 DEF SemIInv, Mine
<1>12. SemIsTheirs'
  BY <1>2, <1>4, <1>10 DEF SemIInv, SemIsTheirs
<1> QED BY <1>7, <1>8, <1>9, <1>11, <1>12 DEF SemIInv

LEMMA OpenUndoneInv ==
  ASSUME SemIInv, NEW u \in Uses, OpenUndone(u)
  PROVE  SemIInv'
<1> DEFINE h == use[u].handle
<1>1. use[u].at = "failed" /\ h \in Handles /\ Free \in Records
  BY DEF OpenUndone, SemIInv, SemTypeOK, Records, Free
<1>2. u \in Openers(h) /\ KernelCloses(h)
  BY <1>1 DEF OpenUndone, Openers, Undoes
<1>3. named' = named /\ Live' = Live /\ byName' = byName /\ made' = made
  BY <1>2 DEF OpenUndone, KernelCloses, Live
<1>4. /\ objOf' \in [Handles -> Objs] /\ opens' \in [Handles -> Nat]
      /\ opens[h] = opens'[h] + 1
      /\ \A g \in Handles \ {h} : opens'[g] = opens[g] /\ objOf'[g] = objOf[g]
      /\ \A v \in Openers(h) \ {u} : objOf'[h] = objOf[h]
      /\ Kernel'
  BY <1>1, <1>2, Closes
<1>5. Moves(u, Free)
  BY <1>3 DEF OpenUndone, Moves
<1>6. /\ \A g : Openers(g)' \ {u} = Openers(g) \ {u}
      /\ \A q : Users(q)' \ {u} = Users(q) \ {u}
      /\ \A g : IsFiniteSet(Openers(g)') /\ IsFiniteSet(Users(g)')
      /\ use' \in [Uses -> Records] /\ use'[u] = Free
      /\ \A v \in Uses \ {u} : use'[v] = use[v]
      /\ \A g : u \notin Openers(g)' /\ u \notin Users(g)'
  BY <1>1, <1>5, Others DEF SemIInv, Free
<1>7. \A g : (u \in Openers(g) <=> g = h) /\ u \notin Users(g)
  BY <1>1 DEF Openers, Users
<1>8. ASSUME NEW v \in Uses, v # u, NEW g \in Handles, v \in Openers(g)
      PROVE  objOf'[g] = objOf[g]
  BY <1>4, <1>8
<1>9. SemTypeOK'
  BY <1>3, <1>4, <1>6 DEF SemIInv, SemTypeOK
<1>10. Mine' /\ SemIsTheirs'
  <2>1. \A v \in Uses \ {u} : \A g \in Handles : v \in Openers(g) => objOf'[g] = objOf[g]
    BY <1>8
  <2>2. use'[u].at = "free"
    BY <1>6 DEF Free
  <2> QED BY <1>3, <1>6, <2>1, <2>2, OthersKeep
<1>11. HandlesCounted'
  <2>1. ASSUME NEW g \in Handles PROVE opens'[g] = Cardinality(Openers(g)')
    <3>1. opens[g] = Cardinality(Openers(g)) /\ opens[g] \in Nat
      BY DEF SemIInv, SemTypeOK, HandlesCounted
    <3>2. IsFiniteSet(Openers(g)) /\ IsFiniteSet(Openers(g)')
      BY <1>6, Finite
    <3>3. CASE g = h
      <4>1. Cardinality(Openers(g)') \in Nat /\ Cardinality(Openers(g)) = Cardinality(Openers(g)') + 1
        BY <3>2, <3>3, <1>6, <1>7, CountStep
      <4> QED BY <3>1, <3>3, <4>1, <1>1, <1>4
    <3>4. CASE g # h
      <4>1. Openers(g)' = Openers(g)
        BY <3>2, <3>4, <1>6, <1>7, CountStep
      <4> QED BY <3>1, <3>4, <4>1, <1>4
    <3> QED BY <3>3, <3>4
  <2>2. \A q : Users(q)' = Users(q)
    BY <1>6, <1>7, Finite, CountStep
  <2> QED BY <2>1, <2>2, <1>3 DEF SemIInv, HandlesCounted
<1> QED BY <1>4, <1>9, <1>10, <1>11 DEF SemIInv

LEMMA CloseInv ==
  ASSUME SemIInv, NEW u \in Uses, Close(u)
  PROVE  SemIInv'
<1> DEFINE p == use[u].ptr
           h == named[p].handle
           r == [at |-> "closing", ptr |-> p]
<1>1. use[u].at = "held" /\ p \in Live /\ p \in Ptrs /\ h \in Handles /\ r \in Records
  BY DEF Close, SemIInv, SemTypeOK, Records, SemIsTheirs
<1>2. u \in Openers(h) /\ KernelCloses(h)
  BY <1>1 DEF Close, Openers
<1>3. named' = named /\ Live' = Live /\ byName' = byName /\ made' = made
  BY <1>2 DEF Close, KernelCloses, Live
<1>4. /\ objOf' \in [Handles -> Objs] /\ opens' \in [Handles -> Nat]
      /\ opens[h] = opens'[h] + 1
      /\ \A g \in Handles \ {h} : opens'[g] = opens[g] /\ objOf'[g] = objOf[g]
      /\ \A v \in Openers(h) \ {u} : objOf'[h] = objOf[h]
      /\ Kernel'
  BY <1>1, <1>2, Closes
<1>5. Moves(u, r)
  BY <1>3 DEF Close, Moves
<1>6. /\ \A g : Openers(g)' \ {u} = Openers(g) \ {u}
      /\ \A q : Users(q)' \ {u} = Users(q) \ {u}
      /\ \A g : IsFiniteSet(Openers(g)') /\ IsFiniteSet(Users(g)')
      /\ use' \in [Uses -> Records] /\ use'[u] = r
      /\ \A v \in Uses \ {u} : use'[v] = use[v]
      /\ \A g : u \notin Openers(g)' /\ (u \in Users(g)' <=> g = p)
  BY <1>1, <1>5, Others DEF SemIInv
<1>7. \A g : (u \in Openers(g) <=> g = h) /\ (u \in Users(g) <=> g = p)
  BY <1>1 DEF Openers, Users
<1>8. ASSUME NEW v \in Uses, v # u, NEW g \in Handles, v \in Openers(g)
      PROVE  objOf'[g] = objOf[g]
  BY <1>4, <1>8
<1>9. SemTypeOK'
  BY <1>3, <1>4, <1>6 DEF SemIInv, SemTypeOK
<1>10. Mine' /\ SemIsTheirs'
  <2>1. \A v \in Uses \ {u} : \A g \in Handles : v \in Openers(g) => objOf'[g] = objOf[g]
    BY <1>8
  <2>2. use'[u].at = "closing" /\ use'[u].ptr \in Live
    BY <1>1, <1>6
  <2> QED BY <1>3, <1>6, <2>1, <2>2, OthersKeep
<1>11. HandlesCounted'
  <2>1. ASSUME NEW g \in Handles PROVE opens'[g] = Cardinality(Openers(g)')
    <3>1. opens[g] = Cardinality(Openers(g)) /\ opens[g] \in Nat
      BY DEF SemIInv, SemTypeOK, HandlesCounted
    <3>2. IsFiniteSet(Openers(g)) /\ IsFiniteSet(Openers(g)')
      BY <1>6, Finite
    <3>3. CASE g = h
      <4>1. Cardinality(Openers(g)') \in Nat /\ Cardinality(Openers(g)) = Cardinality(Openers(g)') + 1
        BY <3>2, <3>3, <1>6, <1>7, CountStep
      <4> QED BY <3>1, <3>3, <4>1, <1>1, <1>4
    <3>4. CASE g # h
      <4>1. Openers(g)' = Openers(g)
        BY <3>4, <1>6, <1>7, SameUses
      <4> QED BY <3>1, <3>4, <4>1, <1>4
    <3> QED BY <3>3, <3>4
  <2>2. \A q : Users(q)' = Users(q)
    BY <1>6, <1>7, SameUses
  <2> QED BY <2>1, <2>2, <1>3 DEF SemIInv, HandlesCounted
<1> QED BY <1>4, <1>9, <1>10, <1>11 DEF SemIInv

LEMMA CloseEntryInv ==
  ASSUME SemIInv, NEW u \in Uses, CloseEntry(u)
  PROVE  SemIInv'
<1>p. PICK p : p = use[u].ptr
  OBVIOUS
<1>1. use[u].at = "closing" /\ p \in Live /\ u \in Users(p) /\ Free \in Records
  BY <1>p DEF CloseEntry, SemIInv, Mine, Users, Records, Free
<1>2. named[p].count = Cardinality(Users(p)) /\ named[p].count \in Nat
  BY <1>1 DEF SemIInv, SemTypeOK, HandlesCounted
<1>3. named[p].count = 1 => Users(p) = {u}
  BY <1>1, <1>2, Finite, CountOne
<1>4. /\ Live' \subseteq Live /\ named' \in [Live' -> [handle : Handles, count : Nat]]
      /\ \A q \in Live' : named'[q].handle = named[q].handle
      /\ \A q \in Live \ {p} : q \in Live' /\ named'[q] = named[q]
      /\ p \in Live' <=> named[p].count # 1
      /\ p \in Live' => named[p].count = named'[p].count + 1
  <2>1. CASE named[p].count = 1
    <3>1. named' = [q \in Live \ {p} |-> named[q]]
      BY <2>1, <1>p, <1>1 DEF CloseEntry, LastOpen
    <3> QED BY <2>1, <3>1 DEF SemIInv, SemTypeOK, Live
  <2>2. CASE named[p].count # 1
    <3>1. named' = [named EXCEPT ![p].count = named[p].count - 1]
      BY <2>2, <1>p, <1>1 DEF CloseEntry, LastOpen
    <3>2. named[p].count > 0
      BY <1>1, <1>2, Finite, CountOne
    <3> QED BY <2>2, <1>1, <1>2, <3>1, <3>2 DEF SemIInv, SemTypeOK, Live
  <2> QED BY <2>1, <2>2
<1>5. ASSUME NEW v \in Uses, v # u, use[v].at \in {"held", "closing"}
      PROVE  use[v].ptr \in Live'
  <2>1. use[v].ptr \in Live /\ v \in Users(use[v].ptr)
    BY <1>5 DEF SemIInv, SemIsTheirs, Mine, Users
  <2> QED BY <1>3, <1>4, <1>5, <2>1
<1>6. /\ byName' = byName /\ made' = made /\ objOf' = objOf /\ opens' = opens
  BY DEF CloseEntry, objects
<1>7. Moves(u, Free)
  BY <1>4, <1>5 DEF CloseEntry, Moves
<1>8. /\ \A g : Openers(g)' \ {u} = Openers(g) \ {u}
      /\ \A q : Users(q)' \ {u} = Users(q) \ {u}
      /\ \A g : IsFiniteSet(Openers(g)') /\ IsFiniteSet(Users(g)')
      /\ use' \in [Uses -> Records] /\ use'[u] = Free
      /\ \A v \in Uses \ {u} : use'[v] = use[v]
      /\ \A g : u \notin Openers(g)' /\ u \notin Users(g)'
  BY <1>1, <1>7, Others DEF SemIInv, Free
<1>9. \A g : u \notin Openers(g) /\ (u \in Users(g) <=> g = p)
  BY <1>p, <1>1 DEF Openers, Users
<1>10. SemTypeOK' /\ Kernel'
  BY <1>4, <1>6, <1>8 DEF SemIInv, SemTypeOK, Kernel
<1>11. use'[u].at = "free"
  BY <1>8 DEF Free
<1>12. Mine'
  BY <1>5, <1>6, <1>8, <1>11 DEF SemIInv, Mine
<1>13. SemIsTheirs'
  BY <1>4, <1>5, <1>6, <1>8, <1>11 DEF SemIInv, SemIsTheirs
<1>14. HandlesCounted'
  <2>1. \A g : Openers(g)' = Openers(g)
    BY <1>8, <1>9, SameUses
  <2>2. ASSUME NEW q \in Live'
        PROVE  named'[q].count = Cardinality(Users(q)') /\ Users(q)' # {}
    <3>1. CASE q # p
      <4>1. Users(q)' = Users(q)
        BY <3>1, <1>8, <1>9, SameUses
      <4> QED BY <3>1, <4>1, <1>4 DEF SemIInv, HandlesCounted
    <3>2. CASE q = p
      <4>1. /\ Cardinality(Users(p)') \in Nat /\ Cardinality(Users(p)) = Cardinality(Users(p)') + 1
            /\ (Users(p)' = {} <=> Cardinality(Users(p)') = 0)
        BY <1>1, <1>8, Finite, CountStep, CountOne
      <4> QED BY <3>2, <4>1, <1>2, <1>4 DEF SemTypeOK
    <3> QED BY <3>1, <3>2
  <2> QED BY <2>1, <2>2, <1>6 DEF SemIInv, HandlesCounted
<1> QED BY <1>10, <1>12, <1>13, <1>14 DEF SemIInv

-----------------------------------------------------------------------------

\* The names are the kernel's alone.
LEMMA SemStillInv ==
  ASSUME SemIInv, UNCHANGED <<made, objOf, opens, named, use>>, byName' \in [Names -> Objs]
  PROVE  SemIInv'
<1>1. Live' = Live
  BY DEF Live
<1>2. \A g : Openers(g)' = Openers(g) /\ Users(g)' = Users(g)
  BY DEF Openers, Users
<1>3. HandlesCounted'
  BY <1>1, <1>2 DEF SemIInv, HandlesCounted
<1>4. SemTypeOK' /\ Kernel' /\ Mine' /\ SemIsTheirs'
  BY <1>1 DEF SemIInv, SemTypeOK, Kernel, Mine, SemIsTheirs
<1> QED BY <1>3, <1>4 DEF SemIInv

LEMMA SemStepInv == SemIInv /\ [SemNext]_semVars => SemIInv'
<1> SUFFICES ASSUME SemIInv, [SemNext]_semVars PROVE SemIInv'
  OBVIOUS
<1>1. ASSUME NEW u \in Uses, Proceed(u) PROVE SemIInv'
  BY <1>1, OpenAgainInv, OpenFreshInv, OpenFailsInv, OpenUndoneInv, CloseEntryInv DEF Proceed
<1>2. ASSUME NEW u \in Uses, Close(u) PROVE SemIInv'
  BY <1>2, CloseInv
<1>3. ASSUME NEW u \in Uses, NEW n \in Names, NEW h \in Handles, Open(u, n, h) PROVE SemIInv'
  BY <1>3, OpenInv
<1>4. ASSUME NEW n \in Names, Unlink(n) PROVE SemIInv'
  <2>1. UNCHANGED <<made, objOf, opens, named, use>> /\ byName' \in [Names -> Objs]
    BY <1>4 DEF Unlink, SemIInv, SemTypeOK, Objs
  <2> QED BY <2>1, SemStillInv
<1>5. CASE UNCHANGED semVars
  BY <1>5, SemStillInv DEF semVars, SemIInv, SemTypeOK
<1> QED BY <1>1, <1>2, <1>3, <1>4, <1>5 DEF SemNext

LEMMA SemInvariant == SemSpec => []SemIInv
BY SemInitInv, SemStepInv, PTL DEF SemSpec

-----------------------------------------------------------------------------
\* A sem_t that a program has open is allocated and leads to the semaphore that
\* sem_open was called for, though the kernel's handle is given back before the
\* table is updated, and an open semaphore has one sem_t.
THEOREM SemStays == SemSpec => []SemIsTheirs
<1>1. SemIInv => SemIsTheirs
  BY DEF SemIInv
<1> QED BY <1>1, SemInvariant, PTL

\* The kernel has a handle open once for each sem_open that is not closed, those
\* whose allocation failed included until they are undone, and the table counts
\* those that have each sem_t.
THEOREM CountsAgree == SemSpec => []HandlesCounted
<1>1. SemIInv => HandlesCounted
  BY DEF SemIInv
<1> QED BY <1>1, SemInvariant, PTL
================================================================================
