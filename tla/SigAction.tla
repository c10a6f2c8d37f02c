------------------------------ MODULE SigAction ------------------------------
(***************************************************************************)
(* Signals in the patched WASIX libc: sigaction() and its report of each   *)
(* disposition to the kernel, the one-time seeding of the ignored signals  *)
(* inherited across exec, and __wasm_signal, which the kernel calls on a   *)
(* thread to run a handler under its sa_mask.                              *)
(*                                                                         *)
(* The kernel is external: it keeps a disposition per signal, a mask per   *)
(* thread and the pending signals, applies SIG_DFL and SIG_IGN itself, and *)
(* delivers a handled signal to a thread that does not block it, when that *)
(* thread runs the program or has just returned from a host call.          *)
(***************************************************************************)
EXTENDS Naturals, Sequences, FiniteSets

CONSTANTS Threads,
          Sigs,
          BadSig,    \* a number that is no signal, or one of the libc's own
          Ignored,   \* the signals whose default is to be ignored
          Inherited, \* those that may be ignored when the program is exec'd
          Acts,      \* the sigactions the program uses: [h : "dfl", "ign" or
                     \* "fn", reset (SA_RESETHAND), nodefer (SA_NODEFER), mask]
          Masks,     \* the masks its threads set
          MaxSets, MaxSends, MaxDepth \* bounds

ASSUME SigAssumption ==
  /\ BadSig \notin Sigs
  /\ Ignored \subseteq Sigs /\ Inherited \subseteq Sigs
  /\ \A a \in Acts : /\ a.h \in {"dfl", "ign", "fn"}
                     /\ a.reset \in BOOLEAN /\ a.nodefer \in BOOLEAN
                     /\ a.mask \subseteq Sigs
  /\ Masks \subseteq SUBSET Sigs
  /\ {MaxSets, MaxSends, MaxDepth} \subseteq Nat

VARIABLES
  table,     \* __eintr_handler_callbacks, each with the number of the
             \* sigaction call that stored it (0 for none)
  inherited, \* inherited_state
  stack,     \* per thread, the calls it is in: sigaction calls and, nested,
             \* activations of __wasm_signal
  kdisp,     \* the kernel's dispositions
  mask,      \* the kernel's mask of each thread
  pending,   \* signals sent and not delivered yet
  fate,      \* "alive"; "ended" by a default action; "trapped" in a call
             \* through SIG_IGN
  userMask,  \* the mask each thread's program asked for
  shots,     \* per sigaction call, the runs of its SA_RESETHAND handler
  sets, sends,\* sigaction calls made and signals sent
  raced      \* the signals whose disposition two threads changed at once
libc == <<table, inherited>>
kernel == <<kdisp, mask, pending>>
counts == <<sets, sends>>
vars == <<libc, stack, kernel, fate, userMask, shots, counts, raced>>

Default == [h |-> "dfl", reset |-> FALSE, nodefer |-> FALSE, mask |-> {}, id |-> 0]
Top(t) == stack[t][Len(stack[t])]
Pc(t) == IF stack[t] = <<>> THEN "program" ELSE Top(t).pc
In(t, pc) == fate = "alive" /\ Pc(t) = pc
\* The thread runs the program: outside any handler, or in one.
InProgram(t) == fate = "alive" /\ Pc(t) \in {"program", "run"}

Push(t, f) == stack' = [stack EXCEPT ![t] = Append(@, f)]
Pop(t) == stack' = [stack EXCEPT ![t] = SubSeq(@, 1, Len(@) - 1)]
Goto(t, pc) == stack' = [stack EXCEPT ![t][Len(stack[t])].pc = pc]

Init ==
  /\ table = [s \in Sigs |-> Default]
  /\ inherited = 0
  /\ stack = [t \in Threads |-> <<>>]
  /\ \E ign \in SUBSET Inherited :
       kdisp = [s \in Sigs |-> IF s \in ign THEN "ign" ELSE "dfl"]
  /\ mask = [t \in Threads |-> {}] /\ userMask = mask
  /\ pending = {}
  /\ fate = "alive"
  /\ shots = [i \in 1..MaxSets |-> 0]
  /\ sets = 0 /\ sends = 0 /\ raced = {}

\* Between its first look at the table, or change of it, and its report.
Changing(t, s) ==
  \E i \in DOMAIN stack[t] : stack[t][i].sig = s /\ stack[t][i].pc \in {"report", "reset", "tell"}
Racing == {s \in Sigs : \E t, u \in Threads : t # u /\ Changing(t, s) /\ Changing(u, s)}
Noted == raced' = raced \cup Racing'

-----------------------------------------------------------------------------
(* The kernel and the program *)

\* kill(), raise(), a timer, another process.
Send(s) ==
  /\ fate = "alive" /\ sends < MaxSends
  /\ sends' = sends + 1
  /\ pending' = pending \cup {s}
  /\ UNCHANGED <<libc, stack, kdisp, mask, fate, userMask, shots, sets, raced>>

\* A signal without a handler: the kernel applies the disposition.
KernelApplies(s) ==
  /\ fate = "alive" /\ s \in pending /\ kdisp[s] # "fn"
  /\ \E t \in Threads : s \notin mask[t]
  /\ pending' = pending \ {s}
  /\ fate' = IF kdisp[s] = "dfl" /\ s \notin Ignored THEN "ended" ELSE fate
  /\ UNCHANGED <<libc, stack, kdisp, mask, userMask, shots, counts, raced>>

\* A handled one: the kernel calls __wasm_signal on a thread, in the program
\* or as a host call of the libc returns.
Deliver(t, s) ==
  /\ fate = "alive" /\ Pc(t) \in {"program", "mask", "call", "run", "leave"}
  /\ Len(stack[t]) < MaxDepth
  /\ s \in pending \ mask[t] /\ kdisp[s] = "fn"
  /\ pending' = pending \ {s}
  /\ Push(t, [sig |-> s, pc |-> "enter", act |-> Default, old |-> {}])
  /\ UNCHANGED <<libc, kdisp, mask, fate, userMask, shots, counts, raced>>

\* pthread_sigmask(SIG_SETMASK) by the program, outside handlers.
SetMask(t, m) ==
  /\ InProgram(t) /\ stack[t] = <<>>
  /\ mask' = [mask EXCEPT ![t] = m] /\ userMask' = [userMask EXCEPT ![t] = m]
  /\ UNCHANGED <<libc, stack, kdisp, pending, fate, shots, counts, raced>>

-----------------------------------------------------------------------------
(* __libc_sigaction *)

\* __sigaction_inner refuses a bad signal.
Valid(s) == s # BadSig
Sigaction(t, s, a) ==
  /\ Valid(s)
  /\ InProgram(t) /\ Len(stack[t]) < MaxDepth /\ sets < MaxSets
  /\ sets' = sets + 1
  /\ Push(t, [sig |-> s, pc |-> "seed", act |-> [h |-> a.h, reset |-> a.reset,
                nodefer |-> a.nodefer, mask |-> a.mask, id |-> sets'], old |-> {}])
  /\ UNCHANGED <<libc, kernel, fate, userMask, shots, sends, raced>>

\* seed_inherited: done; the first to come asks the kernel; the others spin.
Seed(t) ==
  /\ In(t, "seed")
  /\ \/ inherited = 2 /\ Goto(t, "store") /\ UNCHANGED inherited
     \/ inherited = 0 /\ inherited' = 1 /\ Goto(t, "seeding")
  /\ UNCHANGED <<table, kernel, fate, userMask, shots, counts, raced>>

\* (Mutant: only a kernel that answered ends the seeding.)
SeededIfAnswered(ok) == IF ok THEN 2 ELSE inherited
Seeded(ok) == 2
\* sigaction_inherited, and the store.  A kernel that keeps ignored signals
\* across exec has the call, and nobody has reported a disposition before this.
Seeding(t) ==
  /\ In(t, "seeding")
  /\ \E ok \in BOOLEAN :
       /\ (\E s \in Sigs : kdisp[s] = "ign") => ok
       /\ table' = [s \in Sigs |-> IF ok /\ kdisp[s] = "ign" /\ table[s].h = "dfl"
                                     THEN [table[s] EXCEPT !.h = "ign"] ELSE table[s]]
       /\ inherited' = Seeded(ok)
  /\ Goto(t, "store")
  /\ UNCHANGED <<kernel, fate, userMask, shots, counts, raced>>

\* The table, under __eintr_handler_lock.
Store(t) ==
  /\ In(t, "store")
  /\ table' = [table EXCEPT ![Top(t).sig] = Top(t).act]
  /\ Goto(t, "report")
  /\ UNCHANGED <<inherited, kernel, fate, userMask, shots, counts>>
  /\ Noted

\* slicc_report_disposition, and the return.
Report(t) ==
  /\ In(t, "report")
  /\ kdisp' = [kdisp EXCEPT ![Top(t).sig] = Top(t).act.h]
  /\ Pop(t)
  /\ UNCHANGED <<libc, mask, pending, fate, userMask, shots, counts, raced>>

-----------------------------------------------------------------------------
(* __wasm_signal *)

\* The entry of the table is copied, under __eintr_handler_lock.
\* (Mutant: SA_RESETHAND is forgotten.)
AfterCopyMask(a) == "mask"
AfterCopy(a) == IF a.reset THEN "reset" ELSE "mask"
EnterIgnored(t) ==
  /\ In(t, "enter") /\ table[Top(t).sig].h = "ign"
  /\ Pop(t)
  /\ UNCHANGED <<libc, kernel, fate, userMask, shots, counts, raced>>
\* default_handler: it aborts, or calls SIG_IGN.
EnterDefault(t) ==
  /\ In(t, "enter") /\ table[Top(t).sig].h = "dfl"
  /\ fate' = IF Top(t).sig \in Ignored THEN "trapped" ELSE "ended"
  /\ UNCHANGED <<libc, stack, kernel, userMask, shots, counts, raced>>
EnterHandler(t) ==
  LET a == table[Top(t).sig] IN
  /\ In(t, "enter") /\ a.h = "fn"
  /\ stack' = [stack EXCEPT ![t][Len(stack[t])].act = a,
                            ![t][Len(stack[t])].pc = AfterCopy(a)]
  /\ UNCHANGED <<libc, kernel, fate, userMask, shots, counts>>
  /\ Noted

\* SA_RESETHAND, under the lock taken again.
AfterReset(a) == [a EXCEPT !.h = "dfl", !.reset = FALSE]
Reset(t) ==
  /\ In(t, "reset")
  /\ table' = [table EXCEPT ![Top(t).sig] = AfterReset(@)]
  /\ Goto(t, "tell")
  /\ UNCHANGED <<inherited, kernel, fate, userMask, shots, counts, raced>>
\* ... reported.  (Mutant: not reported.)
ToldNothing(s) == kdisp
Told(s) == [kdisp EXCEPT ![s] = "dfl"]
Tell(t) ==
  /\ In(t, "tell")
  /\ kdisp' = Told(Top(t).sig)
  /\ Goto(t, "mask")
  /\ UNCHANGED <<libc, mask, pending, fate, userMask, shots, counts, raced>>

\* handler_mask_enter: what is blocked while the handler runs.
Blocks(s, a) == a.mask \cup (IF a.nodefer THEN {} ELSE {s})
MaskEnter(t) ==
  /\ In(t, "mask")
  /\ stack' = [stack EXCEPT ![t][Len(stack[t])].old = mask[t],
                            ![t][Len(stack[t])].pc = "call"]
  /\ mask' = [mask EXCEPT ![t] = @ \cup Blocks(Top(t).sig, Top(t).act)]
  /\ UNCHANGED <<libc, kdisp, pending, fate, userMask, shots, counts, raced>>

Call(t) ==
  /\ In(t, "call")
  /\ shots' = IF Top(t).act.reset THEN [shots EXCEPT ![Top(t).act.id] = @ + 1] ELSE shots
  /\ Goto(t, "run")
  /\ UNCHANGED <<libc, kernel, fate, userMask, counts, raced>>

\* The handler returns and the old mask comes back.  (Mutant: what the
\* handler had blocked is unblocked.)
RestoredByUnblock(t) == mask[t] \ Blocks(Top(t).sig, Top(t).act)
Restored(t) == Top(t).old
Return(t) ==
  /\ In(t, "run")
  /\ mask' = [mask EXCEPT ![t] = Restored(t)]
  /\ Goto(t, "leave")
  /\ UNCHANGED <<libc, kdisp, pending, fate, userMask, shots, counts, raced>>
Leave(t) ==
  /\ In(t, "leave")
  /\ Pop(t)
  /\ UNCHANGED <<libc, kernel, fate, userMask, shots, counts, raced>>

\* What the libc does on its own once called.
Libc(t) ==
  \/ Seed(t) \/ Seeding(t) \/ Store(t) \/ Report(t)
  \/ EnterIgnored(t) \/ EnterDefault(t) \/ EnterHandler(t)
  \/ Reset(t) \/ Tell(t) \/ MaskEnter(t) \/ Call(t) \/ Leave(t)

Next ==
  \/ \E s \in Sigs : Send(s) \/ KernelApplies(s)
  \/ \E t \in Threads :
       \/ Libc(t) \/ Return(t)
       \/ \E s \in Sigs : Deliver(t, s)
       \/ \E s \in Sigs \cup {BadSig}, a \in Acts : Sigaction(t, s, a)
       \/ \E m \in Masks : SetMask(t, m)

\* Every thread is scheduled, and the program's handlers return.
Spec ==
  /\ Init /\ [][Next]_vars
  /\ \A t \in Threads : WF_vars(Libc(t)) /\ WF_vars(Return(t))

-----------------------------------------------------------------------------
Frames(t) == {stack[t][i] : i \in DOMAIN stack[t]}
\* While a handler runs on a thread, no handler of a signal it blocks (its own,
\* unless SA_NODEFER, and its sa_mask) begins on that thread, however deep the
\* handlers nest and wherever the kernel delivers.
MaskHeld ==
  \A t \in Threads : \A i, j \in DOMAIN stack[t] :
    i < j /\ stack[t][i].pc = "run" /\ stack[t][j].pc = "run"
      => /\ stack[t][j].sig \notin stack[t][i].act.mask
         /\ stack[t][j].sig = stack[t][i].sig => stack[t][i].act.nodefer

\* A thread that is back in its program, outside handlers, has the mask the
\* program asked for.
MaskRestored == \A t \in Threads : stack[t] = <<>> => mask[t] = userMask[t]

\* So handlers mask what they say, and nest (sigaction.c:216-272).
MasksNest == MaskHeld /\ MaskRestored

\* A handler installed with SA_RESETHAND runs at most once, unless two threads
\* changed the signal's disposition at once.
OneShot == raced = {} => \A i \in 1..MaxSets : shots[i] <= 1

\* Nobody is between a change of the table and its report.
Settled == \A t \in Threads : \A f \in Frames(t) : f.pc \notin {"report", "tell"}
\* Then the kernel has the disposition of each signal that the libc has, unless
\* two threads changed it at once: the report is outside the lock.
AgreesWithKernel == inherited = 2 /\ Settled => \A s \in Sigs \ raced : kdisp[s] = table[s].h

\* A sigaction call returns: no thread spins for a seeding that never ends.
InSigaction(t) == \E f \in Frames(t) : f.pc \in {"seed", "seeding", "store", "report"}
SigactionReturns == \A t \in Threads : InSigaction(t) ~> ~InSigaction(t) \/ fate # "alive"
=============================================================================
