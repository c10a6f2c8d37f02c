------------------------------ MODULE NamedSem ------------------------------
(***************************************************************************)
(* Named semaphores of the patched WASIX libc in one process: sem_open and *)
(* sem_close keep a table of the sem_t's given out, under named_lock, next *)
(* to the kernel's own handles, which are opened and closed outside it.    *)
(*                                                                         *)
(* A use is one sem_open with the sem_close of what it returned, from the  *)
(* call to the end of the close; uses go on at the same time in threads of *)
(* their own, and any thread may close what another one opened.            *)
(*                                                                         *)
(* The kernel is external: a name leads to a semaphore object, an object   *)
(* that is open in the process has one handle, counted, and a handle whose *)
(* count is 0 may be given to another object.                              *)
(***************************************************************************)
EXTENDS Naturals, FiniteSets

CONSTANTS Uses,    \* uses there may be at a time
          Names,
          Handles, \* the kernel's handles
          Ptrs,    \* addresses malloc may return
          NoObj,   \* a name without an object, a free handle
          MaxObjs  \* bound on the semaphores created

ASSUME SemAssumption ==
  /\ IsFiniteSet(Uses)
  /\ MaxObjs \in Nat
  /\ NoObj \notin Nat

VARIABLES
  byName, \* the kernel's names
  made,   \* objects made
  objOf,  \* the object of each of the process's handles
  opens,  \* how often the kernel has each handle open
  named,  \* the table: for each sem_t in use, its handle and its count
  use     \* per use: where it is, what it has from the kernel or from the
          \* table, and the object that sem_open was called for
semVars == <<byName, made, objOf, opens, named, use>>
objects == <<byName, made, objOf, opens>>

Free == [at |-> "free"]
Live == DOMAIN named

SemInit ==
  /\ byName = [n \in Names |-> NoObj] /\ made = 0
  /\ objOf = [h \in Handles |-> NoObj] /\ opens = [h \in Handles |-> 0]
  /\ named = [p \in {} |-> [handle |-> 0, count |-> 0]]
  /\ use = [u \in Uses |-> Free]

\* slicc.sem_open and slicc.sem_close.
KernelOpens(o, h) ==
  /\ IF \E g \in Handles : objOf[g] = o THEN objOf[h] = o ELSE objOf[h] = NoObj
  /\ objOf' = [objOf EXCEPT ![h] = o]
  /\ opens' = [opens EXCEPT ![h] = @ + 1]
KernelCloses(h) ==
  /\ opens' = [opens EXCEPT ![h] = @ - 1]
  /\ objOf' = [objOf EXCEPT ![h] = IF opens[h] = 1 THEN NoObj ELSE @]
  /\ UNCHANGED <<byName, made>>

\* sem_open: the kernel opens the name, or makes it.
Open(u, n, h) ==
  /\ use[u].at = "free"
  /\ IF byName[n] = NoObj
       THEN made < MaxObjs /\ made' = made + 1 /\ byName' = [byName EXCEPT ![n] = made']
       ELSE UNCHANGED <<made, byName>>
  /\ KernelOpens(byName'[n], h)
  /\ use' = [use EXCEPT ![u] = [at |-> "opened", handle |-> h, obj |-> byName'[n]]]
  /\ UNCHANGED named

\* ... and then, under named_lock: a sem_t of that handle is given out again,
Entries(h) == {p \in Live : named[p].handle = h}
Gives(u, p) == use' = [use EXCEPT ![u] = [at |-> "held", ptr |-> p, obj |-> use[u].obj]]
Counted(p) == [named EXCEPT ![p].count = @ + 1]
OpenAgain(u) ==
  /\ use[u].at = "opened"
  /\ \E p \in Entries(use[u].handle) : named' = Counted(p) /\ Gives(u, p)
  /\ UNCHANGED objects
\* or a new one takes a free slot.
Fresh(u) == use[u].at = "opened" /\ Entries(use[u].handle) = {}
OpenFresh(u) ==
  /\ Fresh(u)
  /\ \E p \in Ptrs \ Live :
       /\ named' = [q \in Live \cup {p} |->
                      IF q = p THEN [handle |-> use[u].handle, count |-> 1] ELSE named[q]]
       /\ Gives(u, p)
  /\ UNCHANGED objects
\* No memory: the handle is closed again, after named_lock is released.
OpenFails(u) ==
  /\ Fresh(u)
  /\ use' = [use EXCEPT ![u] = [at |-> "failed", handle |-> use[u].handle]]
  /\ UNCHANGED <<objects, named>>
\* (Mutant: it stays open.)
UndoesNothing(h) == UNCHANGED objects
Undoes(h) == KernelCloses(h)
OpenUndone(u) ==
  /\ use[u].at = "failed"
  /\ Undoes(use[u].handle)
  /\ use' = [use EXCEPT ![u] = Free]
  /\ UNCHANGED named

\* sem_close of what sem_open returned: the kernel's handle first,
Close(u) ==
  /\ use[u].at = "held"
  /\ KernelCloses(named[use[u].ptr].handle)
  /\ use' = [use EXCEPT ![u] = [at |-> "closing", ptr |-> use[u].ptr]]
  /\ UNCHANGED named
\* then the table, under named_lock.  (Mutant: the entry goes at once.)
LastOpenAlways(p) == TRUE
LastOpen(p) == named[p].count = 1
CloseEntry(u) ==
  LET p == use[u].ptr IN
  /\ use[u].at = "closing"
  /\ named' = IF p \notin Live THEN named
              ELSE IF LastOpen(p) THEN [q \in Live \ {p} |-> named[q]]
              ELSE [named EXCEPT ![p].count = @ - 1]
  /\ use' = [use EXCEPT ![u] = Free]
  /\ UNCHANGED objects

\* sem_unlink, here or in another process; the object lives on in its handles.
Unlink(n) ==
  /\ byName[n] # NoObj
  /\ byName' = [byName EXCEPT ![n] = NoObj]
  /\ UNCHANGED <<made, objOf, opens, named, use>>

Proceed(u) == OpenAgain(u) \/ OpenFresh(u) \/ OpenFails(u) \/ OpenUndone(u) \/ CloseEntry(u)
SemNext ==
  \/ \E u \in Uses : Proceed(u) \/ Close(u) \/ \E n \in Names, h \in Handles : Open(u, n, h)
  \/ \E n \in Names : Unlink(n)
SemSpec == SemInit /\ [][SemNext]_semVars

-----------------------------------------------------------------------------
\* A sem_t a program has open is allocated, and is the semaphore it opened:
\* its handle still leads to that object, however other threads open, close
\* and unlink around it and however the kernel reuses its handles.  And a
\* handle has one sem_t: two opens of a semaphore that is open give the same
\* pointer.
SemIsTheirs ==
  /\ \A u \in Uses : use[u].at = "held" =>
       use[u].ptr \in Live /\ objOf[named[use[u].ptr].handle] = use[u].obj
  /\ \A p, q \in Live : named[p].handle = named[q].handle => p = q

\* The kernel has a handle open once for each sem_open that is not closed yet,
\* with the calls between the kernel and the table; and the table counts, for
\* each sem_t, those that have it and the closes that have yet to say so.
Openers(h) ==
  {u \in Uses : \/ use[u].at \in {"opened", "failed"} /\ use[u].handle = h
                \/ use[u].at = "held" /\ named[use[u].ptr].handle = h}
Users(p) == {u \in Uses : use[u].at \in {"held", "closing"} /\ use[u].ptr = p}
HandlesCounted ==
  /\ \A h \in Handles : opens[h] = Cardinality(Openers(h))
  /\ \A p \in Live : named[p].count = Cardinality(Users(p)) /\ Users(p) # {}
=============================================================================
