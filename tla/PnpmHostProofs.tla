---------------------------- MODULE PnpmHostProofs ----------------------------
(***************************************************************************)
(* For any number of workers, operations, uploads and chunks: nothing is   *)
(* closed under pnpm and no two of its handles meet, nothing leaks but     *)
(* what the host loses in four known places, and a publish is sent at most *)
(* once and whole.                                                         *)
(*                                                                         *)
(* An answer or a worker may hold handles as pnpm does.  Held is who holds *)
(* which, a function of the places a handle can be in, and each step moves *)
(* handles between places, takes new ones or closes some: the lemmas on    *)
(* Gain, Give, Close and End say so once, for any such function, and the   *)
(* lemma of an action cites the one it is.                                 *)
(***************************************************************************)
EXTENDS PnpmHost, FiniteSetTheorems, SequenceTheorems, WellFoundedInduction, TLAPS

-----------------------------------------------------------------------------
(* Handles                                                                 *)

LEMMA ObjectOfNet ==
  ASSUME NEW n \in Nat, n < FD_HANDLE
  PROVE  Object(n) = [type |-> "net", n |-> n] /\ Stdin(n) = {} /\ n \in Nat
BY DEF Object, Stdin, IsFdHandle, IsProcHandle, IsSynthetic, FD_HANDLE, PROC_HANDLE, SYNTHETIC

LEMMA ObjectOfFd ==
  ASSUME NEW n \in Nat, n < FD_HANDLE
  PROVE  /\ Object(FdHandle(n)) = [type |-> "fd", n |-> n] /\ Stdin(FdHandle(n)) = {}
         /\ FdHandle(n) \in Nat
<1>1. FD_HANDLE <= FdHandle(n) /\ FdHandle(n) < PROC_HANDLE /\ FdHandle(n) \in Nat /\ FdHandle(n) - FD_HANDLE = n
  BY DEF FdHandle, FD_HANDLE, PROC_HANDLE
<1> QED  BY <1>1 DEF Object, Stdin, IsFdHandle, IsProcHandle, IsSynthetic, FD_HANDLE, PROC_HANDLE, SYNTHETIC

\* The pids and descriptors that a child's handle holds.
FitPids == {n \in Nat : 1 <= n /\ n <= 524287}
FitFds == {NoFd} \cup 0..1022

LEMMA ObjectOfChild ==
  ASSUME NEW pid \in FitPids, NEW fd \in FitFds
  PROVE  /\ Object(ProcHandle(pid, fd)) = [type |-> "proc", n |-> pid]
         /\ Stdin(ProcHandle(pid, fd)) = IF fd = NoFd THEN {} ELSE {[type |-> "fd", n |-> fd]}
         /\ ProcHandle(pid, fd) \in Nat
<1> DEFINE h == ProcHandle(pid, fd)
           low == IF fd = NoFd THEN 0 ELSE fd + 1
<1>1. low \in 0..1023 /\ low - 1 = fd /\ (low = 0 <=> fd = NoFd)  BY DEF FitFds, NoFd
<1>2. h = PROC_HANDLE + pid * 1024 + low  BY DEF ProcHandle
<1> HIDE DEF h, low
<1>3. h \in Nat /\ PROC_HANDLE <= h /\ h < SYNTHETIC
  BY <1>1, <1>2 DEF FitPids, PROC_HANDLE, SYNTHETIC
<1>4. h - PROC_HANDLE = pid * 1024 + low  BY <1>1, <1>2 DEF FitPids, PROC_HANDLE
<1>5. (h - PROC_HANDLE) % 1024 = low /\ (h - PROC_HANDLE) \div 1024 = pid
  BY <1>1, <1>4, SMTT(60) DEF FitPids
<1>6. IsProcHandle(h) /\ ~IsFdHandle(h)  BY <1>3 DEF IsProcHandle, IsFdHandle, FD_HANDLE, PROC_HANDLE, SYNTHETIC
<1>7. ProcOf(h).pid = pid /\ ProcOf(h).stdin = fd
  <2>1. ProcOf(h).pid = pid  BY <1>5 DEF ProcOf
  <2>2. ProcOf(h).stdin = IF low - 1 < 0 THEN NoFd ELSE low - 1  BY <1>5 DEF ProcOf
  <2> QED  BY <2>1, <2>2, <1>1 DEF NoFd, FitFds
<1>8. Object(h) = [type |-> "proc", n |-> pid]  BY <1>6, <1>7 DEF Object
<1>9. Stdin(h) = IF fd = NoFd THEN {} ELSE {[type |-> "fd", n |-> fd]}  BY <1>6, <1>7 DEF Stdin
<1>10. h \in Nat  BY <1>3 DEF PROC_HANDLE
<1> QED  BY <1>8, <1>9, <1>10 DEF h

LEMMA ObjectOfFile ==
  ASSUME NEW n \in Nat
  PROVE  /\ Object(SYNTHETIC + n) = [type |-> "file", n |-> n] /\ Stdin(SYNTHETIC + n) = {}
         /\ IsSynthetic(SYNTHETIC + n) /\ SYNTHETIC + n \in Nat
BY DEF Object, Stdin, IsFdHandle, IsProcHandle, IsSynthetic, FD_HANDLE, PROC_HANDLE, SYNTHETIC

\* Only a file's handle is synthetic, and its object is a file.
LEMMA FilesAreSynthetic ==
  ASSUME NEW h, IsSynthetic(h), h \in Nat
  PROVE  Object(h).type = "file" /\ Stdin(h) = {}
BY DEF Object, Stdin, IsFdHandle, IsProcHandle, IsSynthetic, FD_HANDLE, PROC_HANDLE, SYNTHETIC

\* A set of natural numbers has a least one.
LEMMA HasLeast ==
  ASSUME NEW T \in SUBSET Nat, T # {}
  PROVE  \E n \in T : \A m \in T : ~(m < n)
<1>1. \E n \in T : \A m \in T : ~(<<m, n>> \in OpToRel(<, Nat))
  BY WFMin, NatLessThanWellFounded
<1> QED  BY <1>1 DEF OpToRel

LEMMA LeastIsFree ==
  ASSUME NEW type, NEW used, IsFiniteSet(used)
  PROVE  /\ Least(type, used) \in 0..Cardinality(used)
         /\ [type |-> type, n |-> Least(type, used)] \notin used
<1> DEFINE c == Cardinality(used)
           F == {n \in 0..c : [type |-> type, n |-> n] \notin used}
<1>1. c \in Nat  BY FS_CardinalityType
<1>2. F # {}
  <2> SUFFICES ASSUME F = {} PROVE FALSE  OBVIOUS
  <2> DEFINE f == [n \in 0..c |-> [type |-> type, n |-> n]]
  <2>1. \A n \in 0..c : f[n] \in used  OBVIOUS
  <2>2. f \in Injection(0..c, used)
    <3>1. f \in [0..c -> used]  BY <2>1
    <3>2. \A m, n \in 0..c : f[m] = f[n] => m = n
      <4> SUFFICES ASSUME NEW m \in 0..c, NEW n \in 0..c, f[m] = f[n] PROVE m = n  OBVIOUS
      <4>1. f[m].n = m /\ f[n].n = n  OBVIOUS
      <4> QED  BY <4>1
    <3> HIDE DEF f
    <3> QED  BY <3>1, <3>2 DEF Injection, IsInjective
  <2>3. Cardinality(0..c) <= c  BY <2>2, FS_Injection
  <2>4. Cardinality(0..c) = c + 1  BY <1>1, FS_Interval
  <2> QED  BY <1>1, <2>3, <2>4
<1>3. PICK n \in F : \A m \in F : ~(m < n)
  <2>1. F \subseteq Nat  BY <1>1
  <2> HIDE DEF F
  <2> QED  BY <1>2, <2>1, HasLeast
<1>4. \A m \in 0..(n - 1) : [type |-> type, n |-> m] \in used  BY <1>1, <1>3
<1>5. \E k \in 0..c : /\ [type |-> type, n |-> k] \notin used
                      /\ \A m \in 0..(k - 1) : [type |-> type, n |-> m] \in used
  BY <1>3, <1>4
<1> QED  BY <1>5 DEF Least

-----------------------------------------------------------------------------
(* Who has which handles: pnpm, the answers it can still read, the end of  *)
(* an upload whose result is not in its file yet, and nobody, for those    *)
(* the host lost.  The lemmas are about any such G, any handles e that are *)
(* done with, and any objects o.                                           *)

\* The places a handle can be in.
Pnpm == [at |-> "pnpm"]
Answer(i) == [at |-> "answer", of |-> i]
EndOf(w) == [at |-> "end", of |-> w]
Lost == [at |-> "lost"]
Places == {Pnpm, Lost} \cup {Answer(i) : i \in Ids} \cup {EndOf(w) : w \in Workers}

\* For(h), with e for ended.
ForIn(h, e) == IF h \notin e THEN {Object(h)} \cup Stdin(h)
               ELSE IF IsSynthetic(h) THEN {} ELSE {Object(h)}
\* What each place holds is apart: no handle in two places, what each is for is
\* open, and no object is for two of them.
HoldAll(G) == UNION {G[p] : p \in Places}

OnePlace(G) == \A p, q \in Places : \A h \in G[p] : h \in G[q] => p = q
OpenFor(G, e, o) == \A p \in Places : \A h \in G[p] : ForIn(h, e) \subseteq o
Apart(G, e) == \A p, q \in Places : \A g \in G[p], h \in G[q] :
                 \A x \in ForIn(g, e) : x \in ForIn(h, e) => g = h
Good(G, e, o) ==
  /\ G \in [Places -> SUBSET Nat] /\ e \subseteq G[Pnpm]
  /\ OnePlace(G) /\ OpenFor(G, e, o) /\ Apart(G, e)
\* Nothing else is open.
Covers(G, e, o) == \A x \in o : \E p \in Places : \E h \in G[p] : x \in ForIn(h, e)

\* New handles N, for the new objects X.
New(N, e, o, X) ==
  /\ N \subseteq Nat /\ X \cap o = {}
  /\ \A h \in N : /\ ForIn(h, {}) \subseteq X
                  /\ \A g \in e : Object(h) # Object(g)
  /\ \A g, h \in N : \A x \in ForIn(g, {}) : x \in ForIn(h, {}) => g = h
  /\ \A x \in X : \E h \in N : x \in ForIn(h, {})

LEMMA ObjectIsFor ==
  ASSUME NEW h, NEW e, h \notin e \/ ~IsSynthetic(h)
  PROVE  Object(h) \in ForIn(h, e)
BY DEF ForIn

LEMMA ForOfOthers ==
  ASSUME NEW h, NEW e, h \notin e
  PROVE  ForIn(h, e) = ForIn(h, {})
BY DEF ForIn

LEMMA NewIsNew ==
  ASSUME NEW G, NEW e, NEW o, NEW X, NEW N, Good(G, e, o), New(N, e, o, X), NEW h \in N
  PROVE  h \notin e /\ \A p \in Places : h \notin G[p]
<1>1. h \notin e  BY DEF New
<1>2. ASSUME NEW p \in Places, h \in G[p] PROVE FALSE
  <2>1. Object(h) \in o  BY <1>1, <1>2, ObjectIsFor DEF Good, OpenFor
  <2>2. Object(h) \in X  BY ObjectIsFor DEF New
  <2> QED  BY <2>1, <2>2 DEF New
<1> QED  BY <1>1, <1>2

LEMMA Gain ==
  ASSUME NEW G, NEW e, NEW o, NEW X, NEW N, NEW p \in Places,
         Good(G, e, o), New(N, e, o, X)
  PROVE  Good([G EXCEPT ![p] = @ \cup N], e, o \cup X)
<1> DEFINE H == [G EXCEPT ![p] = @ \cup N]
<1>1. G \in [Places -> SUBSET Nat] /\ N \subseteq Nat  BY DEF Good, New
<1>2. H \in [Places -> SUBSET Nat]  BY <1>1
<1>3. \A q \in Places : H[q] = IF q = p THEN G[q] \cup N ELSE G[q]  BY <1>1
<1> HIDE DEF H
<1>4. \A h \in N : h \notin e /\ \A q \in Places : h \notin G[q]  BY NewIsNew
<1>5. e \subseteq H[Pnpm]  BY <1>3 DEF Good, Places
<1>6. OnePlace(H)  BY <1>3, <1>4 DEF OnePlace, Good
<1>7. \A h \in N : ForIn(h, e) = ForIn(h, {}) /\ ForIn(h, e) \subseteq X  BY <1>4, ForOfOthers DEF New
<1>8. OpenFor(H, e, o \cup X)  BY <1>3, <1>7 DEF OpenFor, Good
<1>9. Apart(H, e)
  <2> SUFFICES ASSUME NEW q \in Places, NEW r \in Places, NEW g \in H[q], NEW h \in H[r],
                      NEW x \in ForIn(g, e), x \in ForIn(h, e)
               PROVE  g = h
    BY DEF Apart
  <2>1. CASE g \in N /\ h \in N  BY <2>1, <1>7 DEF New
  <2>2. CASE g \in N /\ h \notin N
    <3>1. x \in X /\ x \in o  BY <2>2, <1>3, <1>7 DEF Good, OpenFor
    <3> QED  BY <3>1 DEF New
  <2>3. CASE g \notin N /\ h \in N
    <3>1. x \in X /\ x \in o  BY <2>3, <1>3, <1>7 DEF Good, OpenFor
    <3> QED  BY <3>1 DEF New
  <2>4. CASE g \notin N /\ h \notin N
    <3>1. g \in G[q] /\ h \in G[r]  BY <2>4, <1>3
    <3>2. Apart(G, e)  BY DEF Good
    <3> QED  BY <3>1, <3>2 DEF Apart
  <2> QED  BY <2>1, <2>2, <2>3, <2>4
<1> QED  BY <1>2, <1>5, <1>6, <1>8, <1>9 DEF Good, H

LEMMA GainCovers ==
  ASSUME NEW G, NEW e, NEW o, NEW X, NEW N, NEW p \in Places,
         Good(G, e, o), Covers(G, e, o), New(N, e, o, X)
  PROVE  Covers([G EXCEPT ![p] = @ \cup N], e, o \cup X)
<1> DEFINE H == [G EXCEPT ![p] = @ \cup N]
<1>1. G \in [Places -> SUBSET Nat]  BY DEF Good
<1>3. \A q \in Places : H[q] = IF q = p THEN G[q] \cup N ELSE G[q]  BY <1>1
<1> HIDE DEF H
<1>4. \A h \in N : ForIn(h, e) = ForIn(h, {})  BY NewIsNew, ForOfOthers
<1>5. ASSUME NEW x \in o PROVE \E q \in Places : \E h \in H[q] : x \in ForIn(h, e)
  <2>0. PICK q \in Places : \E h \in G[q] : x \in ForIn(h, e)  BY <1>5 DEF Covers
  <2>1. PICK h \in G[q] : x \in ForIn(h, e)  BY <2>0
  <2> QED  BY <2>1, <1>3
<1>6. ASSUME NEW x \in X PROVE \E q \in Places : \E h \in H[q] : x \in ForIn(h, e)
  <2>1. PICK h \in N : x \in ForIn(h, {})  BY DEF New
  <2> QED  BY <2>1, <1>3, <1>4
<1> QED  BY <1>5, <1>6 DEF Covers, H

\* All that p has goes to q, which has nothing or is pnpm.
Given(G, p, q) == [G EXCEPT ![q] = @ \cup G[p], ![p] = {}]

LEMMA Give ==
  ASSUME NEW G, NEW e, NEW o, NEW p \in Places, NEW q \in Places, p # q, p # Pnpm, Good(G, e, o)
  PROVE  Good(Given(G, p, q), e, o) /\ (Covers(G, e, o) => Covers(Given(G, p, q), e, o))
<1> DEFINE H == Given(G, p, q)
<1>1. G \in [Places -> SUBSET Nat]  BY DEF Good
<1>2. H \in [Places -> SUBSET Nat]  BY <1>1 DEF Given
<1>3. \A r \in Places : H[r] = IF r = p THEN {} ELSE IF r = q THEN G[q] \cup G[p] ELSE G[r]
  BY <1>1 DEF Given
<1> HIDE DEF H
<1>4. e \subseteq H[Pnpm]  BY <1>3 DEF Good, Places
<1>5. OnePlace(H)  BY <1>3 DEF OnePlace, Good
<1>6. \A r \in Places : \A h \in H[r] : \E s \in Places : h \in G[s]  BY <1>3
<1>7. OpenFor(H, e, o)  BY <1>6 DEF OpenFor, Good
<1>8. Apart(H, e)  BY <1>6 DEF Apart, Good
<1>9. \A r \in Places : \A h \in G[r] : \E s \in Places : h \in H[s]  BY <1>3
<1>10. Covers(G, e, o) => Covers(H, e, o)  BY <1>9 DEF Covers
<1> QED  BY <1>2, <1>4, <1>5, <1>7, <1>8, <1>10 DEF Good, H

\* Handles N of p are closed: the objects X are of no other.
Closed(G, p, N) == [G EXCEPT ![p] = @ \ N]

LEMMA CloseSome ==
  ASSUME NEW G, NEW e, NEW o, NEW p \in Places, NEW N, NEW X, Good(G, e, o), N \subseteq G[p],
         \A x \in X : \E h \in N : x \in ForIn(h, e)
  PROVE  Good(Closed(G, p, N), e \ N, o \ X)
<1> DEFINE H == Closed(G, p, N)
<1>1. G \in [Places -> SUBSET Nat]  BY DEF Good
<1>2. H \in [Places -> SUBSET Nat]  BY <1>1 DEF Closed
<1>3. \A r \in Places : H[r] = IF r = p THEN G[p] \ N ELSE G[r]  BY <1>1 DEF Closed
<1> HIDE DEF H
<1>4. e \ N \subseteq H[Pnpm]  BY <1>3 DEF Good, Places
<1>5. OnePlace(H)  BY <1>3 DEF OnePlace, Good
<1>6. \A r \in Places : \A h \in H[r] : h \in G[r] /\ h \notin N  BY <1>3 DEF OnePlace, Good
<1>7. \A h : h \notin N => ForIn(h, e \ N) = ForIn(h, e)  BY DEF ForIn
<1>8. OpenFor(H, e \ N, o \ X)
  <2> SUFFICES ASSUME NEW r \in Places, NEW h \in H[r], NEW x \in ForIn(h, e \ N)
               PROVE  x \in o \ X
    BY DEF OpenFor
  <2>1. h \in G[r] /\ h \notin N /\ x \in ForIn(h, e)  BY <1>6, <1>7
  <2>2. x \in o  BY <2>1 DEF Good, OpenFor
  <2>3. ASSUME x \in X PROVE FALSE
    <3>1. PICK g \in N : x \in ForIn(g, e)  BY <2>3
    <3>2. g = h  BY <3>1, <2>1 DEF Good, Apart
    <3> QED  BY <3>2, <2>1
  <2> QED  BY <2>2, <2>3
<1>9. Apart(H, e \ N)  BY <1>6, <1>7 DEF Apart, Good
<1> QED  BY <1>2, <1>4, <1>5, <1>8, <1>9 DEF Good, H

LEMMA CloseCovers ==
  ASSUME NEW G, NEW e, NEW o, NEW p \in Places, NEW N, NEW X, Good(G, e, o), N \subseteq G[p],
         \A h \in N : ForIn(h, e) \subseteq X, Covers(G, e, o)
  PROVE  Covers(Closed(G, p, N), e \ N, o \ X)
<1> DEFINE H == Closed(G, p, N)
<1>1. G \in [Places -> SUBSET Nat]  BY DEF Good
<1>3. \A r \in Places : H[r] = IF r = p THEN G[p] \ N ELSE G[r]  BY <1>1 DEF Closed
<1> HIDE DEF H
<1>4. \A h : h \notin N => ForIn(h, e \ N) = ForIn(h, e)  BY DEF ForIn
<1>5. ASSUME NEW x \in o \ X PROVE \E q \in Places : \E h \in H[q] : x \in ForIn(h, e \ N)
  <2>0. PICK q \in Places : \E h \in G[q] : x \in ForIn(h, e)  BY <1>5 DEF Covers
  <2>1. PICK h \in G[q] : x \in ForIn(h, e)  BY <2>0
  <2>2. h \notin N  BY <2>1, <1>5
  <2> QED  BY <2>1, <2>2, <1>3, <1>4
<1> QED  BY <1>5 DEF Covers, H

\* pnpm is done with h of its own: what it is no longer for is closed.
LEMMA EndOne ==
  ASSUME NEW G, NEW e, NEW o, NEW h \in G[Pnpm], NEW X, Good(G, e, o), h \notin e,
         X = ForIn(h, e) \ ForIn(h, e \cup {h})
  PROVE  Good(G, e \cup {h}, o \ X) /\ (Covers(G, e, o) => Covers(G, e \cup {h}, o \ X))
<1> DEFINE d == e \cup {h}
<1>1. \A g : g # h => ForIn(g, d) = ForIn(g, e)  BY DEF ForIn
<1>2. ForIn(h, d) \subseteq ForIn(h, e) \ X  BY DEF ForIn
<1>3. Pnpm \in Places  BY DEF Places
<1> HIDE DEF d
<1>4. \A g : ForIn(g, d) \subseteq ForIn(g, e)  BY <1>1, <1>2
<1>5. Apart(G, d)  BY <1>4 DEF Good, Apart
<1>6. OpenFor(G, d, o \ X)
  <2> SUFFICES ASSUME NEW r \in Places, NEW g \in G[r], NEW x \in ForIn(g, d)
               PROVE  x \in o \ X
    BY DEF OpenFor
  <2>1. x \in o  BY <1>4 DEF Good, OpenFor
  <2>2. ASSUME x \in X PROVE FALSE
    <3>1. x \in ForIn(h, e) /\ x \in ForIn(g, e)  BY <2>2, <1>4
    <3>2. g = h  BY <3>1, <1>3 DEF Good, Apart
    <3> QED  BY <3>2, <2>2, <1>2
  <2> QED  BY <2>1, <2>2
<1>7. d \subseteq G[Pnpm]  BY DEF d, Good
<1>8. ASSUME Covers(G, e, o), NEW x \in o \ X
      PROVE  \E q \in Places : \E g \in G[q] : x \in ForIn(g, d)
  <2>0. PICK q \in Places : \E g \in G[q] : x \in ForIn(g, e)  BY <1>8 DEF Covers
  <2>1. PICK g \in G[q] : x \in ForIn(g, e)  BY <2>0
  <2>2. x \in ForIn(g, d)
    <3>1. CASE g = h  BY <3>1, <2>1, <1>8 DEF d
    <3>2. CASE g # h  BY <3>2, <2>1, <1>1
    <3> QED  BY <3>1, <3>2
  <2> QED  BY <2>1, <2>2
<1> QED  BY <1>5, <1>6, <1>7, <1>8 DEF Good, Covers, d

-----------------------------------------------------------------------------
(* Types                                                                   *)

\* A worker between calls, or in one.
Pcs == [at : {"idle"}] \cup [at : {"ask"}, ids : SUBSET Ids]
         \cup [at : {"staged", "body"}, u : Uploads, id : Ids]
         \cup [at : {"send"}, u : Uploads, id : Ids, body : Seq(Nat)]
         \cup [at : {"result", "resolve"}, id : Ids, handle : Nat]
Dirs == [dir : BOOLEAN, chunks : Seq(Nat), marker : Ids \cup {0}, id : Ids \cup {0},
         wrote : Nat, left : BOOLEAN]
TypeOK ==
  /\ cors \in BOOLEAN /\ wake \in BOOLEAN
  /\ ops \in Seq({"get", "put", "spawn", "publish", "lost"}) /\ Len(ops) <= MaxOps
  /\ async \in [Ids -> {"held", "pending", "done", "gone"}]
  /\ answer \in [Ids -> SUBSET Nat] /\ ready \in [Workers -> SUBSET Ids]
  /\ results \subseteq Ids /\ over \subseteq Ids
  /\ IsFiniteSet(open) /\ mine \subseteq Nat /\ ended \subseteq mine /\ IsFiniteSet(ended)
  /\ lost \subseteq Nat /\ failed \subseteq Ids
  /\ upload \in [Uploads -> Dirs]
  /\ blocks \subseteq Ids /\ sent \in [Ids -> Seq(Seq(Nat))]
  /\ pc \in [Workers -> Pcs]

\* The handles fit their numbers: this many of the kernel's objects at a time.
Few == Cardinality(open) <= 1022
PidsFit == Pids \subseteq FitPids

LEMMA IdsAre ==
  ASSUME TypeOK
  PROVE  /\ MaxOps \in Nat /\ Len(ops) \in Nat /\ Started = 1..Len(ops) /\ Started \subseteq Ids
         /\ 0 \notin Ids
         /\ Len(ops) < MaxOps => Len(ops) + 1 \in Ids \ Started
BY HostAssumption DEF TypeOK, Started, Ids

LEMMA PcIs ==
  ASSUME TypeOK, NEW w \in Workers
  PROVE  /\ pc[w] \in Pcs
         /\ pc[w].at \in {"idle", "ask", "staged", "body", "send", "result", "resolve"}
         /\ pc[w].at = "idle" => pc[w] = Idle
         /\ pc[w].at = "ask" => pc[w] \in [at : {"ask"}, ids : SUBSET Ids]
         /\ pc[w].at \in {"staged", "body"} => pc[w] \in [at : {"staged", "body"}, u : Uploads, id : Ids]
         /\ pc[w].at = "send" => pc[w] \in [at : {"send"}, u : Uploads, id : Ids, body : Seq(Nat)]
         /\ pc[w].at \in {"result", "resolve"} =>
              pc[w] \in [at : {"result", "resolve"}, id : Ids, handle : Nat]
<1>1. pc[w] \in Pcs  BY DEF TypeOK
<1>2. CASE pc[w] \in [at : {"idle"}]  BY <1>1, <1>2 DEF Idle
<1>3. CASE pc[w] \in [at : {"ask"}, ids : SUBSET Ids]  BY <1>1, <1>3
<1>4. CASE pc[w] \in [at : {"staged", "body"}, u : Uploads, id : Ids]  BY <1>1, <1>4
<1>5. CASE pc[w] \in [at : {"send"}, u : Uploads, id : Ids, body : Seq(Nat)]  BY <1>1, <1>5
<1>6. CASE pc[w] \in [at : {"result", "resolve"}, id : Ids, handle : Nat]  BY <1>1, <1>6
<1> QED  BY <1>1, <1>2, <1>3, <1>4, <1>5, <1>6 DEF Pcs

LEMMA IdleIs == Idle \in Pcs /\ Idle.at = "idle" BY DEF Idle, Pcs

\* The kernel's and the host's fresh objects.
LEMMA NetIsNew ==
  ASSUME TypeOK, Few
  PROVE  /\ HandleOf(Net) \in Nat /\ Net \notin open
         /\ Object(HandleOf(Net)) = Net /\ Stdin(HandleOf(Net)) = {}
<1> DEFINE n == Least("net", open)
<1>1. n \in 0..Cardinality(open) /\ [type |-> "net", n |-> n] \notin open
  BY LeastIsFree DEF TypeOK
<1>2. Cardinality(open) \in Nat  BY FS_CardinalityType DEF TypeOK
<1>3. n \in Nat /\ n < FD_HANDLE  BY <1>1, <1>2 DEF Few, FD_HANDLE
<1> HIDE DEF n
<1>4. Object(n) = [type |-> "net", n |-> n] /\ Stdin(n) = {} /\ n \in Nat  BY <1>3, ObjectOfNet
<1>5. Net = [type |-> "net", n |-> n]  BY DEF Net, n
<1>6. HandleOf(Net) = n  BY <1>5 DEF HandleOf
<1> QED  BY <1>1, <1>4, <1>5, <1>6

LEMMA FileIsNew ==
  ASSUME TypeOK
  PROVE  /\ HandleOf(File) \in Nat /\ File \notin open /\ \A g \in ended : Object(g) # File
         /\ Object(HandleOf(File)) = File /\ Stdin(HandleOf(File)) = {}
<1> DEFINE used == open \cup {Object(h) : h \in ended}
           n == Least("file", used)
<1>1. IsFiniteSet({Object(h) : h \in ended})
  <2> DEFINE f == [h \in ended |-> Object(h)]
             T == {Object(h) : h \in ended}
  <2>1. f \in Surjection(ended, T)  BY DEF Surjection
  <2> HIDE DEF f, T
  <2>2. IsFiniteSet(T)  BY <2>1, FS_Surjection DEF TypeOK
  <2> QED  BY <2>2 DEF T
<1>2. IsFiniteSet(used)  BY <1>1, FS_Union DEF TypeOK
<1>3. n \in 0..Cardinality(used) /\ [type |-> "file", n |-> n] \notin used
  BY <1>2, LeastIsFree
<1>4. File = [type |-> "file", n |-> n]  BY DEF File
<1> HIDE DEF n
<1>5. n \in Nat  BY <1>3
<1>6. HandleOf(File) = SYNTHETIC + n  BY <1>4 DEF HandleOf
<1>7. Object(SYNTHETIC + n) = File /\ Stdin(SYNTHETIC + n) = {} /\ SYNTHETIC + n \in Nat
  BY <1>4, <1>5, ObjectOfFile
<1> QED  BY <1>3, <1>4, <1>6, <1>7

LEMMA LeastIsNat ==
  ASSUME NEW type, NEW used, IsFiniteSet(used)
  PROVE  Least(type, used) \in Nat
<1>1. Cardinality(used) \in Nat  BY FS_CardinalityType
<1>2. Least(type, used) \in 0..Cardinality(used)  BY LeastIsFree
<1> QED  BY <1>1, <1>2

LEMMA HandlesAreNats ==
  ASSUME TypeOK
  PROVE  /\ HandleOf(Net) \in Nat /\ HandleOf(File) \in Nat
         /\ Least("fd", open) \in Nat /\ Least("fd", open \cup {[type |-> "fd", n |-> Least("fd", open)]}) \in Nat
<1>0. IsFiniteSet(open)  BY DEF TypeOK
<1>1. \A type : Least(type, open) \in Nat  BY <1>0, LeastIsNat
<1>2. HandleOf(Net) = Least("net", open)  BY DEF HandleOf, Net
<1>3. IsFiniteSet(open \cup {[type |-> "fd", n |-> Least("fd", open)]})  BY <1>0, FS_AddElement
<1>4. Least("fd", open \cup {[type |-> "fd", n |-> Least("fd", open)]}) \in Nat
  BY <1>3, LeastIsNat
<1> QED  BY <1>1, <1>2, <1>4, FileIsNew

LEMMA ChildHandleIsNat ==
  ASSUME NEW pid \in Nat, NEW fd \in Nat \cup {NoFd}
  PROVE  ProcHandle(pid, fd) \in Nat
BY DEF ProcHandle, PROC_HANDLE, NoFd

LEMMA FdHandleIsNat == ASSUME NEW n \in Nat PROVE FdHandle(n) \in Nat
BY DEF FdHandle, FD_HANDLE

LEMMA TypeInit == Init => TypeOK
<1> SUFFICES ASSUME Init PROVE TypeOK  OBVIOUS
<1>1. ops = <<>> /\ ops \in Seq({"get", "put", "spawn", "publish", "lost"}) /\ Len(ops) <= MaxOps
  BY HostAssumption DEF Init
<1>2. async \in [Ids -> {"held", "pending", "done", "gone"}] /\ answer \in [Ids -> SUBSET Nat]
      /\ ready \in [Workers -> SUBSET Ids] /\ results \subseteq Ids /\ over \subseteq Ids
  BY DEF Init
<1>3. IsFiniteSet(open) /\ IsFiniteSet(ended) /\ mine \subseteq Nat /\ ended \subseteq mine
  BY FS_EmptySet DEF Init
<1>4. upload \in [Uploads -> Dirs]
  <2>1. NoUpload \in Dirs  BY DEF NoUpload, Dirs
  <2> QED  BY <2>1 DEF Init
<1>5. blocks \subseteq Ids /\ sent \in [Ids -> Seq(Seq(Nat))] /\ pc \in [Workers -> Pcs]
  BY IdleIs DEF Init
<1>7. lost \subseteq Nat /\ failed \subseteq Ids  BY DEF Init
<1>6. cors \in BOOLEAN /\ wake \in BOOLEAN  BY DEF Init
<1> QED  BY <1>1, <1>2, <1>3, <1>4, <1>5, <1>6, <1>7 DEF TypeOK

\* A resolved operation.
LEMMA ResolveTypes ==
  ASSUME TypeOK, Len(ops) < MaxOps, NEW what \in {"put", "spawn"}, NEW H \in SUBSET Nat, Resolve(what, H)
  PROVE  /\ wake' \in BOOLEAN
         /\ ops' \in Seq({"get", "put", "spawn", "publish", "lost"}) /\ Len(ops') <= MaxOps
         /\ async' \in [Ids -> {"held", "pending", "done", "gone"}]
         /\ answer' \in [Ids -> SUBSET Nat] /\ ready' = ready /\ results' = results /\ over' = over
<1>1. Len(ops) + 1 \in Ids  BY IdsAre
<1>2. ops' \in Seq({"get", "put", "spawn", "publish", "lost"}) /\ Len(ops') = Len(ops) + 1
  BY DEF Resolve, TypeOK
<1>3. Len(ops') <= MaxOps  BY <1>2, IdsAre
<1>4. async' \in [Ids -> {"held", "pending", "done", "gone"}] /\ answer' \in [Ids -> SUBSET Nat]
  BY <1>1 DEF Resolve, TypeOK
<1> QED  BY <1>2, <1>3, <1>4 DEF Resolve

LEMMA GetTypes == ASSUME TypeOK, NEW w \in Workers, Get(w) PROVE TypeOK'
<1>1. Len(ops) + 1 \in Ids  BY IdsAre DEF Get, CanStart
<1>2. ops' \in Seq({"get", "put", "spawn", "publish", "lost"}) /\ Len(ops') = Len(ops) + 1
  BY DEF Get, TypeOK
<1>3. Len(ops') <= MaxOps  BY <1>2, IdsAre DEF Get, CanStart
<1>4. async' \in [Ids -> {"held", "pending", "done", "gone"}]  BY <1>1 DEF Get, TypeOK
<1> QED  BY <1>2, <1>3, <1>4 DEF Get, TypeOK, answers, objects, staging

LEMMA CompleteTypes == ASSUME TypeOK, NEW i \in Ids, Complete(i) PROVE TypeOK'
<1>1. async' \in [Ids -> {"held", "pending", "done", "gone"}] /\ wake' \in BOOLEAN  BY DEF Complete, TypeOK
<1> DEFINE h == HandleOf(Net)
<1>2. h \in Nat  BY HandlesAreNats
<1>3. \/ open' = open \cup {Net} /\ answer' = [answer EXCEPT ![i] = {h}]
      \/ open' = open /\ answer' = answer
  BY DEF Complete
<1> HIDE DEF h
<1>4. answer' \in [Ids -> SUBSET Nat]
  <2>1. answer \in [Ids -> SUBSET Nat] /\ {h} \in SUBSET Nat  BY <1>2 DEF TypeOK
  <2> QED  BY <2>1, <1>3
<1>5. IsFiniteSet(open')
  <2>1. IsFiniteSet(open) /\ IsFiniteSet(open \cup {Net})  BY FS_AddElement DEF TypeOK
  <2> QED  BY <2>1, <1>3
<1> QED  BY <1>1, <1>4, <1>5 DEF Complete, TypeOK, staging

LEMMA SyntheticTypes ==
  ASSUME TypeOK, Len(ops) < MaxOps, NEW what \in {"put", "spawn"}, Synthetic(what)
  PROVE  /\ wake' \in BOOLEAN
         /\ ops' \in Seq({"get", "put", "spawn", "publish", "lost"}) /\ Len(ops') <= MaxOps
         /\ async' \in [Ids -> {"held", "pending", "done", "gone"}]
         /\ answer' \in [Ids -> SUBSET Nat] /\ ready' = ready /\ results' = results /\ over' = over
         /\ IsFiniteSet(open') /\ mine' = mine /\ ended' = ended /\ lost' = lost
<1>1. {HandleOf(File)} \in SUBSET Nat  BY HandlesAreNats
<1>2. IsFiniteSet(open')  BY FS_AddElement DEF Synthetic, TypeOK
<1>3. Resolve(what, {HandleOf(File)})  BY DEF Synthetic
<1> QED  BY <1>1, <1>2, <1>3, ResolveTypes DEF Synthetic

LEMMA PutTypes == ASSUME TypeOK, NEW w \in Workers, Put(w) PROVE TypeOK'
<1>1. Len(ops) < MaxOps  BY DEF Put, CanStart
<1>2. CASE Synthetic("put")
  BY <1>1, <1>2, SyntheticTypes DEF Put, TypeOK, staging
<1>3. CASE /\ open' = open \cup {Net} /\ Resolve("put", {HandleOf(Net)}) /\ UNCHANGED <<mine, ended, lost>>
  <2>1. {HandleOf(Net)} \in SUBSET Nat  BY HandlesAreNats
  <2>2. IsFiniteSet(open')  BY <1>3, FS_AddElement DEF TypeOK
  <2>3. UNCHANGED <<cors, staging, pc>>  BY DEF Put
  <2> QED  BY <1>1, <1>3, <2>1, <2>2, <2>3, ResolveTypes DEF TypeOK, staging
<1> QED  BY <1>2, <1>3 DEF Put

LEMMA SpawnTypes == ASSUME TypeOK, NEW w \in Workers, Spawn(w) PROVE TypeOK'
<1>1. Len(ops) < MaxOps /\ UNCHANGED <<cors, staging, pc>>  BY DEF Spawn, CanStart
<1>2. CASE Resolve("spawn", {}) /\ UNCHANGED objects
  <2> QED  BY <1>1, <1>2, ResolveTypes DEF TypeOK, staging, objects
<1>3. ASSUME NEW in \in BOOLEAN, NEW out \in BOOLEAN, NEW pid \in Pids, NEW infd, NEW piped, NEW outfd,
             infd = (IF in THEN Least("fd", open) ELSE NoFd),
             piped = (IF in THEN {[type |-> "fd", n |-> infd]} ELSE {}),
             outfd = Least("fd", open \cup piped),
             open' = open \cup piped \cup {[type |-> "proc", n |-> pid]}
                          \cup (IF out THEN {[type |-> "fd", n |-> outfd]} ELSE {}),
             Resolve("spawn", {ProcHandle(pid, infd)} \cup IF out THEN {FdHandle(outfd)} ELSE {}),
             UNCHANGED <<mine, ended, lost>>
      PROVE TypeOK'
  <2>1. infd \in Nat \cup {NoFd} /\ outfd \in Nat
    <3>1. CASE in  BY <1>3, <3>1, HandlesAreNats
    <3>2. CASE ~in
      <4>1. outfd = Least("fd", open)  BY <1>3, <3>2
      <4> QED  BY <1>3, <3>2, <4>1, HandlesAreNats
    <3> QED  BY <3>1, <3>2
  <2>2. {ProcHandle(pid, infd)} \cup (IF out THEN {FdHandle(outfd)} ELSE {}) \in SUBSET Nat
    BY <2>1, ChildHandleIsNat, FdHandleIsNat, HostAssumption
  <2>3. IsFiniteSet(open')
    <3>1. IsFiniteSet(piped) /\ IsFiniteSet(IF out THEN {[type |-> "fd", n |-> outfd]} ELSE {})
      BY <1>3, FS_EmptySet, FS_Singleton
    <3>2. IsFiniteSet(open \cup piped)  BY <3>1, FS_Union DEF TypeOK
    <3>3. IsFiniteSet((open \cup piped) \cup {[type |-> "proc", n |-> pid]})  BY <3>2, FS_AddElement
    <3> QED  BY <3>1, <3>3, <1>3, FS_Union
  <2> QED  BY <1>1, <1>3, <2>2, <2>3, ResolveTypes DEF TypeOK, staging
<1> QED  BY <1>2, <1>3 DEF Spawn

LEMMA CreateTypes == ASSUME TypeOK, NEW w \in Workers, NEW u \in Uploads, Create(w, u) PROVE TypeOK'
<1>1. upload' \in [Uploads -> Dirs]  BY DEF Create, TypeOK, Dirs
<1> QED  BY <1>1 DEF Create, TypeOK, answers, objects

LEMMA WriteTypes == ASSUME TypeOK, NEW w \in Workers, NEW u \in Uploads, Write(w, u) PROVE TypeOK'
<1>1. upload[u] \in Dirs  BY DEF TypeOK
<1> DEFINE c == Append(upload[u].chunks, upload[u].wrote + 1)
<1>2. c \in Seq(Nat) /\ upload[u].wrote + 1 \in Nat  BY <1>1 DEF Dirs
<1>3. upload' = [upload EXCEPT ![u] = [upload[u] EXCEPT !.chunks = c, !.wrote = @ + 1]]
  BY DEF Write, TypeOK
<1> HIDE DEF c
<1>4. [upload[u] EXCEPT !.chunks = c, !.wrote = @ + 1] \in Dirs  BY <1>1, <1>2 DEF Dirs
<1>5. upload' \in [Uploads -> Dirs]  BY <1>3, <1>4 DEF TypeOK
<1> QED  BY <1>5 DEF Write, TypeOK, answers, objects

\* Wherever a publish puts the marker and the id.
LEMMA UploadTypes ==
  ASSUME TypeOK, NEW u \in Uploads, NEW i \in Ids, NEW m \in Ids \cup {0}
  PROVE  [upload EXCEPT ![u].id = i, ![u].marker = m] \in [Uploads -> Dirs]
<1>1. upload[u] \in Dirs /\ upload \in [Uploads -> Dirs]  BY DEF TypeOK
<1>2. [upload[u] EXCEPT !.id = i, !.marker = m] \in Dirs  BY <1>1 DEF Dirs
<1>3. [upload EXCEPT ![u].id = i, ![u].marker = m] = [upload EXCEPT ![u] = [upload[u] EXCEPT !.id = i, !.marker = m]]
  BY <1>1
<1> QED  BY <1>1, <1>2, <1>3

LEMMA UploadIdTypes ==
  ASSUME TypeOK, NEW u \in Uploads, NEW i \in Ids
  PROVE  [upload EXCEPT ![u].id = i] \in [Uploads -> Dirs]
<1>1. upload[u] \in Dirs /\ upload \in [Uploads -> Dirs]  BY DEF TypeOK
<1>2. [upload[u] EXCEPT !.id = i] \in Dirs  BY <1>1 DEF Dirs
<1> QED  BY <1>1, <1>2

LEMMA PublishTypes == ASSUME TypeOK, NEW w \in Workers, NEW u \in Uploads, Publish(w, u) PROVE TypeOK'
<1> DEFINE n == Len(ops) + 1
           Kind == {"get", "put", "spawn", "publish", "lost"}
<1>1. Len(ops) < MaxOps /\ n \in Ids /\ UNCHANGED <<cors, pc>>  BY IdsAre DEF Publish, CanStart
<1>2. CASE /\ Synthetic("put") /\ upload' = [upload EXCEPT ![u].id = n] /\ UNCHANGED <<blocks, sent, failed>>
  <2>1. upload' \in [Uploads -> Dirs]  BY <1>1, <1>2, UploadIdTypes
  <2> QED  BY <1>1, <1>2, <2>1, SyntheticTypes DEF TypeOK
<1>3. CASE /\ ops' = Append(ops, "publish")
           /\ async' = [async EXCEPT ![n] = "held"]
           /\ upload' = [upload EXCEPT ![u].id = n, ![u].marker = n]
           /\ blocks' = blocks \cup {n}
           /\ UNCHANGED <<wake, answer, ready, results, over, objects, sent, failed>>
  <2>1. upload' \in [Uploads -> Dirs]  BY <1>1, <1>3, UploadTypes
  <2>2. ops' \in Seq(Kind) /\ Len(ops') = n  BY <1>3 DEF TypeOK
  <2>3. Len(ops') <= MaxOps /\ async' \in [Ids -> {"held", "pending", "done", "gone"}]
    BY <2>2, <1>1, <1>3, IdsAre DEF TypeOK
  <2> QED  BY <1>1, <1>3, <2>1, <2>2, <2>3 DEF TypeOK, objects
<1>4. CASE /\ Len(ops) + 2 <= MaxOps
           /\ ops' = ops \o <<"lost", "put">>
           /\ async' = [async EXCEPT ![n] = "held", ![Len(ops) + 2] = "done"]
           /\ wake' = TRUE /\ over' = over \cup {n}
           /\ upload' = [upload EXCEPT ![u].id = Len(ops) + 2]
           /\ UNCHANGED <<answer, ready, results, objects, blocks, sent, failed>>
  <2>1. Len(ops) + 2 \in Ids  BY <1>4, IdsAre DEF Ids
  <2>2. upload' \in [Uploads -> Dirs]  BY <2>1, <1>4, UploadIdTypes
  <2>3. ops' \in Seq(Kind) /\ Len(ops') = Len(ops) + 2  BY <1>4 DEF TypeOK
  <2>4. async' \in [Ids -> {"held", "pending", "done", "gone"}]  BY <1>4 DEF TypeOK
  <2> QED  BY <1>1, <1>4, <2>2, <2>3, <2>4 DEF TypeOK, objects
<1> QED  BY <1>2, <1>3, <1>4 DEF Publish

LEMMA EndMarkerTypes == ASSUME TypeOK, NEW w \in Workers, NEW u \in Uploads, EndMarker(w, u) PROVE TypeOK'
<1>0. [upload[u] EXCEPT !.left = TRUE] \in Dirs  BY DEF TypeOK, Dirs
<1>1. upload' \in [Uploads -> Dirs]
  <2>1. upload' = [upload EXCEPT ![u].left = TRUE]  BY DEF EndMarker
  <2> QED  BY <2>1, <1>0 DEF TypeOK
<1>2. upload[u].marker \in Ids \cup {0}  BY DEF TypeOK, Dirs
<1>3. pc' \in [Workers -> Pcs] /\ wake' \in BOOLEAN
  <2>1. CASE upload[u].marker = 0  BY <2>1 DEF EndMarker, TypeOK
  <2>2. CASE upload[u].marker # 0
    <3>1. [at |-> "staged", u |-> u, id |-> upload[u].marker] \in Pcs  BY <2>2, <1>2 DEF Pcs
    <3> QED  BY <2>2, <3>1 DEF EndMarker, TypeOK
  <2> QED  BY <2>1, <2>2
<1> QED  BY <1>1, <1>3 DEF EndMarker, TypeOK, objects

LEMMA EndStagedTypes == ASSUME TypeOK, NEW w \in Workers, EndStaged(w) PROVE TypeOK'
<1>1. pc[w] \in [at : {"staged", "body"}, u : Uploads, id : Ids]  BY PcIs DEF EndStaged
<1>2. [pc[w] EXCEPT !.at = "body"] \in Pcs  BY <1>1 DEF Pcs
<1>3. pc' \in [Workers -> Pcs]  BY <1>2 DEF EndStaged, TypeOK
<1> DEFINE d == upload[pc[w].u]
<1>5. d \in Dirs  BY <1>1 DEF TypeOK
<1> HIDE DEF d
<1>6. [d EXCEPT !.marker = 0] \in Dirs  BY <1>5 DEF Dirs
<1>0. [upload[pc[w].u] EXCEPT !.marker = 0] \in Dirs  BY <1>6 DEF d
<1>4. upload' \in [Uploads -> Dirs]
  <2>1. upload' = [upload EXCEPT ![pc[w].u].marker = 0]  BY DEF EndStaged
  <2> QED  BY <2>1, <1>0, <1>1 DEF TypeOK
<1> QED  BY <1>3, <1>4 DEF EndStaged, TypeOK, answers, objects

LEMMA EndBodyTypes == ASSUME TypeOK, NEW w \in Workers, EndBody(w) PROVE TypeOK'
<1>1. pc[w] \in [at : {"staged", "body"}, u : Uploads, id : Ids]  BY PcIs DEF EndBody
<1> DEFINE u == pc[w].u
           order == InOrder(Len(upload[u].chunks))
           body == [i \in DOMAIN order |-> upload[u].chunks[order[i]]]
<1>2. upload[u] \in Dirs  BY <1>1 DEF TypeOK
<1>3. DOMAIN order = 1..Len(upload[u].chunks) /\ \A i \in DOMAIN order : order[i] = i  BY DEF InOrder
<1>4. body \in Seq(Nat)
  <2>1. upload[u].chunks \in Seq(Nat)  BY <1>2 DEF Dirs
  <2> HIDE DEF order, u
  <2>2. body \in [1..Len(upload[u].chunks) -> Nat]  BY <1>3, <2>1
  <2> HIDE DEF body
  <2> QED  BY <2>1, <2>2, SeqDef
<1>5. pc' = [pc EXCEPT ![w] = [at |-> "send", u |-> u, id |-> pc[w].id, body |-> body]]
  BY DEF EndBody, TypeOK
<1>6. [at |-> "send", u |-> u, id |-> pc[w].id, body |-> body] \in Pcs  BY <1>1, <1>4 DEF Pcs
<1> HIDE DEF body, order
<1>7. pc' \in [Workers -> Pcs]  BY <1>5, <1>6 DEF TypeOK
<1>8. CASE upload' = [upload EXCEPT ![u].chunks = <<>>, ![u].dir = FALSE]
  <2>1. upload' = [upload EXCEPT ![u].chunks = <<>>, ![u].dir = FALSE]  BY <1>8
  <2> HIDE DEF u
  <2>2. <<>> \in Seq(Nat)  OBVIOUS
  <2>3. [upload[u] EXCEPT !.chunks = <<>>, !.dir = FALSE] \in Dirs  BY <1>2, <2>2 DEF Dirs
  <2>4. u \in Uploads  BY <1>1 DEF u
  <2>5. upload' = [upload EXCEPT ![u] = [upload[u] EXCEPT !.chunks = <<>>, !.dir = FALSE]]  BY <2>1, <2>4 DEF TypeOK
  <2>6. upload' \in [Uploads -> Dirs]  BY <2>3, <2>4, <2>5 DEF TypeOK
  <2> QED  BY <1>7, <2>6 DEF EndBody, TypeOK, answers, objects
<1>9. CASE upload' = upload  BY <1>7, <1>9 DEF EndBody, TypeOK, answers, objects
<1> QED  BY <1>8, <1>9 DEF EndBody

LEMMA EndSendTypes == ASSUME TypeOK, NEW w \in Workers, EndSend(w) PROVE TypeOK'
<1>1. pc[w] \in [at : {"send"}, u : Uploads, id : Ids, body : Seq(Nat)]  BY PcIs DEF EndSend
<1>2. sent' \in [Ids -> Seq(Seq(Nat))]
  <2>1. Append(sent[pc[w].id], pc[w].body) \in Seq(Seq(Nat))  BY <1>1 DEF TypeOK
  <2> QED  BY <2>1 DEF EndSend, TypeOK
<1>3. PICK o \in {Net, File} :
        /\ open' = open \cup {o}
        /\ pc' = [pc EXCEPT ![w] = [at |-> Steps[1], id |-> @.id, handle |-> HandleOf(o)]]
  BY DEF EndSend
<1>4. HandleOf(o) \in Nat  BY HandlesAreNats
<1>5. [at |-> Steps[1], id |-> pc[w].id, handle |-> HandleOf(o)] \in Pcs  BY <1>1, <1>4 DEF Pcs, Steps
<1>6. pc' \in [Workers -> Pcs]  BY <1>3, <1>5 DEF TypeOK
<1>7. IsFiniteSet(open')  BY <1>3, FS_AddElement DEF TypeOK
<1> QED  BY <1>2, <1>6, <1>7 DEF EndSend, TypeOK, answers

LEMMA ThenIs ==
  ASSUME TypeOK, NEW w \in Workers
  PROVE  /\ pc[w].at = "result" => Then(w) = [pc[w] EXCEPT !.at = "resolve"] /\ Then(w).at = "resolve"
                                   /\ Then(w).id = pc[w].id
         /\ pc[w].at = "resolve" => Then(w) = Idle
         /\ pc[w].at \in {"result", "resolve"} => Then(w) \in Pcs
<1>1. Steps[1] = "result" /\ Steps[2] = "resolve"  BY DEF Steps
<1>2. CASE pc[w].at = "result"
  <2>1. Then(w) = [pc[w] EXCEPT !.at = "resolve"]  BY <1>1, <1>2 DEF Then
  <2>2. pc[w] \in [at : {"result", "resolve"}, id : Ids, handle : Nat]  BY <1>2, PcIs
  <2> QED  BY <1>2, <2>1, <2>2 DEF Pcs
<1>3. CASE pc[w].at = "resolve"  BY <1>1, <1>3, IdleIs DEF Then
<1>4. CASE pc[w].at \notin {"result", "resolve"}  BY <1>4
<1> QED  BY <1>2, <1>3, <1>4

LEMMA EndResultTypes == ASSUME TypeOK, NEW w \in Workers, EndResult(w) PROVE TypeOK'
<1>1. pc[w] \in [at : {"result", "resolve"}, id : Ids, handle : Nat]  BY PcIs DEF EndResult
<1>2. pc' \in [Workers -> Pcs]  BY ThenIs DEF EndResult, TypeOK
<1>3. answer' \in [Ids -> SUBSET Nat] /\ results' \subseteq Ids  BY <1>1 DEF EndResult, TypeOK
<1> QED  BY <1>2, <1>3 DEF EndResult, TypeOK, objects, staging

LEMMA EndResolveTypes == ASSUME TypeOK, NEW w \in Workers, EndResolve(w) PROVE TypeOK'
<1>1. pc' \in [Workers -> Pcs]  BY ThenIs DEF EndResolve, TypeOK
<1> QED  BY <1>1 DEF EndResolve, TypeOK, objects, staging

LEMMA EndFailsTypes == ASSUME TypeOK, NEW w \in Workers, EndFails(w) PROVE TypeOK'
<1>1. pc[w].id \in Ids  BY PcIs DEF EndFails
<1>2. sent' \in [Ids -> Seq(Seq(Nat))]
  <2>1. CASE pc[w].at = "send"
    <3>1. pc[w] \in [at : {"send"}, u : Uploads, id : Ids, body : Seq(Nat)]  BY <2>1, PcIs
    <3>2. Append(sent[pc[w].id], pc[w].body) \in Seq(Seq(Nat))  BY <3>1 DEF TypeOK
    <3> QED  BY <2>1, <3>2 DEF EndFails, TypeOK
  <2>2. CASE pc[w].at # "send"  BY <2>2 DEF EndFails, TypeOK
  <2> QED  BY <2>1, <2>2
<1>3. lost' \subseteq Nat
  <2>1. CASE pc[w].at = "result"
    <3>1. pc[w] \in [at : {"result", "resolve"}, id : Ids, handle : Nat]  BY <2>1, PcIs
    <3> QED  BY <2>1, <3>1 DEF EndFails, TypeOK
  <2>2. CASE pc[w].at # "result"  BY <2>2 DEF EndFails, TypeOK
  <2> QED  BY <2>1, <2>2
<1>4. pc' \in [Workers -> Pcs] /\ failed' \subseteq Ids  BY <1>1, IdleIs DEF EndFails, TypeOK
<1> QED  BY <1>2, <1>3, <1>4 DEF EndFails, TypeOK

LEMMA WaitCompletionTypes == ASSUME TypeOK, NEW w \in Workers, WaitCompletion(w) PROVE TypeOK'
<1>1. [at |-> "ask", ids |-> Started \ over] \in Pcs  BY IdsAre DEF Pcs
<1>2. pc' \in [Workers -> Pcs]  BY <1>1 DEF WaitCompletion, TypeOK
<1> QED  BY <1>2 DEF WaitCompletion, TypeOK, objects, staging

\* A worker that has asked one more.
LEMMA AskedIs ==
  ASSUME TypeOK, NEW w \in Workers, NEW i, Asking(w, i), Asked(w, i)
  PROVE  /\ i \in Ids /\ pc[w].at = "ask"
         /\ \E r \in Pcs : r.at \in {"idle", "ask"} /\ pc' = [pc EXCEPT ![w] = r]
<1>1. pc[w] \in [at : {"ask"}, ids : SUBSET Ids] /\ i \in Ids  BY PcIs DEF Asking
<1> DEFINE r == [at |-> "ask", ids |-> pc[w].ids \ {i}]
<1>2. r \in Pcs /\ r.at = "ask"  BY <1>1 DEF Pcs
<1>3. pc' = [pc EXCEPT ![w] = Idle] \/ pc' = [pc EXCEPT ![w] = r]  BY DEF Asked
<1> HIDE DEF r
<1> QED  BY <1>1, <1>2, <1>3, IdleIs

LEMMA ResponseLenTypes == ASSUME TypeOK, NEW w \in Workers, NEW i \in Ids, ResponseLen(w, i) PROVE TypeOK'
<1>1. pc' \in [Workers -> Pcs]
  <2>1. CASE Asked(w, i)  BY <2>1, AskedIs DEF ResponseLen, TypeOK
  <2>2. CASE UNCHANGED pc  BY <2>2 DEF TypeOK
  <2> QED  BY <2>1, <2>2 DEF ResponseLen
<1>2. /\ ready' \in [Workers -> SUBSET Ids] /\ results' \subseteq Ids
      /\ async' \in [Ids -> {"held", "pending", "done", "gone"}]
  <2>1. CASE async[i] = "done" \/ i \in results
    <3>1. /\ ready' = [ready EXCEPT ![w] = @ \cup {i}]
          /\ async' = [async EXCEPT ![i] = IF @ = "done" THEN "gone" ELSE @]
          /\ results' \subseteq results
      BY <2>1 DEF ResponseLen
    <3> QED  BY <3>1 DEF TypeOK
  <2>2. CASE ~(async[i] = "done" \/ i \in results)  BY <2>2 DEF ResponseLen, TypeOK
  <2> QED  BY <2>1, <2>2
<1>3. answer' \in [Ids -> SUBSET Nat] /\ lost' \subseteq Nat
  <2>1. \/ UNCHANGED <<answer, lost>>
        \/ answer' = [answer EXCEPT ![i] = {}] /\ lost' = lost \cup answer[i]
    BY DEF ResponseLen
  <2> QED  BY <2>1 DEF TypeOK
<1> QED  BY <1>1, <1>2, <1>3 DEF ResponseLen, TypeOK, staging

LEMMA ResponseReadTypes == ASSUME TypeOK, NEW w \in Workers, NEW i \in Ids, ResponseRead(w, i) PROVE TypeOK'
<1>1. pc' \in [Workers -> Pcs]
  BY AskedIs DEF ResponseRead, TypeOK
<1>2. /\ ready' \in [Workers -> SUBSET Ids] /\ over' \subseteq Ids
      /\ mine' \subseteq Nat /\ ended' \subseteq mine' /\ answer' \in [Ids -> SUBSET Nat]
  BY DEF ResponseRead, TypeOK
<1> QED  BY <1>1, <1>2 DEF ResponseRead, TypeOK, staging

\* A child's stdin is a descriptor.
LEMMA StdinIs ==
  ASSUME NEW h \in Nat, NEW o \in Stdin(h)
  PROVE  /\ o.type = "fd" /\ o.n \in 0..1022 /\ o = [type |-> "fd", n |-> o.n]
         /\ IsProcHandle(h) /\ Object(h).type = "proc"
<1>1. IsProcHandle(h) /\ o = [type |-> "fd", n |-> ProcOf(h).stdin] /\ ProcOf(h).stdin # NoFd  BY DEF Stdin
<1>2. ProcOf(h).stdin \in 0..1022
  <2>1. PICK r : r = (h - PROC_HANDLE) % 1024  OBVIOUS
  <2>2. r \in 0..1023  BY <2>1 DEF PROC_HANDLE
  <2>3. ProcOf(h).stdin = IF r - 1 < 0 THEN NoFd ELSE r - 1  BY <2>1 DEF ProcOf
  <2> QED  BY <1>1, <2>2, <2>3
<1>3. ~IsFdHandle(h)  BY <1>1 DEF IsProcHandle, IsFdHandle, PROC_HANDLE, FD_HANDLE, SYNTHETIC
<1>4. Object(h).type = "proc"  BY <1>1, <1>3 DEF Object
<1> QED  BY <1>1, <1>2, <1>4

LEMMA LeftAreNats == ASSUME NEW h \in Nat PROVE StdinLeft(h) \subseteq Nat
BY StdinIs, FdHandleIsNat DEF StdinLeft

LEMMA CancelTypes == ASSUME TypeOK, NEW w \in Workers, NEW i \in Ids, Cancel(w, i) PROVE TypeOK'
<1>1. pc' \in [Workers -> Pcs]
  <2>1. CASE pc[w] = Idle  BY <2>1 DEF Cancel, TypeOK
  <2>2. CASE pc[w] # Idle  BY <2>2, AskedIs DEF Cancel, TypeOK
  <2> QED  BY <2>1, <2>2
<1>2. /\ ready' \in [Workers -> SUBSET Ids] /\ over' \subseteq Ids /\ results' \subseteq Ids
      /\ async' \in [Ids -> {"held", "pending", "done", "gone"}]
  BY DEF Cancel, TypeOK
<1>3. IsFiniteSet(open')
  <2>1. IsFiniteSet(open) /\ open' \in SUBSET open  BY DEF Cancel, TypeOK
  <2> QED  BY <2>1, FS_Subset
<1>4. answer' \in [Ids -> SUBSET Nat]  BY DEF Cancel, TypeOK
<1>5. lost' \subseteq Nat
  <2>1. answer[i] \subseteq Nat /\ lost \subseteq Nat  BY DEF TypeOK
  <2>2. UNION {StdinLeft(h) : h \in answer[i]} \subseteq Nat  BY <2>1, LeftAreNats
  <2>3. \/ lost' = lost \cup UNION {StdinLeft(h) : h \in answer[i]}
        \/ lost' = lost \cup answer[i]
        \/ lost' = lost
    BY DEF Cancel
  <2> QED  BY <2>1, <2>2, <2>3
<1> QED  BY <1>1, <1>2, <1>3, <1>4, <1>5 DEF Cancel, TypeOK, staging

LEMMA CloseTypes == ASSUME TypeOK, NEW w \in Workers, NEW h, Close(w, h) PROVE TypeOK'
<1>1. IsFiniteSet(open') /\ IsFiniteSet(ended')
  <2>1. IsFiniteSet(open) /\ open' \in SUBSET open  BY DEF Close, TypeOK
  <2>2. IsFiniteSet(ended) /\ ended' \in SUBSET ended  BY DEF Close, TypeOK
  <2> QED  BY <2>1, <2>2, FS_Subset
<1>2. lost' \subseteq Nat
  <2>1. h \in Nat /\ lost \subseteq Nat  BY DEF Close, TypeOK
  <2>2. lost' = lost \/ lost' = lost \cup StdinLeft(h)  BY DEF Close
  <2> QED  BY <2>1, <2>2, LeftAreNats
<1> QED  BY <1>1, <1>2 DEF Close, TypeOK, answers, staging

LEMMA EndedTypes ==
  ASSUME TypeOK, NEW h \in mine, ended' = ended \cup {h}, mine' = mine, open' \in SUBSET open,
         UNCHANGED <<cors, ops, answers, lost, staging, pc>>
  PROVE  TypeOK'
<1>1. IsFiniteSet(open')  BY FS_Subset DEF TypeOK
<1>2. IsFiniteSet(ended')  BY FS_AddElement DEF TypeOK
<1> QED  BY <1>1, <1>2 DEF TypeOK, answers, staging

LEMMA CloseStdinTypes == ASSUME TypeOK, NEW w \in Workers, NEW h, CloseStdin(w, h) PROVE TypeOK'
BY EndedTypes DEF CloseStdin
LEMMA ReadSyntheticTypes == ASSUME TypeOK, NEW w \in Workers, NEW h, ReadSynthetic(w, h) PROVE TypeOK'
BY EndedTypes DEF ReadSynthetic

LEMMA CloseUploadTypes == ASSUME TypeOK, NEW w \in Workers, NEW u \in Uploads, CloseUpload(w, u) PROVE TypeOK'
<1> DEFINE d == upload[u]
           r == [d EXCEPT !.chunks = <<>>, !.left = TRUE, !.dir = d.marker # 0]
<1>1. d \in Dirs  BY DEF TypeOK
<1>2. upload' = [upload EXCEPT ![u] = r]  BY DEF CloseUpload, TypeOK
<1> HIDE DEF d
<1>3. <<>> \in Seq(Nat) /\ (d.marker # 0) \in BOOLEAN  OBVIOUS
<1>4. r \in Dirs  BY <1>1, <1>3 DEF Dirs
<1> HIDE DEF r
<1>5. upload' \in [Uploads -> Dirs]  BY <1>2, <1>4 DEF TypeOK
<1> QED  BY <1>5 DEF CloseUpload, TypeOK, answers, objects

LEMMA TypeNext == ASSUME TypeOK, [Next]_vars PROVE TypeOK'
<1>1. CASE UNCHANGED vars  BY <1>1 DEF TypeOK, vars, answers, objects, staging
<1>2. ASSUME NEW i \in Ids, Complete(i) PROVE TypeOK'  BY <1>2, CompleteTypes
<1>3. ASSUME NEW w \in Workers, Start(w) PROVE TypeOK'
  BY <1>3, GetTypes, PutTypes, SpawnTypes, CreateTypes, WriteTypes, PublishTypes, EndMarkerTypes DEF Start
<1>4. ASSUME NEW w \in Workers, Ending(w) PROVE TypeOK'
  BY <1>4, EndStagedTypes, EndBodyTypes, EndSendTypes, EndResultTypes, EndResolveTypes, EndFailsTypes DEF Ending
<1>5. ASSUME NEW w \in Workers, Asks(w) PROVE TypeOK'
  BY <1>5, WaitCompletionTypes, ResponseLenTypes, ResponseReadTypes DEF Asks
<1>6. ASSUME NEW w \in Workers, Drops(w) PROVE TypeOK'
  BY <1>6, CancelTypes, CloseTypes, CloseStdinTypes, ReadSyntheticTypes, CloseUploadTypes DEF Drops
<1> QED  BY <1>1, <1>2, <1>3, <1>4, <1>5, <1>6 DEF Next

\* The state keeps its types, whatever pnpm asks for and in whatever order: in
\* particular a worker in the end of an upload is in one of the steps of
\* sendDeferred (pnpm-host.mjs:530-552).
THEOREM TypeCorrect == Spec => []TypeOK
<1>1. Init => TypeOK  BY TypeInit
<1>2. TypeOK /\ [Next]_vars => TypeOK'  BY TypeNext
<1> QED  BY <1>1, <1>2, PTL DEF Spec

-----------------------------------------------------------------------------
(* Ids and uploads                                                         *)

\* There is an answer that pnpm can still read.
Avail(i) == /\ i \in Started \ over
            /\ async[i] = "done" \/ i \in results \/ \E w \in Workers : i \in ready[w]
Uploading(w) == pc[w].at \in {"staged", "body", "send"}
Waits(w) == pc[w].at \in {"staged", "body", "send", "result"}
Sends(w) == pc[w].at \in {"staged", "body", "send", "result", "resolve"}

\* An id that is not started yet, or that the kernel still works on, has
\* nothing, and nobody has taken one whose completion is in ctx.async.
Blank ==
  /\ results \subseteq Started /\ over \subseteq Started
  /\ \A w \in Workers : ready[w] \subseteq Started
  /\ \A i \in Ids \ Started : async[i] = "gone" /\ answer[i] = {} /\ sent[i] = <<>>
  /\ \A i \in Ids : async[i] \in {"pending", "done"} =>
       i \notin over /\ \A w \in Workers : i \notin ready[w]
  /\ \A i \in Ids : async[i] = "pending" => answer[i] = {} /\ i \notin results
Known == \A i \in Started : /\ ops[i] = "publish" => async[i] \in {"held", "gone"}
                            /\ ops[i] = "lost" => i \in over

\* One worker at a time is in the end of an upload, and the answer of its
\* publish is not there before.
SenderOf(w) ==
  /\ pc[w].id \in Started /\ ops[pc[w].id] = "publish"
  /\ \A v \in Workers : Sends(v) /\ pc[v].id = pc[w].id => v = w
  /\ \E u \in Uploads : /\ upload[u].id = pc[w].id /\ upload[u].left
                        /\ pc[w].at # "staged" => upload[u].marker = 0
                        /\ Uploading(w) => pc[w].u = u /\ sent[pc[w].id] = <<>>
  /\ Waits(w) => ~Avail(pc[w].id)
Senders == \A w \in Workers : Sends(w) => SenderOf(w)

\* A marker is of a publish that nobody has begun to send.
UploadOf(u) ==
  /\ upload[u].id \in Started \cup {0} /\ upload[u].marker \in {0, upload[u].id}
  /\ upload[u].marker # 0 =>
       /\ ops[upload[u].marker] = "publish" /\ ~Avail(upload[u].marker)
       /\ sent[upload[u].marker] = <<>>
  /\ \A v \in Uploads : upload[u].id # 0 /\ upload[v].id = upload[u].id => u = v
  /\ upload[u].id # 0 /\ ~upload[u].left => sent[upload[u].id] = <<>>
Staged == \A u \in Uploads : UploadOf(u)

StepInv == TypeOK /\ Blank /\ Known /\ Senders /\ Staged

\* Most steps leave what is about to be sent alone: nothing of it begins, an
\* upload keeps its id and its marker, and no publish gets an answer that
\* someone is still to bring.
Later(w) == /\ Sends(w) /\ pc'[w].id = pc[w].id
            /\ pc'[w].at # "staged" => pc[w].at # "staged"
            /\ Uploading(w)' => Uploading(w) /\ pc'[w].u = pc[w].u
            /\ Waits(w)' => Waits(w)
Keeps(u) == /\ upload'[u].id = upload[u].id /\ upload'[u].marker = upload[u].marker
            /\ upload[u].left => upload'[u].left
Brought(i) == /\ \A w \in Workers : Sends(w)' /\ pc'[w].id = i => ~Waits(w)'
              /\ \A u \in Uploads : upload[u].marker # i
Steady ==
  /\ sent' = sent /\ Started \subseteq Started' /\ \A i \in Started : ops'[i] = ops[i]
  /\ \A w \in Workers : Sends(w)' => Later(w)
  /\ \A u \in Uploads : Keeps(u)
  /\ \A i \in Started : ops[i] = "publish" /\ Avail(i)' => Avail(i) \/ Brought(i)

LEMMA SteadySenders == ASSUME Senders, Steady PROVE Senders'
<1> SUFFICES ASSUME NEW w \in Workers, Sends(w)' PROVE SenderOf(w)'  BY DEF Senders
<1>1. Later(w) /\ SenderOf(w)  BY DEF Steady, Later, Senders
<1>2. PICK i \in Started : i = pc[w].id /\ i = pc'[w].id /\ ops[i] = "publish"
  BY <1>1 DEF Later, SenderOf
<1>3. i \in Started' /\ ops'[i] = "publish"  BY <1>2 DEF Steady
<1>4. \A v \in Workers : Sends(v)' /\ pc'[v].id = pc'[w].id => v = w
  <2> SUFFICES ASSUME NEW v \in Workers, Sends(v)', pc'[v].id = pc'[w].id PROVE v = w  OBVIOUS
  <2>1. Later(v)  BY DEF Steady
  <2>2. Sends(v) /\ pc[v].id = pc[w].id  BY <2>1, <1>1 DEF Later
  <2> QED  BY <2>2, <1>1 DEF SenderOf
<1>5. \E u \in Uploads : /\ upload'[u].id = pc'[w].id /\ upload'[u].left
                         /\ pc'[w].at # "staged" => upload'[u].marker = 0
                         /\ Uploading(w)' => pc'[w].u = u /\ sent'[pc'[w].id] = <<>>
  <2>1. PICK u \in Uploads : /\ upload[u].id = pc[w].id /\ upload[u].left
                             /\ pc[w].at # "staged" => upload[u].marker = 0
                             /\ Uploading(w) => pc[w].u = u /\ sent[pc[w].id] = <<>>
    BY <1>1 DEF SenderOf
  <2>2. Keeps(u) /\ sent' = sent  BY DEF Steady
  <2> QED  BY <2>1, <2>2, <1>1 DEF Later, Keeps
<1>6. ASSUME Waits(w)' PROVE ~Avail(pc[w].id)'
  <2>1. ~Avail(i)  BY <1>1, <1>2, <1>6 DEF Later, SenderOf
  <2>2. ~Brought(i)  BY <1>2, <1>6 DEF Brought
  <2>3. ops[i] = "publish" /\ Avail(i)' => Avail(i) \/ Brought(i)  BY <1>2 DEF Steady
  <2>4. ~Avail(i)'  BY <2>1, <2>2, <2>3, <1>2
  <2> QED  BY <2>4, <1>2 DEF Avail
<1> QED  BY <1>2, <1>3, <1>4, <1>5, <1>6 DEF SenderOf

LEMMA SteadyStaged == ASSUME Staged, Steady PROVE Staged'
<1> SUFFICES ASSUME NEW u \in Uploads PROVE UploadOf(u)'  BY DEF Staged
<1>1. UploadOf(u) /\ \A v \in Uploads : Keeps(v)  BY DEF Staged, Steady
<1>2. sent' = sent /\ Started \subseteq Started' /\ \A i \in Started : ops'[i] = ops[i]  BY DEF Steady
<1>3. upload'[u].id \in Started' \cup {0} /\ upload'[u].marker \in {0, upload'[u].id}
  BY <1>1, <1>2 DEF UploadOf, Keeps
<1>4. ASSUME upload'[u].marker # 0
      PROVE  /\ ops'[upload'[u].marker] = "publish" /\ ~Avail(upload[u].marker)'
             /\ sent'[upload'[u].marker] = <<>>
  <2>1. PICK i \in Started : i = upload[u].marker /\ i = upload'[u].marker
    BY <1>1, <1>4 DEF UploadOf, Keeps
  <2>2. ops[i] = "publish" /\ ~Avail(i) /\ sent[i] = <<>>  BY <2>1, <1>1, <1>4 DEF UploadOf
  <2>3. ~Brought(i)  BY <2>1 DEF Brought
  <2>4. ~Avail(i)'  BY <2>2, <2>3 DEF Steady
  <2> QED  BY <2>1, <2>2, <2>4, <1>2 DEF Avail
<1>5. \A v \in Uploads : upload'[u].id # 0 /\ upload'[v].id = upload'[u].id => u = v
  BY <1>1 DEF UploadOf, Keeps
<1>6. upload'[u].id # 0 /\ ~upload'[u].left => sent'[upload'[u].id] = <<>>
  BY <1>1, <1>2 DEF UploadOf, Keeps
<1> QED  BY <1>3, <1>4, <1>5, <1>6 DEF UploadOf

LEMMA StepInit == Init => StepInv
<1> SUFFICES ASSUME Init PROVE StepInv  OBVIOUS
<1>1. TypeOK  BY TypeInit
<1>2. Started = {}  BY DEF Init, Started
<1>3. Blank /\ Known  BY <1>2 DEF Init, Blank, Known
<1>4. Senders  BY DEF Init, Idle, Senders, Sends
<1>5. Staged  BY <1>2 DEF Init, NoUpload, Staged, UploadOf
<1> QED  BY <1>1, <1>3, <1>4, <1>5 DEF StepInv

\* Operations that are done, or the kernel's, from the start.
LEMMA GrowsSteady ==
  ASSUME StepInv, Len(ops) < MaxOps, NEW what \in {"get", "put", "spawn"}, ops' = Append(ops, what),
         NEW st \in {"pending", "done"}, async' = [async EXCEPT ![Len(ops) + 1] = st],
         UNCHANGED <<ready, results, over, upload, sent, pc>>
  PROVE  /\ Started' = Started \cup {Len(ops) + 1} /\ Len(ops) + 1 \in Ids \ Started
         /\ Steady /\ Known'
<1> DEFINE n == Len(ops) + 1
<1>1. Started = 1..Len(ops) /\ Started \subseteq Ids /\ n \in Ids \ Started /\ Len(ops) \in Nat
  BY IdsAre DEF StepInv
<1>2. /\ Len(ops') = n /\ Started' = 1..n /\ ops'[n] = what
      /\ \A i \in Started : ops'[i] = ops[i]
  BY <1>1 DEF StepInv, TypeOK, Started
<1>3. Started' = Started \cup {n}  BY <1>1, <1>2
<1>4. async \in [Ids -> {"held", "pending", "done", "gone"}]  BY DEF StepInv, TypeOK
<1>5. \A i \in Started : async'[i] = async[i] /\ i \in Ids  BY <1>1, <1>4
<1> HIDE DEF n
<1>6. Known'
  <2> SUFFICES ASSUME NEW i \in Started'
               PROVE  /\ ops'[i] = "publish" => async'[i] \in {"held", "gone"}
                      /\ ops'[i] = "lost" => i \in over'
    BY DEF Known
  <2>1. CASE i = n  BY <2>1, <1>2
  <2>2. CASE i \in Started  BY <2>2, <1>2, <1>5 DEF StepInv, Known
  <2> QED  BY <2>1, <2>2, <1>3
<1>7. \A i \in Started : Avail(i)' => Avail(i)  BY <1>5 DEF Avail
<1>8. \A w \in Workers : Sends(w)' => Later(w)  BY DEF Later, Sends, Uploading, Waits
<1>9. \A u \in Uploads : Keeps(u)  BY DEF Keeps
<1>10. Steady  BY <1>2, <1>3, <1>7, <1>8, <1>9 DEF Steady
<1> QED  BY <1>1, <1>3, <1>6, <1>10 DEF n

LEMMA GrowsBlank ==
  ASSUME StepInv, NEW n \in Ids \ Started, Started' = Started \cup {n}, NEW st \in {"pending", "done"},
         async' = [async EXCEPT ![n] = st],
         NEW H, answer' = [answer EXCEPT ![n] = H], st = "pending" => H = {},
         UNCHANGED <<ready, results, over, sent>>
  PROVE  Blank'
<1>1. n \notin results \cup over /\ \A w \in Workers : n \notin ready[w]  BY DEF StepInv, Blank
<1>2. async \in [Ids -> {"held", "pending", "done", "gone"}] /\ answer \in [Ids -> SUBSET Nat]
  BY DEF StepInv, TypeOK
<1>3. \A i \in Ids \ {n} : async'[i] = async[i] /\ answer'[i] = answer[i]  BY <1>2
<1>4. async'[n] = st /\ answer'[n] = H  BY <1>2
<1>5. results' \subseteq Started' /\ over' \subseteq Started' /\ \A w \in Workers : ready'[w] \subseteq Started'
  BY DEF StepInv, Blank
<1>6. \A i \in Ids \ Started' : async'[i] = "gone" /\ answer'[i] = {} /\ sent'[i] = <<>>
  BY <1>3 DEF StepInv, Blank
<1>7. ASSUME NEW i \in Ids, async'[i] \in {"pending", "done"}
      PROVE  i \notin over' /\ \A w \in Workers : i \notin ready'[w]
  <2>1. CASE i = n  BY <2>1, <1>1
  <2>2. CASE i # n  BY <2>2, <1>3, <1>7 DEF StepInv, Blank
  <2> QED  BY <2>1, <2>2
<1>8. ASSUME NEW i \in Ids, async'[i] = "pending" PROVE answer'[i] = {} /\ i \notin results'
  <2>1. CASE i = n  BY <2>1, <1>1, <1>4, <1>8
  <2>2. CASE i # n  BY <2>2, <1>3, <1>8 DEF StepInv, Blank
  <2> QED  BY <2>1, <2>2
<1> QED  BY <1>5, <1>6, <1>7, <1>8 DEF Blank

LEMMA QuietWorker ==
  ASSUME TypeOK, NEW w \in Workers, NEW r, r.at \in {"idle", "ask"},
         pc' = [pc EXCEPT ![w] = r] \/ pc' = pc
  PROVE  \A v \in Workers : Sends(v)' => Later(v)
<1> SUFFICES ASSUME NEW v \in Workers, Sends(v)' PROVE Later(v)  OBVIOUS
<1>1. pc \in [Workers -> Pcs]  BY DEF TypeOK
<1>2. pc'[v] = pc[v]
  <2>1. CASE v = w /\ pc' # pc
    <3>1. pc'[v] = r  BY <1>1, <2>1
    <3> QED  BY <3>1 DEF Sends
  <2>2. CASE v # w \/ pc' = pc  BY <1>1, <2>2
  <2> QED  BY <2>1, <2>2
<1> QED  BY <1>2 DEF Later, Sends, Uploading, Waits

LEMMA SameUploads == ASSUME upload' = upload PROVE \A u \in Uploads : Keeps(u)
BY DEF Keeps

LEMMA GetSteps == ASSUME StepInv, NEW w \in Workers, Get(w) PROVE StepInv'
<1> DEFINE n == Len(ops) + 1
<1>1. TypeOK'  BY GetTypes DEF StepInv
<1>2. /\ Len(ops) < MaxOps /\ ops' = Append(ops, "get") /\ async' = [async EXCEPT ![n] = "pending"]
      /\ UNCHANGED <<ready, results, over, upload, sent, pc, answer>>
  BY DEF Get, CanStart, staging
<1>3. Started' = Started \cup {n} /\ n \in Ids \ Started /\ Steady /\ Known'
  BY <1>2, GrowsSteady
<1>4. Blank'
  <2>1. answer[n] = {} /\ answer \in [Ids -> SUBSET Nat]  BY <1>3 DEF StepInv, Blank, TypeOK
  <2> HIDE DEF n
  <2>2. answer' = [answer EXCEPT ![n] = {}]  BY <2>1, <1>2, <1>3
  <2> QED  BY <1>2, <1>3, <2>2, GrowsBlank
<1> QED  BY <1>1, <1>3, <1>4, SteadySenders, SteadyStaged DEF StepInv

LEMMA ResolveSteps ==
  ASSUME StepInv, Len(ops) < MaxOps, NEW what \in {"put", "spawn"}, NEW H, Resolve(what, H),
         UNCHANGED <<upload, sent, pc>>, TypeOK'
  PROVE  StepInv'
<1> DEFINE n == Len(ops) + 1
<1>1. /\ ops' = Append(ops, what) /\ async' = [async EXCEPT ![n] = "done"]
      /\ answer' = [answer EXCEPT ![n] = H] /\ UNCHANGED <<ready, results, over>>
  BY DEF Resolve
<1>2. Started' = Started \cup {n} /\ n \in Ids \ Started /\ Steady /\ Known'
  BY <1>1, GrowsSteady
<1> HIDE DEF n
<1>3. Blank'  BY <1>1, <1>2, GrowsBlank
<1> QED  BY <1>2, <1>3, SteadySenders, SteadyStaged DEF StepInv

LEMMA PutSteps == ASSUME StepInv, NEW w \in Workers, Put(w) PROVE StepInv'
<1>1. TypeOK'  BY PutTypes DEF StepInv
<1>2. Len(ops) < MaxOps /\ UNCHANGED <<upload, sent, pc>>  BY DEF Put, CanStart, staging
<1>3. PICK H : Resolve("put", H)  BY DEF Put, Synthetic
<1> QED  BY <1>1, <1>2, <1>3, ResolveSteps

LEMMA SpawnSteps == ASSUME StepInv, NEW w \in Workers, Spawn(w) PROVE StepInv'
<1>1. TypeOK'  BY SpawnTypes DEF StepInv
<1>2. Len(ops) < MaxOps /\ UNCHANGED <<upload, sent, pc>>  BY DEF Spawn, CanStart, staging
<1>3. PICK H : Resolve("spawn", H)  BY DEF Spawn
<1> QED  BY <1>1, <1>2, <1>3, ResolveSteps

LEMMA CompleteSteps == ASSUME StepInv, NEW i \in Ids, Complete(i) PROVE StepInv'
<1>1. TypeOK'  BY CompleteTypes DEF StepInv
<1>2. async[i] = "pending" /\ async' = [async EXCEPT ![i] = "done"]
      /\ UNCHANGED <<ops, ready, results, over, upload, sent, pc>>
  BY DEF Complete, staging
<1>3. async \in [Ids -> {"held", "pending", "done", "gone"}]  BY DEF StepInv, TypeOK
<1>4. i \in Started /\ Started' = Started  BY <1>2 DEF StepInv, Blank, Started
<1>5. Known'  BY <1>2, <1>3, <1>4 DEF StepInv, Known
<1>6. \A j \in Ids \ {i} : async'[j] = async[j] /\ answer'[j] = answer[j]
  <2>1. answer \in [Ids -> SUBSET Nat]  BY DEF StepInv, TypeOK
  <2>2. answer' = answer \/ \E H : answer' = [answer EXCEPT ![i] = H]  BY DEF Complete
  <2> QED  BY <1>2, <1>3, <2>1, <2>2
<1>7. async'[i] = "done"  BY <1>2, <1>3
<1>8. Blank'  BY <1>2, <1>4, <1>6, <1>7 DEF StepInv, Blank
<1>9. Steady
  <2>1. \A j \in Started : ops[j] = "publish" /\ Avail(j)' => Avail(j)
    <3> SUFFICES ASSUME NEW j \in Started, ops[j] = "publish", Avail(j)' PROVE Avail(j)  OBVIOUS
    <3>1. j # i  BY <1>2 DEF StepInv, Known
    <3>2. async'[j] = async[j]  BY <3>1, <1>2, <1>3
    <3> QED  BY <3>2, <1>2, <1>4 DEF Avail
  <2>2. \A w \in Workers : Sends(w)' => Later(w)  BY <1>2 DEF Later, Sends, Uploading, Waits
  <2> QED  BY <1>2, <1>4, <2>1, <2>2, SameUploads DEF Steady
<1> QED  BY <1>1, <1>5, <1>8, <1>9, SteadySenders, SteadyStaged DEF StepInv

\* Steps of which the answers know nothing.
LEMMA KeepsAnswers ==
  ASSUME StepInv, UNCHANGED <<ops, async, answer, ready, results, over, sent>>, Steady, TypeOK'
  PROVE  StepInv'
<1>1. Started' = Started  BY DEF Started
<1>2. Known' /\ Blank'  BY <1>1 DEF StepInv, Known, Blank
<1> QED  BY <1>2, SteadySenders, SteadyStaged DEF StepInv

LEMMA KeepsAvail ==
  ASSUME UNCHANGED <<ops, async, ready, results, over>>
  PROVE  Started' = Started /\ \A i : Avail(i)' <=> Avail(i)
BY DEF Started, Avail

LEMMA ObjectSteps ==
  ASSUME StepInv, UNCHANGED <<ops, answers, upload, sent, pc>>, TypeOK'
  PROVE  StepInv'
<1>1. UNCHANGED <<ops, async, answer, ready, results, over, sent, upload, pc>>  BY DEF answers
<1>2. Steady  BY <1>1, KeepsAvail, SameUploads DEF Steady, Later, Sends, Uploading, Waits
<1> QED  BY <1>1, <1>2, KeepsAnswers

LEMMA CloseSteps == ASSUME StepInv, NEW w \in Workers, NEW h, Close(w, h) PROVE StepInv'
BY CloseTypes, ObjectSteps DEF Close, StepInv, staging
LEMMA CloseStdinSteps == ASSUME StepInv, NEW w \in Workers, NEW h, CloseStdin(w, h) PROVE StepInv'
BY CloseStdinTypes, ObjectSteps DEF CloseStdin, StepInv, staging
LEMMA ReadSyntheticSteps == ASSUME StepInv, NEW w \in Workers, NEW h, ReadSynthetic(w, h) PROVE StepInv'
BY ReadSyntheticTypes, ObjectSteps DEF ReadSynthetic, StepInv, staging

\* Steps on one upload that leave its id and its marker.
LEMMA FilesSteps ==
  ASSUME StepInv, NEW u \in Uploads, UNCHANGED <<ops, answers, sent, pc>>, TypeOK', Keeps(u),
         \A v \in Uploads \ {u} : upload'[v] = upload[v]
  PROVE  StepInv'
<1>1. UNCHANGED <<ops, async, answer, ready, results, over, sent, pc>>  BY DEF answers
<1>2. \A v \in Uploads : Keeps(v)  BY DEF Keeps
<1>3. Steady  BY <1>1, <1>2, KeepsAvail DEF Steady, Later, Sends, Uploading, Waits
<1> QED  BY <1>1, <1>3, KeepsAnswers

LEMMA CreateSteps == ASSUME StepInv, NEW w \in Workers, NEW u \in Uploads, Create(w, u) PROVE StepInv'
<1>1. upload \in [Uploads -> Dirs]  BY DEF StepInv, TypeOK
<1>2. Keeps(u) /\ \A v \in Uploads \ {u} : upload'[v] = upload[v]  BY <1>1 DEF Create, Keeps, Dirs
<1> QED  BY <1>2, CreateTypes, FilesSteps DEF Create, StepInv

LEMMA WriteSteps == ASSUME StepInv, NEW w \in Workers, NEW u \in Uploads, Write(w, u) PROVE StepInv'
<1>1. upload \in [Uploads -> Dirs]  BY DEF StepInv, TypeOK
<1>2. Keeps(u) /\ \A v \in Uploads \ {u} : upload'[v] = upload[v]
  <2> DEFINE c == Append(upload[u].chunks, upload[u].wrote + 1)
  <2>1. upload' = [upload EXCEPT ![u].chunks = c, ![u].wrote = @ + 1]  BY DEF Write
  <2> HIDE DEF c
  <2> QED  BY <1>1, <2>1 DEF Keeps, Dirs
<1> QED  BY <1>2, WriteTypes, FilesSteps DEF Write, StepInv

LEMMA CloseUploadSteps == ASSUME StepInv, NEW w \in Workers, NEW u \in Uploads, CloseUpload(w, u) PROVE StepInv'
<1>1. upload \in [Uploads -> Dirs]  BY DEF StepInv, TypeOK
<1>2. Keeps(u) /\ \A v \in Uploads \ {u} : upload'[v] = upload[v]  BY <1>1 DEF CloseUpload, Keeps, Dirs
<1> QED  BY <1>2, CloseUploadTypes, FilesSteps DEF CloseUpload, StepInv

LEMMA WaitCompletionSteps == ASSUME StepInv, NEW w \in Workers, WaitCompletion(w) PROVE StepInv'
<1> DEFINE r == [at |-> "ask", ids |-> Started \ over]
<1>1. UNCHANGED <<ops, async, answer, ready, results, over, sent, upload>> /\ pc' = [pc EXCEPT ![w] = r]
  BY DEF WaitCompletion, staging
<1>2. r.at = "ask"  OBVIOUS
<1> HIDE DEF r
<1>3. \A v \in Workers : Sends(v)' => Later(v)
  <2>1. TypeOK /\ r.at \in {"idle", "ask"} /\ (pc' = [pc EXCEPT ![w] = r] \/ pc' = pc)
    BY <1>1, <1>2 DEF StepInv
  <2> QED  BY <2>1, QuietWorker
<1>4. Steady  BY <1>1, <1>3, KeepsAvail, SameUploads DEF Steady
<1> QED  BY <1>1, <1>4, WaitCompletionTypes, KeepsAnswers DEF StepInv

LEMMA EndResolveSteps == ASSUME StepInv, NEW w \in Workers, EndResolve(w) PROVE StepInv'
<1>1. UNCHANGED <<ops, async, answer, ready, results, over, sent, upload>> /\ pc' = [pc EXCEPT ![w] = Idle]
  BY ThenIs DEF EndResolve, staging, StepInv
<1>2. \A v \in Workers : Sends(v)' => Later(v)
  <2>1. TypeOK /\ Idle.at \in {"idle", "ask"} /\ (pc' = [pc EXCEPT ![w] = Idle] \/ pc' = pc)
    BY <1>1, IdleIs DEF StepInv
  <2> QED  BY <2>1, QuietWorker
<1>3. Steady  BY <1>1, <1>2, KeepsAvail, SameUploads DEF Steady
<1> QED  BY <1>1, <1>3, EndResolveTypes, KeepsAnswers DEF StepInv

LEMMA ResponseLenAvail ==
  ASSUME StepInv, NEW w \in Workers, NEW i \in Ids, ResponseLen(w, i)
  PROVE  \A j \in Ids : Avail(j)' <=> Avail(j)
<1>1. async \in [Ids -> {"held", "pending", "done", "gone"}] /\ ready \in [Workers -> SUBSET Ids]
  BY DEF StepInv, TypeOK
<1>2. Started' = Started /\ over' = over  BY DEF ResponseLen, Started
<1>3. CASE async[i] = "done" \/ i \in results
  <2>1. /\ ready' = [ready EXCEPT ![w] = @ \cup {i}]
        /\ async' = [async EXCEPT ![i] = IF @ = "done" THEN "gone" ELSE @]
        /\ results' = IF async[i] = "done" THEN results ELSE results \ {i}
    BY <1>3 DEF ResponseLen
  <2>2. i \in ready'[w] /\ \A j \in Ids \ {i} : async'[j] = async[j] /\ (j \in results' <=> j \in results)
                        /\ \A v \in Workers : j \in ready'[v] <=> j \in ready[v]
    BY <1>1, <2>1
  <2> QED  BY <1>2, <1>3, <2>2 DEF Avail
<1>4. CASE ~(async[i] = "done" \/ i \in results)
  <2>1. UNCHANGED <<ready, async, results>>  BY <1>4 DEF ResponseLen
  <2> QED  BY <2>1, <1>2 DEF Avail
<1> QED  BY <1>3, <1>4

LEMMA ResponseLenSteps == ASSUME StepInv, NEW w \in Workers, NEW i \in Ids, ResponseLen(w, i) PROVE StepInv'
<1>1. TypeOK'  BY ResponseLenTypes DEF StepInv
<1>2. UNCHANGED <<ops, over, upload, sent>> /\ Started' = Started
  BY DEF ResponseLen, staging, Started
<1>3. \A j \in Ids : Avail(j)' <=> Avail(j)  BY ResponseLenAvail
<1>4. \A v \in Workers : Sends(v)' => Later(v)
  <2>1. \E r : r.at \in {"idle", "ask"} /\ (pc' = [pc EXCEPT ![w] = r] \/ pc' = pc)
    <3>1. CASE Asked(w, i)  BY <3>1, AskedIs DEF ResponseLen, StepInv
    <3>2. CASE UNCHANGED pc  BY <3>2, IdleIs
    <3> QED  BY <3>1, <3>2 DEF ResponseLen
  <2> QED  BY <2>1, QuietWorker DEF StepInv
<1>5. Steady
  <2>1. Started \subseteq Ids  BY IdsAre DEF StepInv
  <2> QED  BY <1>2, <1>3, <1>4, <2>1, SameUploads DEF Steady
<1>6. async \in [Ids -> {"held", "pending", "done", "gone"}] /\ ready \in [Workers -> SUBSET Ids]
  BY DEF StepInv, TypeOK
<1>7. \/ UNCHANGED <<ready, async, results, answer>>
      \/ /\ async[i] = "done" \/ i \in results
         /\ ready' = [ready EXCEPT ![w] = @ \cup {i}]
         /\ async' = [async EXCEPT ![i] = IF @ = "done" THEN "gone" ELSE @]
         /\ results' \subseteq results
         /\ answer' \in {answer, [answer EXCEPT ![i] = {}]}
  BY DEF ResponseLen
<1>8. Known' /\ Blank'
  <2>1. CASE UNCHANGED <<ready, async, results, answer>>  BY <2>1, <1>2 DEF StepInv, Known, Blank
  <2>2. CASE ~UNCHANGED <<ready, async, results, answer>>
    <3>1. i \in Started /\ async[i] # "pending"  BY <2>2, <1>7 DEF StepInv, Blank
    <3>2. \A j \in Ids \ {i} : async'[j] = async[j]  BY <2>2, <1>6, <1>7
    <3>3. async'[i] = IF async[i] = "done" THEN "gone" ELSE async[i]  BY <2>2, <1>6, <1>7
    <3>4. \A v \in Workers : ready'[v] \subseteq ready[v] \cup {i}  BY <2>2, <1>6, <1>7
    <3>5. results' \subseteq results  BY <2>2, <1>7
    <3>6. Known'  BY <1>2, <3>1, <3>2, <3>3, IdsAre DEF StepInv, Known
    <3>7. \A j \in Ids : answer'[j] \in {answer[j], {}}  BY <2>2, <1>7 DEF StepInv, TypeOK
    <3>8. async'[i] \notin {"pending", "done"}  BY <1>6, <3>1, <3>3
    <3>9. Blank'  BY <1>2, <3>1, <3>2, <3>4, <3>5, <3>7, <3>8 DEF StepInv, Blank
    <3> QED  BY <3>6, <3>9
  <2> QED  BY <2>1, <2>2
<1> QED  BY <1>1, <1>5, <1>8, SteadySenders, SteadyStaged DEF StepInv

\* An answer that is read or cancelled.
LEMMA OverSteps ==
  ASSUME StepInv, NEW w \in Workers, NEW i \in Started, UNCHANGED <<ops, upload, sent>>, TypeOK',
         over' = over \cup {i}, results' \subseteq results, ready' = [ready EXCEPT ![w] = @ \ {i}],
         answer' = [answer EXCEPT ![i] = {}],
         \A j \in Ids : async'[j] \in {async[j], "gone"}, async'[i] \notin {"pending", "done"},
         \A v \in Workers : Sends(v)' => Later(v)
  PROVE  StepInv'
<1>1. async \in [Ids -> {"held", "pending", "done", "gone"}] /\ ready \in [Workers -> SUBSET Ids]
      /\ Started \subseteq Ids
  BY IdsAre DEF StepInv, TypeOK
<1>2. Started' = Started  BY DEF Started
<1>3. \A j \in Ids : async'[j] = async[j] \/ async'[j] = "gone"  OBVIOUS
<1>4. \A v \in Workers : ready'[v] \subseteq ready[v]  BY <1>1
<1>5. \A j \in Ids : answer'[j] \in {answer[j], {}}  BY DEF StepInv, TypeOK
<1>6. Known'  BY <1>1, <1>2, <1>3 DEF StepInv, Known
<1>7. Blank'
  <2>1. results' \subseteq Started' /\ over' \subseteq Started' /\ \A v \in Workers : ready'[v] \subseteq Started'
    BY <1>2, <1>4 DEF StepInv, Blank
  <2>2. \A j \in Ids \ Started' : async'[j] = "gone" /\ answer'[j] = {} /\ sent'[j] = <<>>
    BY <1>2, <1>3, <1>5 DEF StepInv, Blank
  <2>3. ASSUME NEW j \in Ids, async'[j] \in {"pending", "done"}
        PROVE  j \notin over' /\ \A v \in Workers : j \notin ready'[v]
    <3>1. j # i /\ async[j] \in {"pending", "done"}  BY <2>3, <1>3
    <3> QED  BY <3>1, <1>4 DEF StepInv, Blank
  <2>4. ASSUME NEW j \in Ids, async'[j] = "pending" PROVE answer'[j] = {} /\ j \notin results'
    <3>1. async[j] = "pending"  BY <2>4, <1>3
    <3> QED  BY <3>1, <1>5 DEF StepInv, Blank
  <2> QED  BY <2>1, <2>2, <2>3, <2>4 DEF Blank
<1>8. \A j \in Started : Avail(j)' => Avail(j)
  <2> SUFFICES ASSUME NEW j \in Started, Avail(j)' PROVE Avail(j)  OBVIOUS
  <2>1. j \notin over /\ (async'[j] = "done" \/ j \in results' \/ \E v \in Workers : j \in ready'[v])
    BY DEF Avail
  <2>2. async'[j] = "done" => async[j] = "done"  BY <1>1, <1>3
  <2> QED  BY <2>1, <2>2, <1>4 DEF Avail
<1>10. Steady  BY <1>2, <1>8, SameUploads DEF Steady
<1> QED  BY <1>6, <1>7, <1>10, SteadySenders, SteadyStaged DEF StepInv

LEMMA ResponseReadSteps == ASSUME StepInv, NEW w \in Workers, NEW i \in Ids, ResponseRead(w, i) PROVE StepInv'
<1>1. TypeOK'  BY ResponseReadTypes DEF StepInv
<1>2. i \in Started  BY DEF ResponseRead, StepInv, Blank
<1>3. \A v \in Workers : Sends(v)' => Later(v)
  <2>1. \E r : r.at \in {"idle", "ask"} /\ (pc' = [pc EXCEPT ![w] = r] \/ pc' = pc)
    BY AskedIs DEF ResponseRead, StepInv
  <2> QED  BY <2>1, QuietWorker DEF StepInv
<1>4. /\ UNCHANGED <<ops, upload, sent>> /\ i \in ready[w] /\ answer' = [answer EXCEPT ![i] = {}]
      /\ over' = over \cup {i} /\ results' \subseteq results /\ ready' = [ready EXCEPT ![w] = @ \ {i}]
      /\ async' = async
  BY DEF ResponseRead, staging
<1>5. async'[i] \notin {"pending", "done"} /\ \A j \in Ids : async'[j] \in {async[j], "gone"}
  BY <1>4 DEF StepInv, Blank
<1> QED  BY <1>1, <1>2, <1>3, <1>4, <1>5, OverSteps

LEMMA CancelSteps == ASSUME StepInv, NEW w \in Workers, NEW i \in Ids, Cancel(w, i) PROVE StepInv'
<1>1. TypeOK'  BY CancelTypes DEF StepInv
<1>2. i \in Started  BY DEF Cancel
<1>3. \A v \in Workers : Sends(v)' => Later(v)
  <2>1. \E r : r.at \in {"idle", "ask"} /\ (pc' = [pc EXCEPT ![w] = r] \/ pc' = pc)
    <3>1. CASE pc[w] = Idle  BY <3>1, IdleIs DEF Cancel
    <3>2. CASE pc[w] # Idle  BY <3>2, AskedIs DEF Cancel, StepInv
    <3> QED  BY <3>1, <3>2
  <2> QED  BY <2>1, QuietWorker DEF StepInv
<1>4. /\ UNCHANGED <<ops, upload, sent>> /\ answer' = [answer EXCEPT ![i] = {}]
      /\ over' = over \cup {i} /\ results' \subseteq results /\ ready' = [ready EXCEPT ![w] = @ \ {i}]
      /\ async' = [async EXCEPT ![i] = "gone"]
  BY DEF Cancel, staging
<1>5. async'[i] \notin {"pending", "done"} /\ \A j \in Ids : async'[j] \in {async[j], "gone"}
  BY <1>4 DEF StepInv, TypeOK
<1> QED  BY <1>1, <1>2, <1>3, <1>4, <1>5, OverSteps

LEMMA EndBodySteps == ASSUME StepInv, NEW w \in Workers, EndBody(w) PROVE StepInv'
<1>1. TypeOK'  BY EndBodyTypes DEF StepInv
<1>2. UNCHANGED <<ops, async, answer, ready, results, over, sent>>  BY DEF EndBody, answers
<1>3. pc[w] \in [at : {"staged", "body"}, u : Uploads, id : Ids] /\ pc[w].at = "body"
  BY PcIs DEF EndBody, StepInv
<1>4. /\ pc'[w].at = "send" /\ pc'[w].id = pc[w].id /\ pc'[w].u = pc[w].u
      /\ \A v \in Workers \ {w} : pc'[v] = pc[v]
  BY DEF EndBody, StepInv, TypeOK
<1>5. \A v \in Workers : Sends(v)' => Later(v)
  BY <1>3, <1>4 DEF Later, Sends, Uploading, Waits
<1>6. \A u \in Uploads : Keeps(u)
  <2>1. upload' = upload \/ upload' = [upload EXCEPT ![pc[w].u].chunks = <<>>, ![pc[w].u].dir = FALSE]
    BY DEF EndBody
  <2>2. upload \in [Uploads -> Dirs] /\ pc[w].u \in Uploads  BY <1>3 DEF StepInv, TypeOK
  <2>3. CASE upload' = upload  BY <2>3, SameUploads
  <2>4. CASE upload' = [upload EXCEPT ![pc[w].u].chunks = <<>>, ![pc[w].u].dir = FALSE]
    BY <2>2, <2>4 DEF Keeps, Dirs
  <2> QED  BY <2>1, <2>3, <2>4
<1>7. Steady  BY <1>2, <1>5, <1>6, KeepsAvail DEF Steady
<1> QED  BY <1>1, <1>2, <1>7, KeepsAnswers

LEMMA EndResultSteps == ASSUME StepInv, NEW w \in Workers, EndResult(w) PROVE StepInv'
<1>1. TypeOK'  BY EndResultTypes DEF StepInv
<1>2. PICK i \in Ids : i = pc[w].id  BY PcIs DEF EndResult, StepInv
<1>3. /\ UNCHANGED <<ops, async, ready, over, sent, upload>> /\ results' = results \cup {i}
      /\ Started' = Started /\ pc[w].at = "result"
  BY <1>2 DEF EndResult, staging, Started
<1>4. SenderOf(w)  BY <1>3 DEF StepInv, Senders, Sends
<1>5. i \in Started /\ ops[i] = "publish" /\ ~Avail(i)  BY <1>2, <1>3, <1>4 DEF SenderOf, Waits
<1>6. pc'[w].at = "resolve" /\ pc'[w].id = i /\ \A v \in Workers \ {w} : pc'[v] = pc[v]
  BY <1>2, <1>3, ThenIs DEF EndResult, StepInv, TypeOK
<1>7. \A v \in Workers : Sends(v)' => Later(v)
  BY <1>2, <1>3, <1>6 DEF Later, Sends, Uploading, Waits
<1>8. Brought(i)
  <2>1. \A v \in Workers : Sends(v)' /\ pc'[v].id = i => ~Waits(v)'
    <3> SUFFICES ASSUME NEW v \in Workers, Sends(v)', pc'[v].id = i PROVE ~Waits(v)'  OBVIOUS
    <3>1. Sends(v) /\ pc[v].id = pc[w].id  BY <1>2, <1>7 DEF Later
    <3>2. v = w  BY <3>1, <1>4 DEF SenderOf
    <3> QED  BY <3>2, <1>6 DEF Waits
  <2>2. ASSUME NEW u \in Uploads, upload[u].marker = i PROVE FALSE
    <3>1. PICK v \in Uploads : upload[v].id = i /\ upload[v].marker = 0
      BY <1>2, <1>3, <1>4 DEF SenderOf
    <3>2. i # 0  BY <1>2, IdsAre DEF StepInv
    <3>3. upload[u].id = i  BY <2>2, <3>2 DEF StepInv, Staged, UploadOf
    <3>4. u = v  BY <3>1, <3>2, <3>3 DEF StepInv, Staged, UploadOf
    <3> QED  BY <3>1, <3>2, <3>4, <2>2
  <2> QED  BY <2>1, <2>2 DEF Brought
<1>9. \A j \in Started : j # i /\ Avail(j)' => Avail(j)  BY <1>3 DEF Avail
<1>10. Steady  BY <1>3, <1>7, <1>8, <1>9, SameUploads DEF Steady
<1>11. Known'  BY <1>3 DEF StepInv, Known
<1>12. Blank'
  <2>1. \A j \in Ids \ {i} : answer'[j] = answer[j]  BY <1>2 DEF EndResult, StepInv, TypeOK
  <2>2. async[i] # "pending"  BY <1>5 DEF StepInv, Known
  <2> QED  BY <2>1, <2>2, <1>3, <1>5 DEF StepInv, Blank
<1> QED  BY <1>1, <1>10, <1>11, <1>12, SteadySenders, SteadyStaged DEF StepInv

\* An upload gets its id, the marker with it or not.
Opens(u, n, m) ==
  /\ upload'[u].id = n /\ upload'[u].marker = m /\ upload'[u].left = upload[u].left
  /\ \A v \in Uploads \ {u} : upload'[v] = upload[v]
Growing == /\ Started \subseteq Started' /\ \A i \in Started : ops'[i] = ops[i]
           /\ \A i \in Started : Avail(i)' => Avail(i)

LEMMA OpensSenders ==
  ASSUME StepInv, NEW u \in Uploads, upload[u].id = 0, NEW n, NEW m, Opens(u, n, m), Growing,
         UNCHANGED <<pc, sent>>
  PROVE  Senders'
<1> SUFFICES ASSUME NEW w \in Workers, Sends(w)' PROVE SenderOf(w)'  BY DEF Senders
<1>1. SenderOf(w)  BY DEF StepInv, Senders, Sends
<1>2. PICK i \in Started : i = pc[w].id /\ ops[i] = "publish"  BY <1>1 DEF SenderOf
<1>3. i \in Started' /\ ops'[i] = "publish"  BY <1>2 DEF Growing
<1>4. Waits(w)' => ~Avail(i)'  BY <1>1, <1>2 DEF SenderOf, Growing, Waits
<1>5. i # 0  BY <1>2, IdsAre DEF StepInv
<1>6. \E v \in Uploads : /\ upload'[v].id = pc'[w].id /\ upload'[v].left
                         /\ pc'[w].at # "staged" => upload'[v].marker = 0
                         /\ Uploading(w)' => pc'[w].u = v /\ sent'[pc'[w].id] = <<>>
  <2>1. PICK v \in Uploads : /\ upload[v].id = pc[w].id /\ upload[v].left
                             /\ pc[w].at # "staged" => upload[v].marker = 0
                             /\ Uploading(w) => pc[w].u = v /\ sent[pc[w].id] = <<>>
    BY <1>1 DEF SenderOf
  <2>2. v # u  BY <2>1, <1>2, <1>5
  <2>3. upload'[v] = upload[v]  BY <2>2 DEF Opens
  <2> QED  BY <2>1, <2>3 DEF Uploading
<1>7. \A v \in Workers : Sends(v)' /\ pc'[v].id = pc'[w].id => v = w  BY <1>1 DEF SenderOf, Sends
<1>8. Waits(w)' => ~Avail(pc[w].id)'
  <2> SUFFICES ASSUME Waits(w)' PROVE ~Avail(pc[w].id)'  OBVIOUS
  <2>1. ~Avail(i)' /\ pc'[w].id = i  BY <1>2, <1>4
  <2> QED  BY <2>1 DEF Avail
<1> QED  BY <1>2, <1>3, <1>6, <1>7, <1>8 DEF SenderOf

LEMMA OpensStaged ==
  ASSUME StepInv, NEW u \in Uploads, upload[u].id = 0, NEW n \in Ids \ Started, n \in Started',
         NEW m \in {0, n}, Opens(u, n, m), Growing,
         m # 0 => ops'[n] = "publish" /\ ~Avail(n)', sent' = sent
  PROVE  Staged'
<1> SUFFICES ASSUME NEW v \in Uploads PROVE UploadOf(v)'  BY DEF Staged
<1>1. n # 0 /\ \A x \in Uploads : UploadOf(x) /\ upload[x].id # n
  BY IdsAre DEF StepInv, Staged, UploadOf
<1>2. sent[n] = <<>>  BY DEF StepInv, Blank
<1>3. \A x \in Uploads : upload'[x].id # 0 /\ upload'[x].id = upload'[v].id => x = v
  BY <1>1 DEF UploadOf, Opens
<1>4. CASE v = u
  <2>1. m # 0 => ~Avail(upload[v].marker)'
    <3> SUFFICES ASSUME m # 0 PROVE ~Avail(upload[v].marker)'  OBVIOUS
    <3>1. upload'[v].marker = n  BY <1>4 DEF Opens
    <3> QED  BY <3>1 DEF Avail
  <2> QED  BY <1>1, <1>2, <1>3, <1>4, <2>1 DEF UploadOf, Opens
<1>5. CASE v # u
  <2>1. upload'[v] = upload[v] /\ UploadOf(v)  BY <1>1, <1>5 DEF Opens
  <2>2. ASSUME upload'[v].marker # 0 PROVE ops'[upload'[v].marker] = "publish" /\ ~Avail(upload[v].marker)'
    <3>1. PICK i \in Started : i = upload[v].marker  BY <2>1, <2>2 DEF UploadOf
    <3>2. ops[i] = "publish" /\ ~Avail(i)  BY <3>1, <2>1, <2>2 DEF UploadOf
    <3>3. ops'[i] = "publish" /\ ~Avail(i)'  BY <3>1, <3>2 DEF Growing
    <3>4. upload'[v].marker = i  BY <3>1, <2>1
    <3> QED  BY <3>3, <3>4 DEF Avail
  <2>3. upload'[v].id \in Started' \cup {0} /\ upload'[v].marker \in {0, upload'[v].id}
    BY <2>1 DEF UploadOf, Growing
  <2> QED  BY <1>3, <2>1, <2>2, <2>3 DEF UploadOf
<1> QED  BY <1>4, <1>5

LEMMA PublishSteps == ASSUME StepInv, NEW w \in Workers, NEW u \in Uploads, Publish(w, u) PROVE StepInv'
<1>a. PICK n : n = Len(ops) + 1  OBVIOUS
<1>b. PICK k : k = Len(ops) + 2  OBVIOUS
<1>1. TypeOK'  BY PublishTypes DEF StepInv
<1>2. /\ Started = 1..Len(ops) /\ Started \subseteq Ids /\ Len(ops) \in Nat /\ Len(ops) < MaxOps
      /\ n \in Ids \ Started
  BY <1>a, IdsAre DEF StepInv, Publish, CanStart
<1>3. upload[u].id = 0 /\ upload[u].marker = 0 /\ pc' = pc /\ ~upload[u].left
  BY DEF Publish, StepInv, Staged, UploadOf
<1>4. upload \in [Uploads -> Dirs] /\ async \in [Ids -> {"held", "pending", "done", "gone"}]
      /\ answer \in [Ids -> SUBSET Nat]
      /\ ops \in Seq({"get", "put", "spawn", "publish", "lost"})
  BY DEF StepInv, TypeOK
<1>5. CASE Synthetic("put") /\ upload' = [upload EXCEPT ![u].id = n] /\ UNCHANGED <<blocks, sent, failed>>
  <2>1. /\ ops' = Append(ops, "put") /\ async' = [async EXCEPT ![n] = "done"]
        /\ UNCHANGED <<ready, results, over, sent>>
    BY <1>a, <1>5 DEF Synthetic, Resolve
  <2>2. PICK H : answer' = [answer EXCEPT ![n] = H]  BY <1>a, <1>5 DEF Synthetic, Resolve
  <2>3. Started' = Started \cup {n} /\ \A i \in Started : ops'[i] = ops[i]
    BY <1>a, <1>2, <1>4, <2>1 DEF Started
  <2>4. ops'[n] = "put"  BY <1>a, <1>2, <1>4, <2>1
  <2>5. Opens(u, n, 0)  BY <1>3, <1>4, <1>5 DEF Opens, Dirs
  <2>6. \A i \in Started : async'[i] = async[i]  BY <1>2, <1>4, <2>1
  <2>7. Growing  BY <2>1, <2>3, <2>6 DEF Growing, Avail
  <2>8. Known'  BY <2>1, <2>3, <2>4, <2>6 DEF StepInv, Known
  <2>9. Blank'  BY <1>2, <2>1, <2>2, <2>3, GrowsBlank
  <2>10. Senders'  BY <1>3, <2>1, <2>5, <2>7, OpensSenders
  <2>11. Staged'
    <3>1. n \in Started' /\ 0 \in {0, n}  BY <2>3
    <3> QED  BY <1>2, <1>3, <2>1, <2>5, <2>7, <3>1, OpensStaged
  <2> QED  BY <1>1, <2>8, <2>9, <2>10, <2>11 DEF StepInv
<1>6. CASE /\ ops' = Append(ops, "publish")
           /\ async' = [async EXCEPT ![n] = "held"]
           /\ upload' = [upload EXCEPT ![u].id = n, ![u].marker = n]
           /\ blocks' = blocks \cup {n}
           /\ UNCHANGED <<wake, answer, ready, results, over, objects, sent, failed>>
  <2>1. Started' = Started \cup {n} /\ \A i \in Started : ops'[i] = ops[i]
    BY <1>a, <1>2, <1>4, <1>6 DEF Started
  <2>2. ops'[n] = "publish" /\ async'[n] = "held"  BY <1>a, <1>2, <1>4, <1>6
  <2>3. Opens(u, n, n)  BY <1>3, <1>4, <1>6 DEF Opens, Dirs
  <2>4. \A i \in Ids \ {n} : async'[i] = async[i]  BY <1>2, <1>4, <1>6
  <2>5. n \notin results \cup over /\ \A v \in Workers : n \notin ready[v]  BY <1>2 DEF StepInv, Blank
  <2>6. ~Avail(n)'  BY <1>6, <2>2, <2>5 DEF Avail
  <2>7. Growing  BY <1>2, <1>6, <2>1, <2>4 DEF Growing, Avail
  <2>8. Known'  BY <1>2, <1>6, <2>1, <2>2, <2>4 DEF StepInv, Known
  <2>9. Blank'  BY <1>2, <1>6, <2>1, <2>2, <2>4 DEF StepInv, Blank
  <2>10. Senders'  BY <1>3, <1>6, <2>3, <2>7, OpensSenders
  <2>11. Staged'
    <3>1. n \in Started' /\ n \in {0, n}  BY <2>1
    <3> QED  BY <1>2, <1>3, <1>6, <2>2, <2>3, <2>6, <2>7, <3>1, OpensStaged
  <2> QED  BY <1>1, <2>8, <2>9, <2>10, <2>11 DEF StepInv
<1>7. CASE /\ k <= MaxOps
           /\ ops' = ops \o <<"lost", "put">>
           /\ async' = [async EXCEPT ![n] = "held", ![k] = "done"]
           /\ wake' = TRUE /\ over' = over \cup {n}
           /\ upload' = [upload EXCEPT ![u].id = k]
           /\ UNCHANGED <<answer, ready, results, objects, blocks, sent, failed>>
  <2>1. k \in Ids \ Started /\ k # n  BY <1>a, <1>b, <1>2, <1>7, HostAssumption DEF Ids
  <2>2. Started' = Started \cup {n, k} /\ \A i \in Started : ops'[i] = ops[i]
    BY <1>a, <1>b, <1>2, <1>4, <1>7 DEF Started
  <2>3. ops'[n] = "lost" /\ ops'[k] = "put"  BY <1>a, <1>b, <1>2, <1>4, <1>7
  <2>4. Opens(u, k, 0)  BY <1>3, <1>4, <1>7 DEF Opens, Dirs
  <2>5. async'[n] = "held" /\ async'[k] = "done" /\ \A i \in Ids \ {n, k} : async'[i] = async[i]
    BY <1>2, <1>4, <1>7, <2>1
  <2>6. Growing  BY <1>2, <1>7, <2>1, <2>2, <2>5 DEF Growing, Avail
  <2>7. Known'  BY <1>2, <1>7, <2>1, <2>2, <2>3, <2>5 DEF StepInv, Known
  <2>8. Blank'  BY <1>2, <1>7, <2>1, <2>2, <2>5 DEF StepInv, Blank
  <2>9. Senders'  BY <1>3, <1>7, <2>4, <2>6, OpensSenders
  <2>10. Staged'
    <3>1. k \in Started' /\ 0 \in {0, k}  BY <2>2
    <3> QED  BY <2>1, <1>3, <1>7, <2>4, <2>6, <3>1, OpensStaged
  <2> QED  BY <1>1, <2>7, <2>8, <2>9, <2>10 DEF StepInv
<1> QED  BY <1>a, <1>b, <1>5, <1>6, <1>7 DEF Publish

LEMMA EndMarkerSteps == ASSUME StepInv, NEW w \in Workers, NEW u \in Uploads, EndMarker(w, u) PROVE StepInv'
<1>1. TypeOK'  BY EndMarkerTypes DEF StepInv
<1>2. UNCHANGED <<ops, async, answer, ready, results, over, sent>>  BY DEF EndMarker
<1>3. upload \in [Uploads -> Dirs] /\ pc \in [Workers -> Pcs]  BY DEF StepInv, TypeOK
<1>4. \A v \in Uploads : Keeps(v)
  <2>1. upload' = [upload EXCEPT ![u].left = TRUE]  BY DEF EndMarker
  <2> QED  BY <1>3, <2>1 DEF Keeps, Dirs
<1>5. CASE pc' = pc
  <2>1. \A v \in Workers : Sends(v)' => Later(v)  BY <1>5 DEF Later, Sends, Uploading, Waits
  <2>2. Steady  BY <1>2, <1>4, <2>1, KeepsAvail DEF Steady
  <2> QED  BY <1>1, <1>2, <2>2, KeepsAnswers
<1>6. CASE upload[u].marker # 0 /\ pc' = [pc EXCEPT ![w] = [at |-> "staged", u |-> u, id |-> upload[u].marker]]
  <2>1. PICK m \in Started : m = upload[u].marker /\ m = upload[u].id /\ m # 0
    BY <1>6 DEF StepInv, Staged, UploadOf
  <2>2. ops[m] = "publish" /\ ~Avail(m) /\ sent[m] = <<>>  BY <2>1 DEF StepInv, Staged, UploadOf
  <2>3. Started' = Started /\ \A i : Avail(i)' <=> Avail(i)  BY <1>2, KeepsAvail
  <2>4. pc'[w] = [at |-> "staged", u |-> u, id |-> m] /\ \A v \in Workers \ {w} : pc'[v] = pc[v]
    BY <1>3, <1>6, <2>1
  <2>5. upload'[u].left /\ upload'[u].id = m
    <3>1. upload' = [upload EXCEPT ![u].left = TRUE]  BY DEF EndMarker
    <3> QED  BY <1>3, <2>1, <3>1 DEF Dirs
  <2>6. ASSUME NEW v \in Workers, Sends(v), pc[v].id = m PROVE FALSE
    <3>1. PICK x \in Uploads : upload[x].id = m /\ upload[x].left
      BY <2>6 DEF StepInv, Senders, SenderOf
    <3>2. x = u  BY <2>1, <3>1 DEF StepInv, Staged, UploadOf
    <3> QED  BY <3>1, <3>2 DEF EndMarker
  <2>7. SenderOf(w)'
    <3>1. \A v \in Workers : Sends(v)' /\ pc'[v].id = pc'[w].id => v = w
      BY <2>4, <2>6 DEF Sends
    <3>2. pc'[w].at = "staged" /\ pc'[w].u = u /\ pc'[w].id = m  BY <2>4
    <3>3. ~Avail(pc[w].id)'
      <4>1. ~Avail(m)'  BY <2>2, <2>3
      <4> QED  BY <4>1, <3>2 DEF Avail
    <3>4. m \in Started' /\ ops'[m] = "publish" /\ sent'[m] = <<>>  BY <1>2, <2>2, <2>3
    <3> QED  BY <2>5, <3>1, <3>2, <3>3, <3>4 DEF SenderOf
  <2>8. ASSUME NEW v \in Workers, v # w, Sends(v)' PROVE SenderOf(v)'
    <3>1. pc'[v] = pc[v]  BY <2>4, <2>8
    <3>2. Sends(v) /\ SenderOf(v)  BY <2>8, <3>1 DEF Sends, StepInv, Senders
    <3>3. PICK i : i = pc[v].id  OBVIOUS
    <3>4. i # m  BY <2>6, <3>2, <3>3
    <3>5. \A x \in Workers : Sends(x)' /\ pc'[x].id = i => x = v
      <4> SUFFICES ASSUME NEW x \in Workers, Sends(x)', pc'[x].id = i PROVE x = v  OBVIOUS
      <4>1. x # w  BY <2>4, <3>4
      <4>2. pc'[x] = pc[x]  BY <2>4, <4>1
      <4> QED  BY <4>2, <3>2, <3>3 DEF SenderOf, Sends
    <3>6. i \in Started' /\ ops'[i] = "publish"  BY <1>2, <2>3, <3>2, <3>3 DEF SenderOf
    <3>7. Waits(v)' => ~Avail(pc[v].id)'
      <4>1. Waits(v)' => ~Avail(i)'  BY <2>3, <3>1, <3>2, <3>3 DEF SenderOf, Waits
      <4> QED  BY <4>1, <3>1, <3>3 DEF Avail
    <3>8. \E x \in Uploads : /\ upload'[x].id = i /\ upload'[x].left
                             /\ pc[v].at # "staged" => upload'[x].marker = 0
                             /\ Uploading(v) => pc[v].u = x /\ sent'[i] = <<>>
      <4>1. PICK x \in Uploads : /\ upload[x].id = i /\ upload[x].left
                                 /\ pc[v].at # "staged" => upload[x].marker = 0
                                 /\ Uploading(v) => pc[v].u = x /\ sent[i] = <<>>
        BY <3>2, <3>3 DEF SenderOf
      <4>2. Keeps(x)  BY <1>4
      <4> QED  BY <1>2, <4>1, <4>2 DEF Keeps
    <3>9. pc'[v].id = i  BY <3>1, <3>3
    <3>10. Uploading(v)' <=> Uploading(v)  BY <3>1 DEF Uploading
    <3> QED  BY <3>1, <3>5, <3>6, <3>7, <3>8, <3>9, <3>10 DEF SenderOf
  <2>9. Senders'  BY <2>7, <2>8 DEF Senders
  <2>10. Staged'
    <3> SUFFICES ASSUME NEW v \in Uploads PROVE UploadOf(v)'  BY DEF Staged
    <3>1. UploadOf(v) /\ \A x \in Uploads : Keeps(x)  BY <1>4 DEF StepInv, Staged
    <3>2. upload'[v].marker = upload[v].marker  BY <3>1 DEF Keeps
    <3>3. upload'[v].marker # 0 => ~Avail(upload[v].marker)'
      <4> SUFFICES ASSUME upload'[v].marker # 0 PROVE ~Avail(upload[v].marker)'  OBVIOUS
      <4>1. PICK i : i = upload[v].marker  OBVIOUS
      <4>2. ~Avail(i)'  BY <2>3, <3>1, <3>2, <4>1 DEF UploadOf
      <4> QED  BY <3>2, <4>1, <4>2 DEF Avail
    <3> QED  BY <1>2, <2>3, <3>1, <3>2, <3>3 DEF UploadOf, Keeps
  <2>11. Blank' /\ Known'  BY <1>2, <2>3 DEF StepInv, Blank, Known
  <2> QED  BY <1>1, <2>9, <2>10, <2>11 DEF StepInv
<1> QED  BY <1>5, <1>6 DEF EndMarker

LEMMA EndStagedSteps == ASSUME StepInv, NEW w \in Workers, EndStaged(w) PROVE StepInv'
<1>1. TypeOK'  BY EndStagedTypes DEF StepInv
<1>2. UNCHANGED <<ops, async, answer, ready, results, over, sent>>  BY DEF EndStaged, answers
<1>3. upload \in [Uploads -> Dirs] /\ pc \in [Workers -> Pcs]  BY DEF StepInv, TypeOK
<1>4. pc[w] \in [at : {"staged", "body"}, u : Uploads, id : Ids] /\ pc[w].at = "staged"
  BY PcIs DEF EndStaged, StepInv
<1>5. PICK u \in Uploads : u = pc[w].u  BY <1>4
<1>6. /\ pc'[w].at = "body" /\ pc'[w].id = pc[w].id /\ pc'[w].u = pc[w].u
      /\ \A v \in Workers \ {w} : pc'[v] = pc[v]
  BY <1>3, <1>4 DEF EndStaged
<1>7. /\ upload'[u].marker = 0 /\ upload'[u].id = upload[u].id /\ upload'[u].left = upload[u].left
      /\ \A v \in Uploads \ {u} : upload'[v] = upload[v]
  BY <1>3, <1>5 DEF EndStaged, Dirs
<1>8. Started' = Started /\ \A i : Avail(i)' <=> Avail(i)  BY <1>2, KeepsAvail
<1>9. Senders'
  <2> SUFFICES ASSUME NEW v \in Workers, Sends(v)' PROVE SenderOf(v)'  BY DEF Senders
  <2>1. \A x \in Workers : (Sends(x)' <=> Sends(x)) /\ pc'[x].id = pc[x].id /\ (Waits(x)' <=> Waits(x))
                           /\ (Uploading(x)' <=> Uploading(x)) /\ pc'[x].u = pc[x].u
    <3> SUFFICES ASSUME NEW x \in Workers
                 PROVE  (Sends(x)' <=> Sends(x)) /\ pc'[x].id = pc[x].id /\ (Waits(x)' <=> Waits(x))
                        /\ (Uploading(x)' <=> Uploading(x)) /\ pc'[x].u = pc[x].u
      OBVIOUS
    <3> QED  BY <1>4, <1>6 DEF Sends, Waits, Uploading
  <2>2. SenderOf(v)  BY <2>1 DEF StepInv, Senders
  <2>3. PICK i \in Started : i = pc[v].id  BY <2>2 DEF SenderOf
  <2>4. Waits(v)' => ~Avail(pc[v].id)'
    <3>1. Waits(v)' => ~Avail(i)'  BY <1>8, <2>1, <2>2, <2>3 DEF SenderOf
    <3> QED  BY <2>1, <2>3, <3>1 DEF Avail
  <2>5. \E x \in Uploads : /\ upload'[x].id = i /\ upload'[x].left
                           /\ pc'[v].at # "staged" => upload'[x].marker = 0
                           /\ Uploading(v) => pc[v].u = x /\ sent'[i] = <<>>
    <3>1. PICK x \in Uploads : /\ upload[x].id = i /\ upload[x].left
                               /\ pc[v].at # "staged" => upload[x].marker = 0
                               /\ Uploading(v) => pc[v].u = x /\ sent[i] = <<>>
      BY <2>2, <2>3 DEF SenderOf
    <3>2. upload'[x].id = i /\ upload'[x].left  BY <1>7, <3>1
    <3>3. CASE v = w
      <4>1. x = u  BY <3>3, <3>1, <1>4, <1>5 DEF Uploading
      <4> QED  BY <4>1, <3>1, <3>2, <1>2, <1>7
    <3>4. CASE v # w
      <4>1. pc'[v] = pc[v] /\ upload'[x].marker \in {0, upload[x].marker}  BY <1>6, <1>7, <3>4
      <4> QED  BY <4>1, <3>1, <3>2, <1>2
    <3> QED  BY <3>3, <3>4
  <2>6. \A x \in Workers : Sends(x)' /\ pc'[x].id = i => x = v  BY <2>1, <2>2, <2>3 DEF SenderOf
  <2>7. i \in Started' /\ ops'[i] = "publish" /\ pc'[v].id = i  BY <1>2, <1>8, <2>1, <2>2, <2>3 DEF SenderOf
  <2>8. Uploading(v)' => pc'[v].u = pc[v].u /\ Uploading(v)  BY <2>1
  <2> QED  BY <2>4, <2>5, <2>6, <2>7, <2>8 DEF SenderOf
<1>10. Staged'
  <2> SUFFICES ASSUME NEW v \in Uploads PROVE UploadOf(v)'  BY DEF Staged
  <2>1. UploadOf(v)  BY DEF StepInv, Staged
  <2>2. \A x \in Uploads : upload'[x].id = upload[x].id /\ upload'[x].left = upload[x].left
                           /\ upload'[x].marker \in {0, upload[x].marker}
    BY <1>7
  <2>3. upload'[v].marker # 0 => ~Avail(upload[v].marker)'
    <3> SUFFICES ASSUME upload'[v].marker # 0 PROVE ~Avail(upload[v].marker)'  OBVIOUS
    <3>1. PICK i : i = upload[v].marker  OBVIOUS
    <3>2. i # 0 /\ upload'[v].marker = i  BY <2>2, <3>1
    <3>3. ~Avail(i)'  BY <1>8, <2>1, <3>1, <3>2 DEF UploadOf
    <3> QED  BY <3>2, <3>3 DEF Avail
  <2> QED  BY <1>2, <1>8, <2>1, <2>2, <2>3 DEF UploadOf
<1>11. Blank' /\ Known'  BY <1>2, <1>8 DEF StepInv, Blank, Known
<1> QED  BY <1>1, <1>9, <1>10, <1>11 DEF StepInv

\* The publish is sent, and its answer is there or upload.end gives up.
LEMMA SentSteps ==
  ASSUME StepInv, NEW w \in Workers, pc[w].at = "send", TypeOK',
         UNCHANGED <<ops, async, answer, ready, results, over, upload>>,
         NEW S, sent' = [sent EXCEPT ![pc[w].id] = S],
         NEW r, r.at = "idle" \/ (r.at = "result" /\ r.id = pc[w].id), pc' = [pc EXCEPT ![w] = r]
  PROVE  StepInv'
<1>2. UNCHANGED <<ops, async, answer, ready, results, over, upload>>  OBVIOUS
<1>3. pc \in [Workers -> Pcs]  BY DEF StepInv, TypeOK
<1>4. SenderOf(w) /\ pc[w].at = "send"  BY DEF StepInv, Senders, Sends
<1>5. PICK i \in Started : i = pc[w].id /\ i \in Ids /\ i # 0  BY <1>4, IdsAre DEF StepInv, SenderOf
<1>6. /\ pc'[w].at = "idle" \/ (pc'[w].at = "result" /\ pc'[w].id = i)
      /\ \A v \in Workers \ {w} : pc'[v] = pc[v]
  BY <1>3, <1>5
<1>7. \A j \in Ids \ {i} : sent'[j] = sent[j]  BY <1>5 DEF StepInv, TypeOK
<1>8. Started' = Started /\ \A j : Avail(j)' <=> Avail(j)  BY <1>2, KeepsAvail
<1>9. PICK u \in Uploads : upload[u].id = i /\ upload[u].left /\ upload[u].marker = 0
  BY <1>4, <1>5 DEF SenderOf
<1>10. \A x \in Workers : Sends(x)' => Sends(x) /\ pc'[x].id = pc[x].id /\ (Waits(x)' => Waits(x))
  <2> SUFFICES ASSUME NEW x \in Workers, Sends(x)'
               PROVE  Sends(x) /\ pc'[x].id = pc[x].id /\ (Waits(x)' => Waits(x))
    OBVIOUS
  <2>1. CASE x = w  BY <2>1, <1>4, <1>5, <1>6 DEF Sends, Waits
  <2>2. CASE x # w
    <3>1. pc'[x] = pc[x]  BY <2>2, <1>6
    <3> QED  BY <3>1 DEF Sends, Waits
  <2> QED  BY <2>1, <2>2
<1>11. Senders'
  <2> SUFFICES ASSUME NEW v \in Workers, Sends(v)' PROVE SenderOf(v)'  BY DEF Senders
  <2>1. Sends(v) /\ SenderOf(v) /\ pc'[v].id = pc[v].id  BY <1>10 DEF StepInv, Senders
  <2>2. PICK j \in Started : j = pc[v].id  BY <2>1 DEF SenderOf
  <2>3. Waits(v)' => ~Avail(pc[v].id)'
    <3>1. Waits(v)' => ~Avail(j)'  BY <1>8, <1>10, <2>1, <2>2 DEF SenderOf
    <3> QED  BY <2>1, <2>2, <3>1 DEF Avail
  <2>4. \A x \in Workers : Sends(x)' /\ pc'[x].id = j => x = v  BY <1>10, <2>1, <2>2 DEF SenderOf
  <2>5. \E x \in Uploads : /\ upload'[x].id = j /\ upload'[x].left
                           /\ pc'[v].at # "staged" => upload'[x].marker = 0
                           /\ Uploading(v)' => pc'[v].u = x /\ sent'[j] = <<>>
    <3>1. CASE v = w  BY <3>1, <1>2, <1>5, <1>6, <1>9, <2>2 DEF Uploading
    <3>2. CASE v # w
      <4>1. PICK x \in Uploads : /\ upload[x].id = j /\ upload[x].left
                                 /\ pc[v].at # "staged" => upload[x].marker = 0
                                 /\ Uploading(v) => pc[v].u = x /\ sent[j] = <<>>
        BY <2>1, <2>2 DEF SenderOf
      <4>2. j # i  BY <1>4, <1>5, <2>1, <2>2, <3>2 DEF SenderOf
      <4>3. sent'[j] = sent[j] /\ pc'[v] = pc[v]  BY <1>6, <1>7, <2>2, <3>2, <4>2, IdsAre DEF StepInv
      <4> QED  BY <1>2, <4>1, <4>3 DEF Uploading
    <3> QED  BY <3>1, <3>2
  <2>6. j \in Started' /\ ops'[j] = "publish" /\ pc'[v].id = j  BY <1>2, <1>8, <2>1, <2>2 DEF SenderOf
  <2> QED  BY <2>3, <2>4, <2>5, <2>6 DEF SenderOf
<1>12. Staged'
  <2> SUFFICES ASSUME NEW v \in Uploads PROVE UploadOf(v)'  BY DEF Staged
  <2>1. UploadOf(v) /\ UploadOf(u)  BY DEF StepInv, Staged
  <2>2. v # u => upload[v].id # i  BY <1>5, <1>9, <2>1 DEF UploadOf
  <2>3. upload[v].marker # 0 => v # u /\ upload[v].marker = upload[v].id /\ upload[v].marker # i
    BY <1>9, <2>1, <2>2 DEF UploadOf
  <2>4. upload[v].marker # 0 => ~Avail(upload[v].marker)'
    <3> SUFFICES ASSUME upload[v].marker # 0 PROVE ~Avail(upload[v].marker)'  OBVIOUS
    <3>1. PICK j : j = upload[v].marker  OBVIOUS
    <3>2. ~Avail(j)'  BY <1>8, <2>1, <3>1 DEF UploadOf
    <3> QED  BY <1>2, <3>1, <3>2 DEF Avail
  <2>5. Started \subseteq Ids  BY IdsAre DEF StepInv
  <2>6. upload[v].marker # 0 => sent'[upload[v].marker] = <<>>
    BY <1>7, <2>1, <2>3, <2>5 DEF UploadOf
  <2>7. upload[v].id # 0 /\ ~upload[v].left => sent'[upload[v].id] = <<>>
    BY <1>7, <1>9, <2>1, <2>2, <2>5 DEF UploadOf
  <2> QED  BY <1>2, <1>8, <2>1, <2>4, <2>6, <2>7 DEF UploadOf
<1>13. Blank' /\ Known'
  <2>1. \A j \in Ids \ Started' : sent'[j] = <<>>  BY <1>5, <1>7, <1>8 DEF StepInv, Blank
  <2> QED  BY <1>2, <1>8, <2>1 DEF StepInv, Blank, Known
<1> QED  BY <1>11, <1>12, <1>13 DEF StepInv

LEMMA EndSendSteps == ASSUME StepInv, NEW w \in Workers, EndSend(w) PROVE StepInv'
<1>1. TypeOK' /\ pc[w].at = "send"  BY EndSendTypes DEF StepInv, EndSend
<1>2. UNCHANGED <<ops, async, answer, ready, results, over, upload>>  BY DEF EndSend, answers
<1>3. PICK S : sent' = [sent EXCEPT ![pc[w].id] = S]  BY DEF EndSend
<1>4. PICK h : pc' = [pc EXCEPT ![w] = [at |-> "result", id |-> @.id, handle |-> h]]
  BY DEF EndSend, Steps
<1> DEFINE r == [at |-> "result", id |-> pc[w].id, handle |-> h]
<1>5. r.at = "result" /\ r.id = pc[w].id /\ pc' = [pc EXCEPT ![w] = r]  BY <1>4
<1> HIDE DEF r
<1> QED  BY <1>1, <1>2, <1>3, <1>5, SentSteps

LEMMA EndFailsSteps == ASSUME StepInv, NEW w \in Workers, EndFails(w) PROVE StepInv'
<1>1. TypeOK' /\ pc' = [pc EXCEPT ![w] = Idle]  BY EndFailsTypes DEF StepInv, EndFails
<1>2. UNCHANGED <<ops, async, answer, ready, results, over, upload>>  BY DEF EndFails
<1>3. CASE pc[w].at = "send"
  <2>1. PICK S : sent' = [sent EXCEPT ![pc[w].id] = S]  BY <1>3 DEF EndFails
  <2>2. Idle.at = "idle" \/ (Idle.at = "result" /\ Idle.id = pc[w].id)  BY IdleIs
  <2> HIDE DEF Idle
  <2> QED  BY <1>1, <1>2, <1>3, <2>1, <2>2, SentSteps
<1>4. CASE pc[w].at # "send"
  <2>1. sent' = sent  BY <1>4 DEF EndFails
  <2>2. \A v \in Workers : Sends(v)' => Later(v)
    <3>1. TypeOK /\ Idle.at \in {"idle", "ask"} /\ (pc' = [pc EXCEPT ![w] = Idle] \/ pc' = pc)
      BY <1>1, IdleIs DEF StepInv
    <3> QED  BY <3>1, QuietWorker
  <2>3. Steady  BY <1>2, <2>1, <2>2, KeepsAvail, SameUploads DEF Steady
  <2> QED  BY <1>1, <1>2, <2>1, <2>3, KeepsAnswers
<1> QED  BY <1>3, <1>4

LEMMA StepNext == ASSUME StepInv, [Next]_vars PROVE StepInv'
<1>1. CASE UNCHANGED vars
  <2>1. UNCHANGED <<ops, answers, upload, sent, pc>>  BY <1>1 DEF vars, staging
  <2>2. TypeOK'  BY TypeNext DEF StepInv
  <2> QED  BY <2>1, <2>2, ObjectSteps
<1>2. ASSUME NEW i \in Ids, Complete(i) PROVE StepInv'  BY <1>2, CompleteSteps
<1>3. ASSUME NEW w \in Workers, Start(w) PROVE StepInv'
  BY <1>3, GetSteps, PutSteps, SpawnSteps, CreateSteps, WriteSteps, PublishSteps, EndMarkerSteps DEF Start
<1>4. ASSUME NEW w \in Workers, Ending(w) PROVE StepInv'
  BY <1>4, EndStagedSteps, EndBodySteps, EndSendSteps, EndResultSteps, EndResolveSteps,
     EndFailsSteps
     DEF Ending
<1>5. ASSUME NEW w \in Workers, Asks(w) PROVE StepInv'
  BY <1>5, WaitCompletionSteps, ResponseLenSteps, ResponseReadSteps DEF Asks
<1>6. ASSUME NEW w \in Workers, Drops(w) PROVE StepInv'
  BY <1>6, CancelSteps, CloseSteps, CloseStdinSteps, ReadSyntheticSteps, CloseUploadSteps DEF Drops
<1> QED  BY <1>1, <1>2, <1>3, <1>4, <1>5, <1>6 DEF Next

\* However the workers' calls fall between each other, one at a time sends an
\* upload, and no answer of its publish is there before the result file is
\* written (pnpm-host.mjs:530-552, 726-732).
THEOREM StepsCorrect == Spec => []StepInv
<1>1. Init => StepInv  BY StepInit
<1>2. StepInv /\ [Next]_vars => StepInv'  BY StepNext
<1> QED  BY <1>1, <1>2, PTL DEF Spec

-----------------------------------------------------------------------------
(* The handles of a state                                                  *)

\* pnpm holds M, the answer of operation i A[i], the end in worker w R[w], and
\* L is lost.
Holding(M, A, R, L) ==
  [p \in Places |-> IF p.at = "pnpm" THEN M ELSE IF p.at = "lost" THEN L
                    ELSE IF p.at = "answer" THEN A[p.of] ELSE R[p.of]]
AnswersNow == [i \in Ids |-> IF Avail(i) THEN answer[i] ELSE {}]
EndsNow == [w \in Workers |-> IF pc[w].at = "result" THEN {pc[w].handle} ELSE {}]
Held == Holding(mine, AnswersNow, EndsNow, lost)
With(f, x, S) == [f EXCEPT ![x] = S]

\* The file of a synthetic response that has been read is gone.
Spent == \A g \in ended : IsSynthetic(g) => Object(g) \notin open
HandleInv == Good(Held, ended, open) /\ Spent

\* Nobody gives up a publish that is being sent.
Wanted == \A w \in Workers : Waits(w) => pc[w].id \notin over
Tight == "upload.end" \in Careful /\ Wanted /\ Covers(Held, ended, open)
\* What a step is to preserve: the second only with care.
Kept == HandleInv' /\ (Tight => Covers(Held, ended, open)')

LEMMA PlacesAre ==
  /\ Pnpm \in Places /\ \A i \in Ids : Answer(i) \in Places /\ Answer(i) # Pnpm
  /\ \A w \in Workers : EndOf(w) \in Places /\ EndOf(w) # Pnpm /\ \A i \in Ids : EndOf(w) # Answer(i)
  /\ Lost \in Places /\ Lost # Pnpm /\ (\A i \in Ids : Answer(i) # Lost) /\ \A w \in Workers : EndOf(w) # Lost
  /\ \A i, j \in Ids : Answer(i) = Answer(j) => i = j
  /\ \A v, w \in Workers : EndOf(v) = EndOf(w) => v = w
<1>1. Pnpm.at = "pnpm" /\ \A i : Answer(i).at = "answer" /\ Answer(i).of = i  BY DEF Pnpm, Answer
<1>2. Lost.at = "lost" /\ \A w : EndOf(w).at = "end" /\ EndOf(w).of = w  BY DEF EndOf, Lost
<1> QED  BY <1>1, <1>2 DEF Places

LEMMA HoldingIs ==
  ASSUME NEW M, NEW A, NEW R, NEW L
  PROVE  /\ Holding(M, A, R, L)[Pnpm] = M /\ \A i \in Ids : Holding(M, A, R, L)[Answer(i)] = A[i]
         /\ \A w \in Workers : Holding(M, A, R, L)[EndOf(w)] = R[w]
         /\ Holding(M, A, R, L)[Lost] = L /\ DOMAIN Holding(M, A, R, L) = Places
BY PlacesAre DEF Holding, Pnpm, Answer, EndOf, Lost

LEMMA HoldMine ==
  ASSUME NEW M, NEW A, NEW R, NEW L, NEW S
  PROVE  Holding(S, A, R, L) = With(Holding(M, A, R, L), Pnpm, S)
<1> DEFINE G == Holding(M, A, R, L)
           H == Holding(S, A, R, L)
<1>1. \A p \in Places : p # Pnpm => p.at # "pnpm"  BY DEF Places, Pnpm, Answer, EndOf, Lost
<1>2. \A p \in Places : H[p] = IF p = Pnpm THEN S ELSE G[p]  BY <1>1 DEF Holding, Pnpm
<1>3. DOMAIN H = Places /\ DOMAIN G = Places /\ H = [p \in Places |-> H[p]]  BY DEF Holding
<1> HIDE DEF G, H
<1>4. H = [G EXCEPT ![Pnpm] = S]  BY <1>2, <1>3
<1> QED  BY <1>4 DEF G, H, With

LEMMA HoldLost ==
  ASSUME NEW M, NEW A, NEW R, NEW L, NEW S
  PROVE  Holding(M, A, R, S) = With(Holding(M, A, R, L), Lost, S)
<1> DEFINE G == Holding(M, A, R, L)
           H == Holding(M, A, R, S)
<1>1. \A p \in Places : p # Lost => p.at # "lost"  BY DEF Places, Lost, Answer, EndOf, Pnpm
<1>2. \A p \in Places : H[p] = IF p = Lost THEN S ELSE G[p]  BY <1>1 DEF Holding, Lost
<1>3. DOMAIN H = Places /\ DOMAIN G = Places /\ H = [p \in Places |-> H[p]]  BY DEF Holding
<1> HIDE DEF G, H
<1>4. H = [G EXCEPT ![Lost] = S]  BY <1>2, <1>3
<1> QED  BY <1>4 DEF G, H, With

LEMMA HoldAnswer ==
  ASSUME NEW M, NEW A, NEW R, NEW L, NEW i \in Ids, NEW S, DOMAIN A = Ids
  PROVE  Holding(M, With(A, i, S), R, L) = With(Holding(M, A, R, L), Answer(i), S)
<1> DEFINE G == Holding(M, A, R, L)
           B == [A EXCEPT ![i] = S]
           H == Holding(M, B, R, L)
<1>1. \A j \in Ids : B[j] = IF j = i THEN S ELSE A[j]  OBVIOUS
<1> HIDE DEF B
<1>2. \A p \in Places : p.at = "answer" => p.of \in Ids /\ (p.of = i <=> p = Answer(i))
  BY DEF Places, Pnpm, Answer, EndOf, Lost
<1>3. Answer(i).at = "answer"  BY DEF Answer
<1>4. \A p \in Places : H[p] = IF p = Answer(i) THEN S ELSE G[p]  BY <1>1, <1>2, <1>3 DEF Holding
<1>5. DOMAIN H = Places /\ DOMAIN G = Places /\ H = [p \in Places |-> H[p]]  BY DEF Holding
<1> HIDE DEF G, H
<1>6. H = [G EXCEPT ![Answer(i)] = S]  BY <1>4, <1>5
<1> QED  BY <1>6 DEF B, G, H, With

LEMMA HoldEnd ==
  ASSUME NEW M, NEW A, NEW R, NEW L, NEW w \in Workers, NEW S, DOMAIN R = Workers
  PROVE  Holding(M, A, With(R, w, S), L) = With(Holding(M, A, R, L), EndOf(w), S)
<1> DEFINE G == Holding(M, A, R, L)
           B == [R EXCEPT ![w] = S]
           H == Holding(M, A, B, L)
<1>1. \A v \in Workers : B[v] = IF v = w THEN S ELSE R[v]  OBVIOUS
<1> HIDE DEF B
<1>2. \A p \in Places : p.at \notin {"pnpm", "answer", "lost"} => p.of \in Workers /\ (p.of = w <=> p = EndOf(w))
  BY DEF Places, Pnpm, Answer, EndOf, Lost
<1>3. EndOf(w).at = "end"  BY DEF EndOf
<1>4. \A p \in Places : H[p] = IF p = EndOf(w) THEN S ELSE G[p]  BY <1>1, <1>2, <1>3 DEF Holding
<1>5. DOMAIN H = Places /\ DOMAIN G = Places /\ H = [p \in Places |-> H[p]]  BY DEF Holding
<1> HIDE DEF G, H
<1>6. H = [G EXCEPT ![EndOf(w)] = S]  BY <1>4, <1>5
<1> QED  BY <1>6 DEF B, G, H, With

LEMMA HeldIs ==
  /\ Held[Pnpm] = mine /\ \A i \in Ids : Held[Answer(i)] = AnswersNow[i]
  /\ Held[Lost] = lost /\ \A w \in Workers : Held[EndOf(w)] = EndsNow[w]
BY HoldingIs DEF Held

LEMMA EndsSame ==
  ASSUME TypeOK, NEW w \in Workers, pc[w].at # "result",
         pc' = pc \/ \E r : r.at # "result" /\ pc' = [pc EXCEPT ![w] = r]
  PROVE  EndsNow' = EndsNow
<1>1. pc \in [Workers -> Pcs]  BY DEF TypeOK
<1>2. ASSUME NEW v \in Workers, v # w PROVE pc'[v] = pc[v]  BY <1>1, <1>2
<1>3. pc'[w].at # "result"  BY <1>1
<1>4. \A v \in Workers : (IF pc'[v].at = "result" THEN {pc'[v].handle} ELSE {})
                         = (IF pc[v].at = "result" THEN {pc[v].handle} ELSE {})
  BY <1>2, <1>3
<1> QED  BY <1>4 DEF EndsNow

LEMMA EndsGone ==
  ASSUME TypeOK, NEW w \in Workers, pc[w].at = "result", NEW r, r.at # "result",
         pc' = [pc EXCEPT ![w] = r]
  PROVE  EndsNow[w] = {pc[w].handle} /\ EndsNow' = [EndsNow EXCEPT ![w] = {}]
<1> PICK E : E = EndsNow  OBVIOUS
<1>1. pc'[w].at # "result" /\ \A v \in Workers \ {w} : pc'[v] = pc[v]  BY DEF TypeOK
<1>2. E = [v \in Workers |-> E[v]] /\ DOMAIN E = Workers
      /\ \A v \in Workers : E[v] = IF pc[v].at = "result" THEN {pc[v].handle} ELSE {}
  BY DEF EndsNow
<1>3. \A v \in Workers : (IF pc'[v].at = "result" THEN {pc'[v].handle} ELSE {}) = [E EXCEPT ![w] = {}][v]
  BY <1>1, <1>2
<1>4. [E EXCEPT ![w] = {}] = [v \in Workers |-> [E EXCEPT ![w] = {}][v]]  BY <1>2
<1>5. EndsNow' = [v \in Workers |-> IF pc'[v].at = "result" THEN {pc'[v].handle} ELSE {}]  BY DEF EndsNow
<1>6. EndsNow' = [E EXCEPT ![w] = {}]  BY <1>3, <1>4, <1>5
<1> QED  BY <1>2, <1>6

\* Nothing is opened or closed, and the handles stay where they are.
LEMMA SameKept ==
  ASSUME HandleInv, UNCHANGED objects, EndsNow' = EndsNow, AnswersNow' = AnswersNow
  PROVE  Kept
<1>1. UNCHANGED <<open, mine, ended, lost>>  BY DEF objects
<1>2. Held' = Held  BY <1>1 DEF Held
<1> HIDE DEF HandleInv
<1>3. Spent'  BY <1>1 DEF Spent, HandleInv
<1>4. Good(Held, ended, open)'  BY <1>1, <1>2 DEF Good, HandleInv, OnePlace, OpenFor, Apart
<1>5. Tight => Covers(Held, ended, open)'  BY <1>1, <1>2 DEF Covers, Tight
<1> QED  BY <1>3, <1>4, <1>5 DEF Kept, HandleInv

\* A new answer, with new handles.
LEMMA AnswerKept ==
  ASSUME HandleInv, NEW i \in Ids, NEW N, NEW X, New(N, ended, open, X), AnswersNow[i] = {},
         AnswersNow' = [AnswersNow EXCEPT ![i] = N], EndsNow' = EndsNow,
         open' = open \cup X, UNCHANGED <<mine, ended, lost>>, Spent'
  PROVE  Kept
<1>1. Held' = [Held EXCEPT ![Answer(i)] = N]
  <2>1. PICK A : A = AnswersNow /\ DOMAIN A = Ids  BY DEF AnswersNow
  <2>2. PICK M, R, L : M = mine /\ R = EndsNow /\ L = lost  OBVIOUS
  <2>3. Held = Holding(M, A, R, L)  BY <2>1, <2>2 DEF Held
  <2>4. Held' = Holding(M, With(A, i, N), R, L)  BY <2>1, <2>2 DEF Held, With
  <2>5. Holding(M, With(A, i, N), R, L) = With(Holding(M, A, R, L), Answer(i), N)
    BY <2>1, HoldAnswer
  <2> QED  BY <2>3, <2>4, <2>5 DEF With
<1>2. Held[Answer(i)] = {}  BY HeldIs
<1> PICK G : G = Held  OBVIOUS
<1> PICK e : e = ended  OBVIOUS
<1> PICK o : o = open  OBVIOUS
<1>3. Good(G, e, o) /\ New(N, e, o, X) /\ Answer(i) \in Places  BY PlacesAre DEF HandleInv
<1>4. [G EXCEPT ![Answer(i)] = N] = [G EXCEPT ![Answer(i)] = @ \cup N]
  <2>1. G[Answer(i)] = {}  BY <1>2
  <2> QED  BY <2>1
<1>5. Held' = [G EXCEPT ![Answer(i)] = @ \cup N] /\ ended' = e /\ open' = o \cup X  BY <1>1, <1>4
<1>6. Good(Held', ended', open')
  <2>1. Good([G EXCEPT ![Answer(i)] = @ \cup N], e, o \cup X)  BY <1>3, Gain
  <2> QED  BY <1>5, <2>1
<1>7. Tight => Covers(Held', ended', open')
  <2> SUFFICES ASSUME Tight PROVE Covers(Held', ended', open')  OBVIOUS
  <2>1. Covers(G, e, o)  BY DEF Tight
  <2>2. Covers([G EXCEPT ![Answer(i)] = @ \cup N], e, o \cup X)  BY <1>3, <2>1, GainCovers
  <2> QED  BY <1>5, <2>2
<1> QED  BY <1>6, <1>7 DEF Kept, HandleInv

LEMMA EndKept ==
  ASSUME HandleInv, NEW w \in Workers, NEW N, NEW X, New(N, ended, open, X), EndsNow[w] = {},
         EndsNow' = [EndsNow EXCEPT ![w] = N], AnswersNow' = AnswersNow,
         open' = open \cup X, UNCHANGED <<mine, ended, lost>>, Spent'
  PROVE  Kept
<1>1. Held' = [Held EXCEPT ![EndOf(w)] = N]
  <2>1. PICK R : R = EndsNow /\ DOMAIN R = Workers  BY DEF EndsNow
  <2>2. PICK M, A, L : M = mine /\ A = AnswersNow /\ L = lost  OBVIOUS
  <2>3. Held = Holding(M, A, R, L)  BY <2>1, <2>2 DEF Held
  <2>4. Held' = Holding(M, A, With(R, w, N), L)  BY <2>1, <2>2 DEF Held, With
  <2>5. Holding(M, A, With(R, w, N), L) = With(Holding(M, A, R, L), EndOf(w), N)
    BY <2>1, HoldEnd
  <2> QED  BY <2>3, <2>4, <2>5 DEF With
<1>2. Held[EndOf(w)] = {}  BY HeldIs
<1> PICK G : G = Held  OBVIOUS
<1> PICK e : e = ended  OBVIOUS
<1> PICK o : o = open  OBVIOUS
<1>3. Good(G, e, o) /\ New(N, e, o, X) /\ EndOf(w) \in Places  BY PlacesAre DEF HandleInv
<1>4. [G EXCEPT ![EndOf(w)] = N] = [G EXCEPT ![EndOf(w)] = @ \cup N]
  <2>1. G[EndOf(w)] = {}  BY <1>2
  <2> QED  BY <2>1
<1>5. Held' = [G EXCEPT ![EndOf(w)] = @ \cup N] /\ ended' = e /\ open' = o \cup X  BY <1>1, <1>4
<1>6. Good(Held', ended', open')
  <2>1. Good([G EXCEPT ![EndOf(w)] = @ \cup N], e, o \cup X)  BY <1>3, Gain
  <2> QED  BY <1>5, <2>1
<1>7. Tight => Covers(Held', ended', open')
  <2> SUFFICES ASSUME Tight PROVE Covers(Held', ended', open')  OBVIOUS
  <2>1. Covers(G, e, o)  BY DEF Tight
  <2>2. Covers([G EXCEPT ![EndOf(w)] = @ \cup N], e, o \cup X)  BY <1>3, <2>1, GainCovers
  <2> QED  BY <1>5, <2>2
<1> QED  BY <1>6, <1>7 DEF Kept, HandleInv

LEMMA GivenKept ==
  ASSUME HandleInv, NEW p \in Places, NEW q \in Places, p # q, p # Pnpm, Held' = Given(Held, p, q),
         UNCHANGED <<open, ended>>
  PROVE  Kept
<1> PICK G : G = Held  OBVIOUS
<1> PICK e : e = ended  OBVIOUS
<1> PICK o : o = open  OBVIOUS
<1>1. Good(G, e, o) /\ Held' = Given(G, p, q) /\ ended' = e /\ open' = o  BY DEF HandleInv
<1>2. Good(Given(G, p, q), e, o) /\ (Covers(G, e, o) => Covers(Given(G, p, q), e, o))  BY <1>1, Give
<1>3. Good(Held', ended', open')  BY <1>1, <1>2
<1>4. Tight => Covers(Held', ended', open')  BY <1>1, <1>2 DEF Tight
<1>5. Spent'  BY DEF HandleInv, Spent
<1> QED  BY <1>3, <1>4, <1>5 DEF Kept, HandleInv

\* The handles N of p are closed, with the objects X.
LEMMA ClosedKept ==
  ASSUME HandleInv, NEW p \in Places, NEW N, NEW X, N \subseteq Held[p],
         \A x \in X : \E h \in N : x \in ForIn(h, ended),
         Tight => \A h \in N : ForIn(h, ended) \subseteq X,
         Held' = Closed(Held, p, N), ended' = ended \ N, open' = open \ X
  PROVE  Kept
<1> PICK G : G = Held  OBVIOUS
<1> PICK e : e = ended  OBVIOUS
<1> PICK o : o = open  OBVIOUS
<1>1. Good(G, e, o) /\ Held' = Closed(G, p, N) /\ ended' = e \ N /\ open' = o \ X  BY DEF HandleInv
<1>2. N \subseteq G[p] /\ \A x \in X : \E h \in N : x \in ForIn(h, e)  OBVIOUS
<1>3. Good(Closed(G, p, N), e \ N, o \ X)  BY <1>1, <1>2, CloseSome
<1>4. Good(Held', ended', open')  BY <1>1, <1>3
<1>5. Tight => Covers(Held', ended', open')
  <2> SUFFICES ASSUME Tight PROVE Covers(Held', ended', open')  OBVIOUS
  <2>1. Covers(G, e, o) /\ \A h \in N : ForIn(h, e) \subseteq X  BY DEF Tight
  <2>2. Covers(Closed(G, p, N), e \ N, o \ X)  BY <1>1, <1>2, <2>1, CloseCovers
  <2> QED  BY <1>1, <2>2
<1>6. Spent'  BY <1>1 DEF HandleInv, Spent
<1> QED  BY <1>4, <1>5, <1>6 DEF Kept, HandleInv

\* The handles N of p are closed, but for the stdin of the children among
\* them, whose handles L are lost.
Left(G, p, N, L) == [Closed(G, p, N) EXCEPT ![Lost] = @ \cup L]

LEMMA CloseLeaves ==
  ASSUME NEW G, NEW e, NEW o, NEW p \in Places, NEW N, NEW L, NEW X,
         Good(G, e, o), N \subseteq G[p], N \cap e = {},
         L = UNION {StdinLeft(h) : h \in N}, X = {Object(h) : h \in N}
  PROVE  Good(Left(G, p, N, L), e, o \ X) /\ (Covers(G, e, o) => Covers(Left(G, p, N, L), e, o \ X))
<1>1. PICK S : S = UNION {Stdin(h) : h \in N}  OBVIOUS
<1>2. PICK Y : Y = X \cup S  OBVIOUS
<1>3. \A h \in N : h \in Nat /\ h \notin e  BY DEF Good
<1>4. \A h \in N : ForIn(h, e) = {Object(h)} \cup Stdin(h)  BY <1>3 DEF ForIn
<1>5. /\ \A x \in Y : \E h \in N : x \in ForIn(h, e)
      /\ \A h \in N : ForIn(h, e) \subseteq Y
  BY <1>1, <1>2, <1>4
<1>6. PICK H : H = Closed(G, p, N)  OBVIOUS
<1>7. Good(H, e, o \ Y) /\ (Covers(G, e, o) => Covers(H, e, o \ Y))
  <2>1. e \ N = e  OBVIOUS
  <2>2. Good(Closed(G, p, N), e \ N, o \ Y)  BY <1>5, CloseSome
  <2>3. Covers(G, e, o) => Covers(Closed(G, p, N), e \ N, o \ Y)  BY <1>5, CloseCovers
  <2> QED  BY <2>1, <2>2, <2>3, <1>6
<1>8. \A x \in S : /\ x.type = "fd" /\ FdHandle(x.n) \in L
                   /\ \E h \in N : x \in Stdin(h) /\ Object(h).type = "proc"
  BY <1>1, <1>3, StdinIs DEF StdinLeft
<1>9. \A l \in L : \E x \in S : /\ l = FdHandle(x.n) /\ l \in Nat
                               /\ Object(l) = x /\ Stdin(l) = {}
  <2> SUFFICES ASSUME NEW l \in L
               PROVE  \E x \in S : l = FdHandle(x.n) /\ l \in Nat /\ Object(l) = x /\ Stdin(l) = {}
    OBVIOUS
  <2>1. PICK h \in N : l \in StdinLeft(h)  OBVIOUS
  <2>2. PICK x \in Stdin(h) : l = FdHandle(x.n)  BY <2>1 DEF StdinLeft
  <2>3. PICK n : n = x.n /\ n \in 0..1022 /\ x = [type |-> "fd", n |-> n]  BY <1>3, <2>2, StdinIs
  <2>4. n \in Nat /\ n < FD_HANDLE  BY <2>3 DEF FD_HANDLE
  <2>5. Object(FdHandle(n)) = x /\ Stdin(FdHandle(n)) = {} /\ FdHandle(n) \in Nat
    BY <2>3, <2>4, ObjectOfFd
  <2>6. x \in S  BY <1>1, <2>2
  <2> QED  BY <2>2, <2>3, <2>5, <2>6
<1>10. \A l \in L : \E x \in S : l = FdHandle(x.n) /\ ForIn(l, {}) = {x} /\ Object(l) = x
  <2> SUFFICES ASSUME NEW l \in L PROVE \E x \in S : l = FdHandle(x.n) /\ ForIn(l, {}) = {x} /\ Object(l) = x
    OBVIOUS
  <2>1. PICK x \in S : l = FdHandle(x.n) /\ Object(l) = x /\ Stdin(l) = {}  BY <1>9
  <2>2. ForIn(l, {}) = {x}  BY <2>1 DEF ForIn
  <2> QED  BY <2>1, <2>2
<1>11. ASSUME NEW x \in S, NEW g \in e PROVE Object(g) # x
  <2> SUFFICES ASSUME Object(g) = x PROVE FALSE  OBVIOUS
  <2>1. PICK h \in N : x \in Stdin(h)  BY <1>8
  <2>2. g \in G[Pnpm] /\ g \in Nat /\ Pnpm \in Places  BY PlacesAre DEF Good
  <2>3. ~IsSynthetic(g)
    <3>1. x.type = "fd"  BY <1>8
    <3> QED  BY <2>2, <3>1, FilesAreSynthetic
  <2>4. x \in ForIn(g, e) /\ x \in ForIn(h, e)  BY <1>4, <2>1, <2>3, ObjectIsFor
  <2>5. g = h  BY <2>2, <2>4 DEF Good, Apart
  <2> QED  BY <1>3, <2>5
<1>12. New(L, e, o \ Y, S)
  <2>1. L \subseteq Nat  BY <1>9
  <2>2. S \cap (o \ Y) = {}  BY <1>2
  <2>3. \A h \in L : ForIn(h, {}) \subseteq S /\ \A g \in e : Object(h) # Object(g)  BY <1>10, <1>11
  <2>4. \A g, h \in L : \A x \in ForIn(g, {}) : x \in ForIn(h, {}) => g = h  BY <1>10
  <2>5. \A x \in S : \E h \in L : x \in ForIn(h, {})
    <3> SUFFICES ASSUME NEW x \in S PROVE \E h \in L : x \in ForIn(h, {})  OBVIOUS
    <3>1. PICK h \in N : x \in Stdin(h)  BY <1>8
    <3>2. PICK n : n = x.n /\ n \in 0..1022 /\ x = [type |-> "fd", n |-> n]  BY <1>3, <3>1, StdinIs
    <3>3. n \in Nat /\ n < FD_HANDLE  BY <3>2 DEF FD_HANDLE
    <3>4. Object(FdHandle(n)) = x  BY <3>2, <3>3, ObjectOfFd
    <3>5. FdHandle(n) \in L  BY <1>8, <3>2
    <3>6. x \in ForIn(FdHandle(n), {})  BY <3>4 DEF ForIn
    <3> QED  BY <3>5, <3>6
  <2> QED  BY <2>1, <2>2, <2>3, <2>4, <2>5 DEF New
<1>13. (o \ Y) \cup S = o \ X
  <2>1. S \cap X = {}
    <3> SUFFICES ASSUME NEW x \in S, x \in X PROVE FALSE  OBVIOUS
    <3>1. PICK h \in N : x = Object(h)  OBVIOUS
    <3>2. PICK g \in N : x \in Stdin(g) /\ Object(g).type = "proc" /\ x.type = "fd"  BY <1>8
    <3>3. x \in ForIn(g, e) /\ x \in ForIn(h, e)  BY <1>4, <3>1, <3>2
    <3>4. g = h  BY <3>3 DEF Good, Apart
    <3> QED  BY <3>1, <3>2, <3>4
  <2>2. S \subseteq o
    <3>1. \A h \in N : ForIn(h, e) \subseteq o  BY DEF Good, OpenFor
    <3> QED  BY <1>1, <1>4, <3>1
  <2> QED  BY <1>2, <2>1, <2>2
<1>14. Lost \in Places  BY PlacesAre
<1>15. Good([H EXCEPT ![Lost] = @ \cup L], e, (o \ Y) \cup S)  BY <1>7, <1>12, <1>14, Gain
<1>16. Covers(G, e, o) => Covers([H EXCEPT ![Lost] = @ \cup L], e, (o \ Y) \cup S)
  BY <1>7, <1>12, <1>14, GainCovers
<1> QED  BY <1>6, <1>13, <1>15, <1>16 DEF Left

LEMMA LeavesKept ==
  ASSUME HandleInv, NEW p \in Places, NEW N, NEW L, NEW X, N \subseteq Held[p], N \cap ended = {},
         L = UNION {StdinLeft(h) : h \in N}, X = {Object(h) : h \in N},
         Held' = Left(Held, p, N, L), ended' = ended, open' = open \ X
  PROVE  Kept
<1> PICK G : G = Held  OBVIOUS
<1> PICK e : e = ended  OBVIOUS
<1> PICK o : o = open  OBVIOUS
<1>1. Good(G, e, o) /\ Held' = Left(G, p, N, L) /\ ended' = e /\ open' = o \ X  BY DEF HandleInv
<1>2. N \subseteq G[p] /\ N \cap e = {}  OBVIOUS
<1>3. Good(Left(G, p, N, L), e, o \ X) /\ (Covers(G, e, o) => Covers(Left(G, p, N, L), e, o \ X))
  BY <1>1, <1>2, CloseLeaves
<1>4. Good(Held', ended', open')  BY <1>1, <1>3
<1>5. Tight => Covers(Held', ended', open')  BY <1>1, <1>3 DEF Tight
<1>6. Spent'  BY <1>1 DEF HandleInv, Spent
<1> QED  BY <1>4, <1>5, <1>6 DEF Kept, HandleInv

\* pnpm is done with its handle h.
LEMMA EndedKept ==
  ASSUME HandleInv, NEW h \in mine, h \notin ended, Held' = Held, ended' = ended \cup {h},
         open' = open \ (ForIn(h, ended) \ ForIn(h, ended \cup {h})),
         IsSynthetic(h) => Object(h) \notin open'
  PROVE  Kept
<1> PICK G : G = Held  OBVIOUS
<1> PICK e : e = ended  OBVIOUS
<1> PICK o : o = open  OBVIOUS
<1> PICK X : X = ForIn(h, e) \ ForIn(h, e \cup {h})  OBVIOUS
<1>1. Good(G, e, o) /\ Held' = G /\ ended' = e \cup {h} /\ open' = o \ X  BY DEF HandleInv
<1>2. h \in G[Pnpm] /\ h \notin e  BY HeldIs
<1>3. Good(G, e \cup {h}, o \ X) /\ (Covers(G, e, o) => Covers(G, e \cup {h}, o \ X))
  BY <1>1, <1>2, EndOne
<1>4. Good(Held', ended', open')  BY <1>1, <1>3
<1>5. Tight => Covers(Held', ended', open')  BY <1>1, <1>3 DEF Tight
<1>6. Spent'  BY <1>1 DEF HandleInv, Spent
<1> QED  BY <1>4, <1>5, <1>6 DEF Kept, HandleInv

-----------------------------------------------------------------------------
(* New handles                                                             *)

\* An object that is not open, and not a file, is not what a handle that is
\* done with was for.
LEMMA EndedAreOthers ==
  ASSUME HandleInv, NEW x, x \notin open, x.type # "file"
  PROVE  \A g \in ended : Object(g) # x
<1> SUFFICES ASSUME NEW g \in ended, Object(g) = x PROVE FALSE  OBVIOUS
<1>1. g \in Held[Pnpm] /\ g \in Nat /\ Pnpm \in Places  BY PlacesAre DEF HandleInv, Good
<1>2. CASE IsSynthetic(g)  BY <1>1, <1>2, FilesAreSynthetic
<1>3. CASE ~IsSynthetic(g)
  <2>1. Object(g) \in ForIn(g, ended)  BY <1>3, ObjectIsFor
  <2>2. ForIn(g, ended) \subseteq open  BY <1>1 DEF HandleInv, Good, OpenFor
  <2> QED  BY <2>1, <2>2
<1> QED  BY <1>2, <1>3

LEMMA FilesStaySpent ==
  ASSUME Spent, ended' = ended, NEW X, open' \subseteq open \cup X,
         \A x \in X : x.type # "file" \/ \A g \in ended : Object(g) # x, ended \subseteq Nat
  PROVE  Spent'
<1> SUFFICES ASSUME NEW g \in ended, IsSynthetic(g) PROVE Object(g) \notin open'  BY DEF Spent
<1>1. Object(g) \notin open /\ Object(g).type = "file"  BY FilesAreSynthetic DEF Spent
<1> QED  BY <1>1

\* A handle that is for one object.
LEMMA OneIsNew ==
  ASSUME NEW h \in Nat, NEW x, x \notin open, Object(h) = x, Stdin(h) = {}, \A g \in ended : Object(g) # x
  PROVE  New({h}, ended, open, {x})
<1>1. ForIn(h, {}) = {x}  BY DEF ForIn
<1> QED  BY <1>1 DEF New

LEMMA NoneIsNew == New({}, ended, open, {})  BY DEF New

LEMMA NetNew == ASSUME TypeOK, Few, HandleInv PROVE New({HandleOf(Net)}, ended, open, {Net})
<1>1. HandleOf(Net) \in Nat /\ Net \notin open /\ Object(HandleOf(Net)) = Net /\ Stdin(HandleOf(Net)) = {}
  BY NetIsNew
<1>2. \A g \in ended : Object(g) # Net
  <2>1. Net.type = "net"  BY DEF Net
  <2> QED  BY <1>1, <2>1, EndedAreOthers
<1> QED  BY <1>1, <1>2, OneIsNew
LEMMA FileNew == ASSUME TypeOK PROVE New({HandleOf(File)}, ended, open, {File})
<1>1. /\ HandleOf(File) \in Nat /\ File \notin open /\ Object(HandleOf(File)) = File /\ Stdin(HandleOf(File)) = {}
      /\ \A g \in ended : Object(g) # File
  BY FileIsNew
<1> QED  BY <1>1, OneIsNew

LEMMA NetSpent == ASSUME TypeOK, HandleInv, ended' = ended, open' = open \cup {Net} PROVE Spent'
<1>1. Net.type = "net"  BY DEF Net
<1> PICK X : X = {Net}  OBVIOUS
<1>2. ended \subseteq Nat /\ open' \subseteq open \cup X /\ \A x \in X : x.type # "file"  BY <1>1 DEF TypeOK
<1> QED  BY <1>2, FilesStaySpent DEF HandleInv
LEMMA FileSpent == ASSUME TypeOK, HandleInv, ended' = ended, open' = open \cup {File} PROVE Spent'
<1>1. \A g \in ended : Object(g) # File  BY FileIsNew
<1> PICK X : X = {File}  OBVIOUS
<1>2. ended \subseteq Nat /\ open' \subseteq open \cup X /\ \A x \in X : \A g \in ended : Object(g) # x
  BY <1>1 DEF TypeOK
<1> QED  BY <1>2, FilesStaySpent DEF HandleInv

LEMMA AnswersSame ==
  ASSUME \A i \in Ids : Avail(i)' <=> Avail(i), \A i \in Ids : Avail(i) => answer'[i] = answer[i]
  PROVE  AnswersNow' = AnswersNow
<1>1. \A i \in Ids : (IF Avail(i)' THEN answer'[i] ELSE {}) = (IF Avail(i) THEN answer[i] ELSE {})
  OBVIOUS
<1> QED  BY <1>1 DEF AnswersNow

LEMMA AnswersBut ==
  ASSUME NEW i \in Ids, \A j \in Ids \ {i} : (Avail(j)' <=> Avail(j)) /\ (Avail(j) => answer'[j] = answer[j])
  PROVE  AnswersNow' = [AnswersNow EXCEPT ![i] = IF Avail(i)' THEN answer'[i] ELSE {}]
<1> PICK A : A = AnswersNow  OBVIOUS
<1> PICK S : S = IF Avail(i)' THEN answer'[i] ELSE {}  OBVIOUS
<1>1. \A j \in Ids \ {i} : (IF Avail(j)' THEN answer'[j] ELSE {}) = A[j]  BY DEF AnswersNow
<1>2. DOMAIN A = Ids /\ A = [j \in Ids |-> A[j]]  BY DEF AnswersNow
<1>3. \A j \in Ids : (IF Avail(j)' THEN answer'[j] ELSE {}) = [A EXCEPT ![i] = S][j]  BY <1>1, <1>2
<1>4. [A EXCEPT ![i] = S] = [j \in Ids |-> [A EXCEPT ![i] = S][j]]  BY <1>2
<1>5. AnswersNow' = [j \in Ids |-> IF Avail(j)' THEN answer'[j] ELSE {}]  BY DEF AnswersNow
<1>6. AnswersNow' = [A EXCEPT ![i] = S]  BY <1>3, <1>4, <1>5
<1> QED  BY <1>6

LEMMA SameEnds == ASSUME pc' = pc PROVE EndsNow' = EndsNow  BY DEF EndsNow

\* Nothing is opened and no answer comes or goes.
LEMMA QuietKept ==
  ASSUME StepInv, HandleInv, UNCHANGED objects, EndsNow' = EndsNow, UNCHANGED <<ops, async, answer, ready, results, over>>
  PROVE  Kept
<1>1. AnswersNow' = AnswersNow  BY KeepsAvail, AnswersSame
<1> QED  BY <1>1, SameKept

-----------------------------------------------------------------------------
(* operation_start                                                         *)

LEMMA GetKept == ASSUME StepInv, HandleInv, NEW w \in Workers, Get(w) PROVE Kept
<1>1. PICK n : n = Len(ops) + 1  OBVIOUS
<1>2. n \in Ids \ Started /\ Len(ops) \in Nat /\ Started = 1..Len(ops)
  BY <1>1, IdsAre DEF Get, CanStart, StepInv
<1>3. /\ ops' = Append(ops, "get") /\ async' = [async EXCEPT ![n] = "pending"]
      /\ UNCHANGED <<ready, results, over, answer, pc, objects>>
  BY <1>1 DEF Get
<1>4. Started' = Started \cup {n}  BY <1>1, <1>2, <1>3 DEF Started, StepInv, TypeOK
<1>5. async'[n] = "pending" /\ \A j \in Ids \ {n} : async'[j] = async[j]  BY <1>2, <1>3 DEF StepInv, TypeOK
<1>6. n \notin results /\ \A v \in Workers : n \notin ready[v]  BY <1>2 DEF StepInv, Blank
<1>7. \A i \in Ids : Avail(i)' <=> Avail(i)  BY <1>2, <1>3, <1>4, <1>5, <1>6 DEF Avail
<1>8. AnswersNow' = AnswersNow  BY <1>3, <1>7, AnswersSame
<1> QED  BY <1>3, <1>8, SameEnds, SameKept

LEMMA ResolveAnswers ==
  ASSUME StepInv, Len(ops) < MaxOps, NEW what \in {"put", "spawn"}, NEW H, Resolve(what, H), NEW n, n = Len(ops) + 1
  PROVE  n \in Ids /\ AnswersNow[n] = {} /\ AnswersNow' = [AnswersNow EXCEPT ![n] = H]
<1>2. n \in Ids \ Started /\ Len(ops) \in Nat /\ Started = 1..Len(ops)  BY IdsAre DEF StepInv
<1>3. /\ ops' = Append(ops, what) /\ async' = [async EXCEPT ![n] = "done"] /\ answer' = [answer EXCEPT ![n] = H]
      /\ UNCHANGED <<ready, results, over>>
  BY DEF Resolve
<1>4. Started' = Started \cup {n}  BY <1>2, <1>3 DEF Started, StepInv, TypeOK
<1>5. /\ async'[n] = "done" /\ \A j \in Ids \ {n} : async'[j] = async[j]
      /\ answer'[n] = H /\ \A j \in Ids \ {n} : answer'[j] = answer[j]
  BY <1>2, <1>3 DEF StepInv, TypeOK
<1>6. n \notin over  BY <1>2 DEF StepInv, Blank
<1>7. Avail(n)'  BY <1>3, <1>4, <1>5, <1>6 DEF Avail
<1>8. ~Avail(n) /\ \A j \in Ids \ {n} : Avail(j)' <=> Avail(j)  BY <1>2, <1>3, <1>4, <1>5 DEF Avail
<1>9. AnswersNow' = [AnswersNow EXCEPT ![n] = IF Avail(n)' THEN answer'[n] ELSE {}]
  BY <1>2, <1>5, <1>8, AnswersBut
<1>10. AnswersNow[n] = {}  BY <1>2, <1>8 DEF AnswersNow
<1> QED  BY <1>2, <1>5, <1>7, <1>9, <1>10

LEMMA SyntheticKept ==
  ASSUME StepInv, HandleInv, Len(ops) < MaxOps, Synthetic("put"), pc' = pc
  PROVE  Kept
<1>1. PICK n : n = Len(ops) + 1  OBVIOUS
<1>2. Resolve("put", {HandleOf(File)}) /\ open' = open \cup {File} /\ UNCHANGED <<mine, ended, lost>>  BY DEF Synthetic
<1>3. PICK h : h = HandleOf(File)  OBVIOUS
<1>4. PICK x : x = File  OBVIOUS
<1>5. n \in Ids /\ AnswersNow[n] = {} /\ AnswersNow' = [AnswersNow EXCEPT ![n] = {h}]
  BY <1>1, <1>2, <1>3, ResolveAnswers
<1>6. New({h}, ended, open, {x})  BY <1>3, <1>4, FileNew DEF StepInv
<1>7. Spent'  BY <1>2, FileSpent DEF StepInv
<1>8. EndsNow' = EndsNow /\ open' = open \cup {x}  BY <1>2, <1>4, SameEnds
<1> QED  BY <1>2, <1>5, <1>6, <1>7, <1>8, AnswerKept

LEMMA PutKept == ASSUME StepInv, HandleInv, Few, NEW w \in Workers, Put(w) PROVE Kept
<1>0. Len(ops) < MaxOps /\ pc' = pc  BY DEF Put, CanStart
<1>1. CASE Synthetic("put")  BY <1>0, <1>1, SyntheticKept
<1>2. CASE open' = open \cup {Net} /\ Resolve("put", {HandleOf(Net)}) /\ UNCHANGED <<mine, ended, lost>>
  <2>1. PICK n : n = Len(ops) + 1  OBVIOUS
  <2>2. PICK h : h = HandleOf(Net)  OBVIOUS
  <2>3. PICK x : x = Net  OBVIOUS
  <2>4. n \in Ids /\ AnswersNow[n] = {} /\ AnswersNow' = [AnswersNow EXCEPT ![n] = {h}]
    BY <1>0, <1>2, <2>1, <2>2, ResolveAnswers
  <2>5. New({h}, ended, open, {x})  BY <2>2, <2>3, NetNew DEF StepInv
  <2>6. Spent'  BY <1>2, NetSpent DEF StepInv
  <2>7. EndsNow' = EndsNow /\ open' = open \cup {x}  BY <1>0, <1>2, <2>3, SameEnds
  <2> QED  BY <1>2, <2>4, <2>5, <2>6, <2>7, AnswerKept
<1> QED  BY <1>1, <1>2 DEF Put

\* The kernel takes the least free descriptor.
LEMMA FdIsLeast ==
  ASSUME NEW S, IsFiniteSet(S), NEW m \in Nat, Cardinality(S) <= m
  PROVE  /\ Least("fd", S) \in Nat /\ Least("fd", S) <= m
         /\ [type |-> "fd", n |-> Least("fd", S)] \notin S
<1>1. Cardinality(S) \in Nat  BY FS_CardinalityType
<1>2. PICK n : n = Least("fd", S)  OBVIOUS
<1>3. n \in 0..Cardinality(S) /\ [type |-> "fd", n |-> n] \notin S  BY <1>2, LeastIsFree
<1>4. n \in Nat /\ n <= m  BY <1>1, <1>3
<1> QED  BY <1>2, <1>3, <1>4

\* What a spawn opens, X, and the handles of it that it answers, N.
Spawns(in, out, pid, infd, piped, outfd, X, N) ==
  /\ infd = IF in THEN Least("fd", open) ELSE NoFd
  /\ piped = IF in THEN {[type |-> "fd", n |-> infd]} ELSE {}
  /\ outfd = Least("fd", open \cup piped)
  /\ [type |-> "proc", n |-> pid] \notin open
  /\ X = piped \cup {[type |-> "proc", n |-> pid]}
           \cup (IF out THEN {[type |-> "fd", n |-> outfd]} ELSE {})
  /\ N = {ProcHandle(pid, infd)} \cup IF out THEN {FdHandle(outfd)} ELSE {}

LEMMA SpawnNew ==
  ASSUME TypeOK, HandleInv, Few, PidsFit, NEW in \in BOOLEAN, NEW out \in BOOLEAN, NEW pid \in Pids,
         NEW infd, NEW piped, NEW outfd, NEW X, NEW N, Spawns(in, out, pid, infd, piped, outfd, X, N)
  PROVE  New(N, ended, open, X) /\ \A x \in X : x.type # "file"
<1>0. /\ infd = IF in THEN Least("fd", open) ELSE NoFd
      /\ piped = IF in THEN {[type |-> "fd", n |-> infd]} ELSE {}
      /\ outfd = Least("fd", open \cup piped)
      /\ [type |-> "proc", n |-> pid] \notin open
      /\ X = piped \cup {[type |-> "proc", n |-> pid]}
               \cup (IF out THEN {[type |-> "fd", n |-> outfd]} ELSE {})
      /\ N = {ProcHandle(pid, infd)} \cup IF out THEN {FdHandle(outfd)} ELSE {}
  BY DEF Spawns
<1>1. IsFiniteSet(open) /\ Cardinality(open) \in Nat /\ Cardinality(open) <= 1022
  <2>1. IsFiniteSet(open)  BY DEF TypeOK
  <2> QED  BY <2>1, FS_CardinalityType DEF Few
<1>2. in => infd \in Nat /\ infd <= 1022 /\ [type |-> "fd", n |-> infd] \notin open
  BY <1>0, <1>1, FdIsLeast
<1>3. infd \in FitFds /\ (infd = NoFd <=> ~in)  BY <1>0, <1>2 DEF FitFds, NoFd
<1>4. IsFiniteSet(open \cup piped) /\ Cardinality(open \cup piped) <= 1023
  <2>1. CASE in
    <3>1. PICK c : c = [type |-> "fd", n |-> infd]  OBVIOUS
    <3>2. piped = {c} /\ c \notin open  BY <1>0, <1>2, <2>1, <3>1
    <3>3. PICK T : T = open \cup {c}  OBVIOUS
    <3>4. IsFiniteSet(T) /\ Cardinality(T) = Cardinality(open) + 1
      <4>1. IsFiniteSet(open) /\ c \notin open  BY <1>1, <3>2
      <4> QED  BY <3>3, <4>1, FS_AddElement
    <3>5. T = open \cup piped  BY <3>2, <3>3
    <3>6. Cardinality(T) <= 1023  BY <1>1, <3>4
    <3> QED  BY <3>4, <3>5, <3>6
  <2>2. CASE ~in
    <3>1. open \cup piped = open  BY <1>0, <2>2
    <3> QED  BY <1>1, <3>1
  <2> QED  BY <2>1, <2>2
<1>5. outfd \in Nat /\ outfd <= 1023 /\ [type |-> "fd", n |-> outfd] \notin open \cup piped
  <2> DEFINE S == open \cup piped
  <2>1. outfd = Least("fd", S) /\ IsFiniteSet(S) /\ Cardinality(S) <= 1023  BY <1>0, <1>4
  <2> HIDE DEF S
  <2>2. outfd \in Nat /\ outfd <= 1023 /\ [type |-> "fd", n |-> outfd] \notin S
    BY <2>1, FdIsLeast
  <2> QED  BY <2>2 DEF S
<1>6. outfd \in Nat /\ outfd < FD_HANDLE  BY <1>5 DEF FD_HANDLE
<1>7. PICK p : p = [type |-> "proc", n |-> pid]  OBVIOUS
<1>8. PICK a : a = [type |-> "fd", n |-> infd]  OBVIOUS
<1>9. PICK b : b = [type |-> "fd", n |-> outfd]  OBVIOUS
<1>10. PICK h : h = ProcHandle(pid, infd)  OBVIOUS
<1>11. PICK g : g = FdHandle(outfd)  OBVIOUS
<1>12. Object(h) = p /\ Stdin(h) = piped /\ h \in Nat
  <2>1. pid \in FitPids /\ infd \in FitFds  BY <1>3 DEF PidsFit
  <2>2. /\ Object(h) = p /\ h \in Nat
        /\ Stdin(h) = IF infd = NoFd THEN {} ELSE {[type |-> "fd", n |-> infd]}
    BY <2>1, <1>7, <1>10, ObjectOfChild
  <2> QED  BY <1>0, <1>3, <2>2
<1>13. Object(g) = b /\ Stdin(g) = {} /\ g \in Nat  BY <1>6, <1>9, <1>11, ObjectOfFd
<1>14. p.type = "proc" /\ a.type = "fd" /\ b.type = "fd" /\ p # a /\ p # b  BY <1>7, <1>8, <1>9
<1>15. p \notin open /\ b \notin open \cup piped /\ (in => a \notin open) /\ piped = IF in THEN {a} ELSE {}
  BY <1>0, <1>2, <1>5, <1>7, <1>8, <1>9
<1>16. ForIn(h, {}) = {p} \cup piped /\ ForIn(g, {}) = {b}  BY <1>12, <1>13 DEF ForIn
<1>17. X = piped \cup {p} \cup (IF out THEN {b} ELSE {}) /\ N = {h} \cup IF out THEN {g} ELSE {}
  BY <1>0, <1>7, <1>9, <1>10, <1>11
<1>18. (\A x \in ended : Object(x) # p) /\ (\A x \in ended : Object(x) # b)
  BY <1>14, <1>15, EndedAreOthers
<1>19. X \cap open = {} /\ \A x \in X : x.type # "file"  BY <1>14, <1>15, <1>17
<1>20. \A k \in N : ForIn(k, {}) \subseteq X /\ \A x \in ended : Object(k) # Object(x)
  BY <1>12, <1>13, <1>16, <1>17, <1>18
<1>21. \A k, l \in N : \A x \in ForIn(k, {}) : x \in ForIn(l, {}) => k = l
  BY <1>14, <1>15, <1>16, <1>17
<1>22. \A x \in X : \E k \in N : x \in ForIn(k, {})  BY <1>16, <1>17
<1>23. N \subseteq Nat  BY <1>12, <1>13, <1>17
<1> QED  BY <1>19, <1>20, <1>21, <1>22, <1>23 DEF New

LEMMA SpawnKept == ASSUME StepInv, HandleInv, Few, PidsFit, NEW w \in Workers, Spawn(w) PROVE Kept
<1>0. Len(ops) < MaxOps /\ pc' = pc /\ EndsNow' = EndsNow  BY SameEnds DEF Spawn, CanStart
<1>n. PICK n : n = Len(ops) + 1  OBVIOUS
<1>1. CASE Resolve("spawn", {}) /\ UNCHANGED objects
  <2>1. n \in Ids /\ AnswersNow[n] = {} /\ AnswersNow' = [AnswersNow EXCEPT ![n] = {}]
    BY <1>0, <1>n, <1>1, ResolveAnswers
  <2>2. AnswersNow' = AnswersNow  BY <2>1 DEF AnswersNow
  <2> QED  BY <1>0, <1>1, <2>2, SameKept
<1>2. ASSUME NEW in \in BOOLEAN, NEW out \in BOOLEAN, NEW pid \in Pids,
             NEW infd, infd = IF in THEN Least("fd", open) ELSE NoFd,
             NEW piped, piped = IF in THEN {[type |-> "fd", n |-> infd]} ELSE {},
             NEW outfd, outfd = Least("fd", open \cup piped),
             [type |-> "proc", n |-> pid] \notin open,
             open' = open \cup piped \cup {[type |-> "proc", n |-> pid]}
                          \cup (IF out THEN {[type |-> "fd", n |-> outfd]} ELSE {}),
             Resolve("spawn", {ProcHandle(pid, infd)} \cup IF out THEN {FdHandle(outfd)} ELSE {}),
             UNCHANGED <<mine, ended, lost>>
      PROVE  Kept
  <2>1. PICK N : N = {ProcHandle(pid, infd)} \cup IF out THEN {FdHandle(outfd)} ELSE {}  OBVIOUS
  <2>2. PICK X : X = piped \cup {[type |-> "proc", n |-> pid]}
                       \cup (IF out THEN {[type |-> "fd", n |-> outfd]} ELSE {})
    OBVIOUS
  <2>3. New(N, ended, open, X) /\ \A x \in X : x.type # "file"
    <3>1. Spawns(in, out, pid, infd, piped, outfd, X, N)  BY <1>2, <2>1, <2>2 DEF Spawns
    <3>2. TypeOK  BY DEF StepInv
    <3> QED  BY <3>1, <3>2, SpawnNew
  <2>4. Resolve("spawn", N) /\ open' = open \cup X  BY <1>2, <2>1, <2>2
  <2>5. n \in Ids /\ AnswersNow[n] = {} /\ AnswersNow' = [AnswersNow EXCEPT ![n] = N]
    BY <1>0, <1>n, <2>4, ResolveAnswers
  <2>6. Spent'
    <3>1. ended \subseteq Nat /\ open' \subseteq open \cup X /\ \A x \in X : x.type # "file"
      BY <2>3, <2>4 DEF StepInv, TypeOK
    <3> QED  BY <1>2, <3>1, FilesStaySpent DEF HandleInv
  <2> QED  BY <1>0, <1>2, <2>3, <2>4, <2>5, <2>6, AnswerKept
<1> QED  BY <1>1, <1>2 DEF Spawn

LEMMA CompleteKept == ASSUME StepInv, HandleInv, Few, NEW i \in Ids, Complete(i) PROVE Kept
<1>1. async[i] = "pending" /\ async' = [async EXCEPT ![i] = "done"]
      /\ UNCHANGED <<ops, ready, results, over, mine, ended, lost, pc>>
  BY DEF Complete
<1>2. i \in Started /\ Started' = Started /\ answer[i] = {} /\ i \notin over  BY <1>1 DEF StepInv, Blank, Started
<1>3. async'[i] = "done" /\ \A j \in Ids \ {i} : async'[j] = async[j]  BY <1>1 DEF StepInv, TypeOK
<1>4. Avail(i)' /\ \A j \in Ids \ {i} : Avail(j)' <=> Avail(j)  BY <1>1, <1>2, <1>3 DEF Avail
<1>5. AnswersNow[i] = {}  BY <1>2 DEF AnswersNow
<1>6. EndsNow' = EndsNow  BY <1>1, SameEnds
<1>7. CASE open' = open \cup {Net} /\ answer' = [answer EXCEPT ![i] = {HandleOf(Net)}]
  <2>1. PICK h : h = HandleOf(Net)  OBVIOUS
  <2>2. PICK x : x = Net  OBVIOUS
  <2>3. answer'[i] = {h} /\ \A j \in Ids \ {i} : answer'[j] = answer[j]  BY <1>7, <2>1 DEF StepInv, TypeOK
  <2>4. AnswersNow' = [AnswersNow EXCEPT ![i] = IF Avail(i)' THEN answer'[i] ELSE {}]
    BY <1>4, <2>3, AnswersBut
  <2>5. AnswersNow' = [AnswersNow EXCEPT ![i] = {h}]  BY <1>4, <2>3, <2>4
  <2>6. New({h}, ended, open, {x})  BY <2>1, <2>2, NetNew DEF StepInv
  <2>7. Spent'  BY <1>1, <1>7, NetSpent DEF StepInv
  <2>8. open' = open \cup {x}  BY <1>7, <2>2
  <2> QED  BY <1>1, <1>5, <1>6, <2>5, <2>6, <2>7, <2>8, AnswerKept
<1>8. CASE UNCHANGED <<open, answer>>
  <2>1. AnswersNow' = [AnswersNow EXCEPT ![i] = IF Avail(i)' THEN answer'[i] ELSE {}]
    BY <1>4, <1>8, AnswersBut
  <2>2. AnswersNow' = AnswersNow  BY <1>2, <1>4, <1>5, <1>8, <2>1 DEF AnswersNow
  <2> QED  BY <1>1, <1>6, <1>8, <2>2, SameKept DEF objects
<1> QED  BY <1>7, <1>8 DEF Complete

\* A worker that goes on to something else than bringing a result.
LEMMA WorkerKept ==
  ASSUME StepInv, HandleInv, NEW w \in Workers, pc[w].at # "result",
         pc' = pc \/ \E r : r.at # "result" /\ pc' = [pc EXCEPT ![w] = r],
         UNCHANGED objects, UNCHANGED <<ops, async, answer, ready, results, over>>
  PROVE  Kept
<1>1. EndsNow' = EndsNow  BY EndsSame DEF StepInv
<1> QED  BY <1>1, QuietKept

LEMMA FilesKept ==
  ASSUME StepInv, HandleInv, UNCHANGED <<pc, objects, answers, ops>>
  PROVE  Kept
<1>1. EndsNow' = EndsNow /\ UNCHANGED <<ops, async, answer, ready, results, over>>  BY SameEnds DEF answers
<1> QED  BY <1>1, QuietKept

LEMMA CreateKept == ASSUME StepInv, HandleInv, NEW w \in Workers, NEW u \in Uploads, Create(w, u) PROVE Kept
BY FilesKept DEF Create
LEMMA WriteKept == ASSUME StepInv, HandleInv, NEW w \in Workers, NEW u \in Uploads, Write(w, u) PROVE Kept
BY FilesKept DEF Write
LEMMA CloseUploadKept == ASSUME StepInv, HandleInv, NEW w \in Workers, NEW u \in Uploads, CloseUpload(w, u) PROVE Kept
BY FilesKept DEF CloseUpload

LEMMA IdleIsNoResult == ASSUME NEW w \in Workers, pc[w] = Idle PROVE pc[w].at # "result"
BY DEF Idle

LEMMA EndMarkerKept == ASSUME StepInv, HandleInv, NEW w \in Workers, NEW u \in Uploads, EndMarker(w, u) PROVE Kept
<1>1. pc[w].at # "result"  BY IdleIsNoResult DEF EndMarker
<1>2. pc' = pc \/ \E r : r.at # "result" /\ pc' = [pc EXCEPT ![w] = r]  BY DEF EndMarker
<1>3. UNCHANGED objects /\ UNCHANGED <<ops, async, answer, ready, results, over>>  BY DEF EndMarker
<1> QED  BY <1>1, <1>2, <1>3, WorkerKept

LEMMA EndStagedKept == ASSUME StepInv, HandleInv, NEW w \in Workers, EndStaged(w) PROVE Kept
<1>1. pc[w].at # "result"  BY DEF EndStaged
<1>2. \E r : r.at # "result" /\ pc' = [pc EXCEPT ![w] = r]
  <2>1. pc' = [pc EXCEPT ![w] = [pc[w] EXCEPT !.at = "body"]]  BY DEF EndStaged, StepInv, TypeOK
  <2>2. pc[w] \in [at : {"staged", "body"}, u : Uploads, id : Ids]  BY PcIs DEF EndStaged, StepInv
  <2>3. [pc[w] EXCEPT !.at = "body"].at = "body"  BY <2>2
  <2> QED  BY <2>1, <2>3
<1>3. UNCHANGED objects /\ UNCHANGED <<ops, async, answer, ready, results, over>>  BY DEF EndStaged, answers
<1> QED  BY <1>1, <1>2, <1>3, WorkerKept

LEMMA EndBodyKept == ASSUME StepInv, HandleInv, NEW w \in Workers, EndBody(w) PROVE Kept
<1>1. pc[w].at # "result"  BY DEF EndBody
<1>2. \E r : r.at # "result" /\ pc' = [pc EXCEPT ![w] = r]
  BY DEF EndBody
<1>3. UNCHANGED objects /\ UNCHANGED <<ops, async, answer, ready, results, over>>  BY DEF EndBody, answers
<1> QED  BY <1>1, <1>2, <1>3, WorkerKept

LEMMA EndResolveKept == ASSUME StepInv, HandleInv, NEW w \in Workers, EndResolve(w) PROVE Kept
<1>1. pc[w].at # "result"  BY DEF EndResolve
<1>2. \E r : r.at # "result" /\ pc' = [pc EXCEPT ![w] = r]
  BY ThenIs, IdleIs DEF EndResolve, StepInv
<1>3. UNCHANGED objects /\ UNCHANGED <<ops, async, answer, ready, results, over>>  BY DEF EndResolve
<1> QED  BY <1>1, <1>2, <1>3, WorkerKept

LEMMA WaitCompletionKept == ASSUME StepInv, HandleInv, NEW w \in Workers, WaitCompletion(w) PROVE Kept
<1>1. pc[w].at # "result"  BY IdleIsNoResult DEF WaitCompletion
<1>2. \E r : r.at # "result" /\ pc' = [pc EXCEPT ![w] = r]
  BY DEF WaitCompletion
<1>3. UNCHANGED objects /\ UNCHANGED <<ops, async, answer, ready, results, over>>  BY DEF WaitCompletion
<1> QED  BY <1>1, <1>2, <1>3, WorkerKept

LEMMA PublishKept == ASSUME StepInv, HandleInv, NEW w \in Workers, NEW u \in Uploads, Publish(w, u) PROVE Kept
<1>0. Len(ops) < MaxOps /\ pc' = pc /\ EndsNow' = EndsNow  BY SameEnds DEF Publish, CanStart
<1>1. CASE Synthetic("put")  BY <1>0, <1>1, SyntheticKept
<1>n. PICK n : n = Len(ops) + 1  OBVIOUS
<1>k. PICK k : k = Len(ops) + 2  OBVIOUS
<1>2. n \in Ids \ Started /\ Len(ops) \in Nat /\ Started = 1..Len(ops)  BY <1>0, <1>n, IdsAre DEF StepInv
<1>3. \A j \in Ids \ Started : /\ j \notin results \cup over /\ \A v \in Workers : j \notin ready[v]
                               /\ answer[j] = {}
  BY DEF StepInv, Blank
<1>4. CASE /\ ops' = Append(ops, "publish")
           /\ async' = [async EXCEPT ![n] = "held"]
           /\ UNCHANGED <<answer, ready, results, over, objects>>
  <2>1. Started' = Started \cup {n}  BY <1>n, <1>2, <1>4 DEF Started, StepInv, TypeOK
  <2>2. async'[n] = "held" /\ \A j \in Ids \ {n} : async'[j] = async[j]  BY <1>2, <1>4 DEF StepInv, TypeOK
  <2>3. \A i \in Ids : Avail(i)' <=> Avail(i)  BY <1>2, <1>3, <1>4, <2>1, <2>2 DEF Avail
  <2>4. AnswersNow' = AnswersNow  BY <1>4, <2>3, AnswersSame
  <2> QED  BY <1>0, <1>4, <2>4, SameKept
<1>5. CASE /\ k <= MaxOps
           /\ ops' = ops \o <<"lost", "put">>
           /\ async' = [async EXCEPT ![n] = "held", ![k] = "done"]
           /\ over' = over \cup {n}
           /\ UNCHANGED <<answer, ready, results, objects>>
  <2>1. k \in Ids \ Started /\ k # n  BY <1>n, <1>k, <1>2, <1>5, HostAssumption DEF Ids
  <2>2. Started' = Started \cup {n, k}
    <3>1. ops \in Seq({"get", "put", "spawn", "publish", "lost"})  BY DEF StepInv, TypeOK
    <3>2. Len(ops') = k  BY <1>k, <1>5, <3>1
    <3> QED  BY <1>n, <1>k, <1>2, <3>2 DEF Started
  <2>3. async'[n] = "held" /\ \A j \in Ids \ {n, k} : async'[j] = async[j]  BY <1>2, <1>5, <2>1 DEF StepInv, TypeOK
  <2>4. \A i \in Ids \ {k} : Avail(i)' <=> Avail(i)  BY <1>2, <1>3, <1>5, <2>1, <2>2, <2>3 DEF Avail
  <2>5. AnswersNow' = [AnswersNow EXCEPT ![k] = IF Avail(k)' THEN answer'[k] ELSE {}]
    BY <1>5, <2>1, <2>4, AnswersBut
  <2>6. answer'[k] = {} /\ AnswersNow[k] = {}  BY <1>3, <1>5, <2>1 DEF AnswersNow
  <2>7. AnswersNow' = AnswersNow  BY <2>5, <2>6 DEF AnswersNow
  <2> QED  BY <1>0, <1>5, <2>7, SameKept
<1> QED  BY <1>1, <1>n, <1>k, <1>4, <1>5 DEF Publish

LEMMA EndSendKept == ASSUME StepInv, HandleInv, Few, NEW w \in Workers, EndSend(w) PROVE Kept
<1>1. UNCHANGED <<ops, async, answer, ready, results, over, mine, ended, lost>> /\ pc[w].at = "send"
  BY DEF EndSend, answers
<1>2. AnswersNow' = AnswersNow  BY <1>1, KeepsAvail, AnswersSame
<1>3. PICK o \in {Net, File} : /\ open' = open \cup {o}
                               /\ pc' = [pc EXCEPT ![w] = [at |-> "result", id |-> pc[w].id, handle |-> HandleOf(o)]]
  BY DEF EndSend, Steps
<1>4. PICK h : h = HandleOf(o)  OBVIOUS
<1>5. pc'[w].at = "result" /\ pc'[w].handle = h /\ \A v \in Workers \ {w} : pc'[v] = pc[v]
  BY <1>3, <1>4 DEF StepInv, TypeOK
<1>6. EndsNow[w] = {}  BY <1>1 DEF EndsNow
<1>7. EndsNow' = [EndsNow EXCEPT ![w] = {h}]
  <2> PICK E : E = EndsNow  OBVIOUS
  <2>1. E = [v \in Workers |-> E[v]] /\ DOMAIN E = Workers
        /\ \A v \in Workers : E[v] = IF pc[v].at = "result" THEN {pc[v].handle} ELSE {}
    BY DEF EndsNow
  <2>2. \A v \in Workers : (IF pc'[v].at = "result" THEN {pc'[v].handle} ELSE {}) = [E EXCEPT ![w] = {h}][v]
    BY <1>5, <2>1
  <2>3. [E EXCEPT ![w] = {h}] = [v \in Workers |-> [E EXCEPT ![w] = {h}][v]]  BY <2>1
  <2>4. EndsNow' = [v \in Workers |-> IF pc'[v].at = "result" THEN {pc'[v].handle} ELSE {}]  BY DEF EndsNow
  <2> QED  BY <2>2, <2>3, <2>4
<1>8. New({h}, ended, open, {o}) /\ Spent'
  <2>1. CASE o = Net
    <3>1. New({h}, ended, open, {o})  BY <1>4, <2>1, NetNew DEF StepInv
    <3>2. Spent'  BY <1>1, <1>3, <2>1, NetSpent DEF StepInv
    <3> QED  BY <3>1, <3>2
  <2>2. CASE o = File
    <3>1. New({h}, ended, open, {o})  BY <1>4, <2>2, FileNew DEF StepInv
    <3>2. Spent'  BY <1>1, <1>3, <2>2, FileSpent DEF StepInv
    <3> QED  BY <3>1, <3>2
  <2> QED  BY <2>1, <2>2
<1>9. open' = open \cup {o} /\ UNCHANGED <<mine, ended, lost>>  BY <1>1, <1>3
<1> QED  BY <1>2, <1>6, <1>7, <1>8, <1>9, EndKept

LEMMA NowDomains == DOMAIN AnswersNow = Ids /\ DOMAIN EndsNow = Workers  BY DEF AnswersNow, EndsNow

LEMMA ReadGives ==
  ASSUME NEW i \in Ids, mine' = mine \cup AnswersNow[i], lost' = lost,
         AnswersNow' = [AnswersNow EXCEPT ![i] = {}], EndsNow' = EndsNow
  PROVE  Held' = Given(Held, Answer(i), Pnpm)
<1>1. PICK M, A, R, L : M = mine /\ A = AnswersNow /\ R = EndsNow /\ L = lost /\ DOMAIN A = Ids  BY NowDomains
<1>2. PICK S, B : S = M \cup A[i] /\ B = With(A, i, {})  OBVIOUS
<1>3. Held = Holding(M, A, R, L) /\ Held' = Holding(S, B, R, L)  BY <1>1, <1>2 DEF Held, With
<1>4. Holding(S, B, R, L) = With(Holding(M, B, R, L), Pnpm, S)  BY HoldMine
<1>5. Holding(M, B, R, L) = With(Holding(M, A, R, L), Answer(i), {})  BY <1>1, <1>2, HoldAnswer
<1>6. PICK G : G = Held  OBVIOUS
<1>7. Held' = With(With(G, Answer(i), {}), Pnpm, S)  BY <1>3, <1>4, <1>5, <1>6
<1>8. S = G[Pnpm] \cup G[Answer(i)] /\ Answer(i) # Pnpm /\ DOMAIN G = Places
      /\ Answer(i) \in Places /\ Pnpm \in Places
  BY <1>1, <1>2, <1>3, <1>6, HoldingIs, PlacesAre
<1>9. With(With(G, Answer(i), {}), Pnpm, S) = Given(G, Answer(i), Pnpm)
  BY <1>8 DEF With, Given
<1> QED  BY <1>6, <1>7, <1>9

LEMMA EndGives ==
  ASSUME NEW i \in Ids, NEW w \in Workers, UNCHANGED <<mine, lost>>, AnswersNow[i] = {},
         AnswersNow' = [AnswersNow EXCEPT ![i] = EndsNow[w]], EndsNow' = [EndsNow EXCEPT ![w] = {}]
  PROVE  Held' = Given(Held, EndOf(w), Answer(i))
<1>1. PICK M, A, R, L : M = mine /\ A = AnswersNow /\ R = EndsNow /\ L = lost /\ DOMAIN A = Ids /\ DOMAIN R = Workers
  BY NowDomains
<1>2. PICK S, B, Q : S = R[w] /\ B = With(A, i, S) /\ Q = With(R, w, {})  OBVIOUS
<1>3. Held = Holding(M, A, R, L) /\ Held' = Holding(M, B, Q, L)  BY <1>1, <1>2 DEF Held, With
<1>4. Holding(M, B, Q, L) = With(Holding(M, B, R, L), EndOf(w), {})  BY <1>1, <1>2, HoldEnd
<1>5. Holding(M, B, R, L) = With(Holding(M, A, R, L), Answer(i), S)  BY <1>1, <1>2, HoldAnswer
<1>6. PICK G : G = Held  OBVIOUS
<1>7. Held' = With(With(G, Answer(i), S), EndOf(w), {})  BY <1>3, <1>4, <1>5, <1>6
<1>8. S = G[Answer(i)] \cup G[EndOf(w)] /\ Answer(i) # EndOf(w) /\ DOMAIN G = Places
      /\ Answer(i) \in Places /\ EndOf(w) \in Places
  BY <1>1, <1>2, <1>3, <1>6, HoldingIs, PlacesAre
<1>9. With(With(G, Answer(i), S), EndOf(w), {}) = Given(G, EndOf(w), Answer(i))
  BY <1>8 DEF With, Given
<1> QED  BY <1>6, <1>7, <1>9

\* What the host loses: an answer, the result of a publish.
LEMMA AnswerLost ==
  ASSUME NEW i \in Ids, lost' = lost \cup AnswersNow[i], mine' = mine,
         AnswersNow' = [AnswersNow EXCEPT ![i] = {}], EndsNow' = EndsNow
  PROVE  Held' = Given(Held, Answer(i), Lost)
<1>1. PICK M, A, R, L : M = mine /\ A = AnswersNow /\ R = EndsNow /\ L = lost /\ DOMAIN A = Ids  BY NowDomains
<1>2. PICK S, B : S = L \cup A[i] /\ B = With(A, i, {})  OBVIOUS
<1>3. Held = Holding(M, A, R, L) /\ Held' = Holding(M, B, R, S)  BY <1>1, <1>2 DEF Held, With
<1>4. Holding(M, B, R, S) = With(Holding(M, B, R, L), Lost, S)  BY HoldLost
<1>5. Holding(M, B, R, L) = With(Holding(M, A, R, L), Answer(i), {})  BY <1>1, <1>2, HoldAnswer
<1>6. PICK G : G = Held  OBVIOUS
<1>7. Held' = With(With(G, Answer(i), {}), Lost, S)  BY <1>3, <1>4, <1>5, <1>6
<1>8. S = G[Lost] \cup G[Answer(i)] /\ Answer(i) # Lost /\ DOMAIN G = Places
      /\ Answer(i) \in Places /\ Lost \in Places
  BY <1>1, <1>2, <1>3, <1>6, HoldingIs, PlacesAre
<1>9. With(With(G, Answer(i), {}), Lost, S) = Given(G, Answer(i), Lost)
  BY <1>8 DEF With, Given
<1> QED  BY <1>6, <1>7, <1>9

LEMMA EndLost ==
  ASSUME NEW w \in Workers, lost' = lost \cup EndsNow[w], mine' = mine,
         EndsNow' = [EndsNow EXCEPT ![w] = {}], AnswersNow' = AnswersNow
  PROVE  Held' = Given(Held, EndOf(w), Lost)
<1>1. PICK M, A, R, L : M = mine /\ A = AnswersNow /\ R = EndsNow /\ L = lost /\ DOMAIN R = Workers
  BY NowDomains
<1>2. PICK S, Q : S = L \cup R[w] /\ Q = With(R, w, {})  OBVIOUS
<1>3. Held = Holding(M, A, R, L) /\ Held' = Holding(M, A, Q, S)  BY <1>1, <1>2 DEF Held, With
<1>4. Holding(M, A, Q, S) = With(Holding(M, A, Q, L), Lost, S)  BY HoldLost
<1>5. Holding(M, A, Q, L) = With(Holding(M, A, R, L), EndOf(w), {})  BY <1>1, <1>2, HoldEnd
<1>6. PICK G : G = Held  OBVIOUS
<1>7. Held' = With(With(G, EndOf(w), {}), Lost, S)  BY <1>3, <1>4, <1>5, <1>6
<1>8. S = G[Lost] \cup G[EndOf(w)] /\ EndOf(w) # Lost /\ DOMAIN G = Places
      /\ EndOf(w) \in Places /\ Lost \in Places
  BY <1>1, <1>2, <1>3, <1>6, HoldingIs, PlacesAre
<1>9. With(With(G, EndOf(w), {}), Lost, S) = Given(G, EndOf(w), Lost)
  BY <1>8 DEF With, Given
<1> QED  BY <1>6, <1>7, <1>9

LEMMA OverAnswers ==
  ASSUME StepInv, NEW w \in Workers, NEW i \in Ids, ops' = ops, over' = over \cup {i},
         answer' = [answer EXCEPT ![i] = {}],
         results' \cup {i} = results \cup {i}, ready' = [ready EXCEPT ![w] = @ \ {i}],
         \A j \in Ids \ {i} : async'[j] = async[j]
  PROVE  AnswersNow' = [AnswersNow EXCEPT ![i] = {}]
<1>1. Started' = Started  BY DEF Started
<1>2. \A j \in Ids \ {i} : \A v \in Workers : j \in ready'[v] <=> j \in ready[v]  BY DEF StepInv, TypeOK
<1>3. \A j \in Ids \ {i} : (j \in results' <=> j \in results) /\ (j \in over' <=> j \in over)  OBVIOUS
<1>4. \A j \in Ids \ {i} : Avail(j)' <=> Avail(j)  BY <1>1, <1>2, <1>3 DEF Avail
<1>5. ~Avail(i)'  BY DEF Avail
<1>6. \A j \in Ids \ {i} : answer'[j] = answer[j]  BY DEF StepInv, TypeOK
<1>7. AnswersNow' = [AnswersNow EXCEPT ![i] = IF Avail(i)' THEN answer'[i] ELSE {}]
  BY <1>4, <1>6, AnswersBut
<1> QED  BY <1>5, <1>7

LEMMA ResponseLenKept == ASSUME StepInv, HandleInv, NEW w \in Workers, NEW i \in Ids, ResponseLen(w, i) PROVE Kept
<1>1. UNCHANGED <<open, mine, ended>>  BY DEF ResponseLen
<1>2. EndsNow' = EndsNow
  <2>1. pc[w].at # "result"  BY DEF ResponseLen, Asking
  <2>2. pc' = pc \/ \E r : r.at # "result" /\ pc' = [pc EXCEPT ![w] = r]
    BY AskedIs DEF ResponseLen, StepInv
  <2> QED  BY <2>1, <2>2, EndsSame DEF StepInv
<1>3. \A j \in Ids : Avail(j)' <=> Avail(j)
  BY ResponseLenAvail DEF StepInv
<1>4. CASE UNCHANGED <<answer, lost>>
  <2>1. AnswersNow' = AnswersNow  BY <1>3, <1>4, AnswersSame
  <2> QED  BY <1>1, <1>2, <1>4, <2>1, SameKept DEF objects
<1>5. CASE async[i] = "done" /\ answer' = [answer EXCEPT ![i] = {}] /\ lost' = lost \cup answer[i]
  <2>1. i \in Started /\ i \notin over  BY <1>5 DEF StepInv, Blank
  <2>2. Avail(i)  BY <1>5, <2>1 DEF Avail
  <2>3. AnswersNow[i] = answer[i]  BY <2>2 DEF AnswersNow
  <2>4. answer'[i] = {} /\ \A j \in Ids \ {i} : answer'[j] = answer[j]  BY <1>5 DEF StepInv, TypeOK
  <2>5. AnswersNow' = [AnswersNow EXCEPT ![i] = IF Avail(i)' THEN answer'[i] ELSE {}]
    BY <1>3, <2>4, AnswersBut
  <2>6. AnswersNow' = [AnswersNow EXCEPT ![i] = {}]  BY <2>4, <2>5
  <2>7. Held' = Given(Held, Answer(i), Lost)  BY <1>1, <1>2, <1>5, <2>3, <2>6, AnswerLost
  <2>8. Answer(i) \in Places /\ Lost \in Places /\ Answer(i) # Lost /\ Answer(i) # Pnpm  BY PlacesAre
  <2> QED  BY <1>1, <2>7, <2>8, GivenKept
<1> QED  BY <1>4, <1>5 DEF ResponseLen

LEMMA EndFailsKept == ASSUME StepInv, HandleInv, NEW w \in Workers, EndFails(w) PROVE Kept
<1>1. /\ UNCHANGED <<ops, async, answer, ready, results, over, open, mine, ended>>
      /\ pc' = [pc EXCEPT ![w] = Idle] /\ Idle.at # "result"
  BY IdleIs DEF EndFails
<1>2. CASE pc[w].at = "result"
  <2>1. PICK h : h = pc[w].handle  OBVIOUS
  <2>2. EndsNow[w] = {h} /\ EndsNow' = [EndsNow EXCEPT ![w] = {}]
    BY <1>1, <1>2, <2>1, EndsGone DEF StepInv
  <2>3. AnswersNow' = AnswersNow  BY <1>1, KeepsAvail, AnswersSame
  <2>4. lost' = lost \cup EndsNow[w]  BY <1>2, <2>1, <2>2 DEF EndFails
  <2>5. Held' = Given(Held, EndOf(w), Lost)  BY <1>1, <2>2, <2>3, <2>4, EndLost
  <2>6. EndOf(w) \in Places /\ Lost \in Places /\ EndOf(w) # Lost /\ EndOf(w) # Pnpm  BY PlacesAre
  <2> QED  BY <1>1, <2>5, <2>6, GivenKept
<1>3. CASE pc[w].at # "result"
  <2>1. UNCHANGED objects  BY <1>1, <1>3 DEF EndFails, objects
  <2> QED  BY <1>1, <1>3, <2>1, WorkerKept
<1> QED  BY <1>2, <1>3

LEMMA ResponseReadKept == ASSUME StepInv, HandleInv, NEW w \in Workers, NEW i \in Ids, ResponseRead(w, i) PROVE Kept
<1>1. /\ ready' = [ready EXCEPT ![w] = @ \ {i}] /\ over' = over \cup {i} /\ mine' = mine \cup answer[i]
      /\ UNCHANGED <<ops, async, results, open, ended, lost>> /\ answer' = [answer EXCEPT ![i] = {}]
      /\ i \in ready[w] /\ i \notin over
  BY DEF ResponseRead
<1>2. Avail(i)
  <2>1. i \in Started  BY <1>1 DEF StepInv, Blank
  <2> QED  BY <1>1, <2>1 DEF Avail
<1>3. AnswersNow[i] = answer[i]  BY <1>2 DEF AnswersNow
<1>4. AnswersNow' = [AnswersNow EXCEPT ![i] = {}]  BY <1>1, OverAnswers
<1>5. EndsNow' = EndsNow
  <2>1. pc[w].at # "result"  BY DEF ResponseRead, Asking
  <2>2. \E r : r.at # "result" /\ pc' = [pc EXCEPT ![w] = r]
    BY AskedIs DEF ResponseRead, StepInv
  <2> QED  BY <2>1, <2>2, EndsSame DEF StepInv
<1>6. Held' = Given(Held, Answer(i), Pnpm)  BY <1>1, <1>3, <1>4, <1>5, ReadGives
<1>7. Answer(i) \in Places /\ Pnpm \in Places /\ Answer(i) # Pnpm  BY PlacesAre
<1> QED  BY <1>1, <1>6, <1>7, GivenKept

LEMMA EndResultKept == ASSUME StepInv, HandleInv, NEW w \in Workers, EndResult(w) PROVE Kept
<1>1. PICK i \in Ids : i = pc[w].id  BY PcIs DEF EndResult, StepInv
<1>2. PICK h : h = pc[w].handle  OBVIOUS
<1>3. /\ results' = results \cup {i} /\ answer' = [answer EXCEPT ![i] = {h}] /\ pc[w].at = "result"
      /\ UNCHANGED <<ops, async, ready, over, open, mine, ended, lost>>
  BY <1>1, <1>2 DEF EndResult, objects
<1>4. i \in Started /\ ~Avail(i)  BY <1>1, <1>3 DEF StepInv, Senders, Sends, SenderOf, Waits
<1>5. Started' = Started  BY <1>3 DEF Started
<1>6. \A j \in Ids \ {i} : (Avail(j)' <=> Avail(j)) /\ answer'[j] = answer[j]
  BY <1>3, <1>5 DEF Avail, StepInv, TypeOK
<1>7. AnswersNow' = [AnswersNow EXCEPT ![i] = IF Avail(i)' THEN answer'[i] ELSE {}]
  BY <1>6, AnswersBut
<1>8. AnswersNow[i] = {} /\ answer'[i] = {h}  BY <1>3, <1>4 DEF AnswersNow, StepInv, TypeOK
<1>9. EndsNow[w] = {h} /\ EndsNow' = [EndsNow EXCEPT ![w] = {}]
  <2>1. PICK r : r.at # "result" /\ pc' = [pc EXCEPT ![w] = r]
    BY <1>3, ThenIs DEF EndResult, StepInv
  <2> QED  BY <1>2, <1>3, <2>1, EndsGone DEF StepInv
<1>10. EndOf(w) \in Places /\ Answer(i) \in Places /\ EndOf(w) # Answer(i) /\ EndOf(w) # Pnpm /\ Pnpm \in Places
  BY PlacesAre
<1>11. CASE i \notin over
  <2>1. Avail(i)'  BY <1>3, <1>4, <1>5, <1>11 DEF Avail
  <2>2. AnswersNow' = [AnswersNow EXCEPT ![i] = EndsNow[w]]  BY <1>7, <1>8, <1>9, <2>1
  <2>3. Held' = Given(Held, EndOf(w), Answer(i))  BY <1>3, <1>8, <1>9, <2>2, EndGives
  <2> QED  BY <1>3, <1>10, <2>3, GivenKept
\* Nobody waits for it any more: the connection stays open.
<1>12. CASE i \in over
  <2>1. ~Avail(i)'  BY <1>3, <1>12 DEF Avail
  <2>2. AnswersNow' = AnswersNow  BY <1>7, <1>8, <2>1 DEF AnswersNow
  <2>3. Held' = [Held EXCEPT ![EndOf(w)] = {}]
    <3>1. PICK R : R = EndsNow /\ DOMAIN R = Workers  BY NowDomains
    <3>2. PICK M, A, L : M = mine /\ A = AnswersNow /\ L = lost  OBVIOUS
    <3>3. Held = Holding(M, A, R, L)  BY <3>1, <3>2 DEF Held
    <3>4. Held' = Holding(M, A, With(R, w, {}), L)  BY <1>3, <1>9, <2>2, <3>1, <3>2 DEF Held, With
    <3>5. Holding(M, A, With(R, w, {}), L) = With(Holding(M, A, R, L), EndOf(w), {})
      BY <3>1, HoldEnd
    <3> QED  BY <3>3, <3>4, <3>5 DEF With
  <2>4. PICK G : G = Held  OBVIOUS
  <2>5. G[EndOf(w)] = {h}  BY <1>9, <2>4, HeldIs
  <2>6. Held' = Closed(G, EndOf(w), {h})  BY <2>3, <2>4, <2>5 DEF Closed
  <2>7. ended' = ended \ {h}
    <3>1. h \notin G[Pnpm]  BY <1>10, <2>4, <2>5 DEF HandleInv, Good, OnePlace
    <3>2. ended \subseteq G[Pnpm]  BY <2>4 DEF HandleInv, Good
    <3> QED  BY <1>3, <3>1, <3>2
  <2>8. ~Tight  BY <1>1, <1>3, <1>12 DEF Tight, Wanted, Waits
  <2>9. PICK N, X : N = {h} /\ X = {}  OBVIOUS
  <2>10. /\ N \subseteq Held[EndOf(w)] /\ \A x \in X : \E k \in N : x \in ForIn(k, ended)
         /\ (Tight => \A k \in N : ForIn(k, ended) \subseteq X)
         /\ Held' = Closed(Held, EndOf(w), N) /\ ended' = ended \ N /\ open' = open \ X
    BY <1>3, <2>4, <2>5, <2>6, <2>7, <2>8, <2>9
  <2> QED  BY <1>10, <2>10, ClosedKept
<1> QED  BY <1>11, <1>12

\* An answer that is closed, but for the stdin of the children in it.
LEMMA AnswerLeft ==
  ASSUME NEW i \in Ids, NEW L, lost' = lost \cup L, mine' = mine,
         AnswersNow' = [AnswersNow EXCEPT ![i] = {}], EndsNow' = EndsNow
  PROVE  Held' = Left(Held, Answer(i), AnswersNow[i], L)
<1>1. PICK M, A, R, K : M = mine /\ A = AnswersNow /\ R = EndsNow /\ K = lost /\ DOMAIN A = Ids  BY NowDomains
<1>2. PICK S, B : S = K \cup L /\ B = With(A, i, {})  OBVIOUS
<1>3. Held = Holding(M, A, R, K) /\ Held' = Holding(M, B, R, S)  BY <1>1, <1>2 DEF Held, With
<1>4. Holding(M, B, R, S) = With(Holding(M, B, R, K), Lost, S)  BY HoldLost
<1>5. Holding(M, B, R, K) = With(Holding(M, A, R, K), Answer(i), {})  BY <1>1, <1>2, HoldAnswer
<1>6. PICK G : G = Held  OBVIOUS
<1>7. Held' = With(With(G, Answer(i), {}), Lost, S)  BY <1>3, <1>4, <1>5, <1>6
<1>8. S = G[Lost] \cup L /\ G[Answer(i)] = AnswersNow[i] /\ Answer(i) # Lost /\ DOMAIN G = Places
      /\ Answer(i) \in Places /\ Lost \in Places
  BY <1>1, <1>2, <1>3, <1>6, HoldingIs, PlacesAre
<1>9. PICK N : N = AnswersNow[i]  OBVIOUS
<1>10. With(With(G, Answer(i), {}), Lost, S) = Left(G, Answer(i), N, L)
  BY <1>8, <1>9 DEF With, Left, Closed
<1> QED  BY <1>6, <1>7, <1>9, <1>10

LEMMA CancelKept == ASSUME StepInv, HandleInv, NEW w \in Workers, NEW i \in Ids, Cancel(w, i) PROVE Kept
<1>1. /\ i \in Started \ over /\ over' = over \cup {i} /\ results' = results \ {i}
      /\ ready' = [ready EXCEPT ![w] = @ \ {i}] /\ async' = [async EXCEPT ![i] = "gone"]
      /\ answer' = [answer EXCEPT ![i] = {}] /\ UNCHANGED <<ops, mine, ended>>
  BY DEF Cancel
<1>2. AnswersNow' = [AnswersNow EXCEPT ![i] = {}]
  <2>1. results' \cup {i} = results \cup {i} /\ \A j \in Ids \ {i} : async'[j] = async[j]
    BY <1>1 DEF StepInv, TypeOK
  <2> QED  BY <1>1, <2>1, OverAnswers
<1>3. EndsNow' = EndsNow
  <2>1. pc[w].at # "result"  BY IdleIsNoResult DEF Cancel, Asking
  <2>2. pc' = pc \/ \E r : r.at # "result" /\ pc' = [pc EXCEPT ![w] = r]
    BY AskedIs DEF Cancel, StepInv
  <2> QED  BY <2>1, <2>2, EndsSame DEF StepInv
<1>4. PICK N : N = AnswersNow[i]  OBVIOUS
<1>5. Answer(i) \in Places /\ Lost \in Places /\ Answer(i) # Lost /\ Answer(i) # Pnpm /\ Pnpm \in Places
      /\ N \subseteq Held[Answer(i)]
  BY <1>4, HeldIs, PlacesAre
<1>6. CASE /\ i \in results \cup ready[w] \/ Requested(i)
           /\ open' = open \ ClosedUnread(i)
           /\ lost' = lost \cup UNION {StdinLeft(h) : h \in answer[i]}
  <2>1. Avail(i)  BY <1>1, <1>6 DEF Avail, Requested
  <2>2. N = answer[i]  BY <1>4, <2>1 DEF AnswersNow
  <2>3. PICK L, X : L = UNION {StdinLeft(h) : h \in N} /\ X = {Object(h) : h \in N}  OBVIOUS
  <2>4. open' = open \ X /\ lost' = lost \cup L  BY <1>6, <2>2, <2>3 DEF ClosedUnread
  <2>5. N \cap ended = {}  BY <1>5 DEF HandleInv, Good, OnePlace
  <2>6. Held' = Left(Held, Answer(i), AnswersNow[i], L)  BY <1>1, <1>2, <1>3, <2>4, AnswerLeft
  <2>7. Held' = Left(Held, Answer(i), N, L)  BY <1>4, <2>6
  <2> QED  BY <1>1, <1>5, <2>3, <2>4, <2>5, <2>7, LeavesKept
<1>7. CASE async[i] = "done" /\ lost' = lost \cup answer[i] /\ open' = open
  <2>1. Avail(i)  BY <1>1, <1>7 DEF Avail
  <2>2. AnswersNow[i] = answer[i]  BY <2>1 DEF AnswersNow
  <2>3. Held' = Given(Held, Answer(i), Lost)  BY <1>1, <1>2, <1>3, <1>7, <2>2, AnswerLost
  <2> QED  BY <1>1, <1>5, <1>7, <2>3, GivenKept
<1>8. CASE i \notin results \cup ready[w] /\ async[i] # "done" /\ UNCHANGED <<open, lost>>
  <2>1. \A v \in Workers : i \notin ready[v]  BY <1>8 DEF Cancel, AskedOf
  <2>2. ~Avail(i)  BY <1>8, <2>1 DEF Avail
  <2>3. AnswersNow[i] = {}  BY <2>2 DEF AnswersNow
  <2>4. AnswersNow' = AnswersNow  BY <1>2, <2>3 DEF AnswersNow
  <2> QED  BY <1>1, <1>3, <1>8, <2>4, SameKept DEF objects
<1> QED  BY <1>6, <1>7, <1>8 DEF Cancel

LEMMA CloseKept == ASSUME StepInv, HandleInv, NEW w \in Workers, NEW h \in mine, Close(w, h) PROVE Kept
<1>1. /\ mine' = mine \ {h} /\ ended' = ended \ {h} /\ open' = open \ {Object(h)}
      /\ UNCHANGED <<ops, async, answer, ready, results, over, pc>>
  BY DEF Close, answers
<1>2. AnswersNow' = AnswersNow /\ EndsNow' = EndsNow  BY <1>1, KeepsAvail, AnswersSame, SameEnds
<1>3. PICK N : N = {h}  OBVIOUS
<1>4. Pnpm \in Places /\ Lost \in Places /\ Lost # Pnpm /\ N \subseteq Held[Pnpm]  BY <1>3, HeldIs, PlacesAre
<1>5. ASSUME NEW K, lost' = K PROVE Held' = [Closed(Held, Pnpm, N) EXCEPT ![Lost] = K]
  <2>1. PICK M, A, R, L, S : M = mine /\ A = AnswersNow /\ R = EndsNow /\ L = lost /\ S = M \ N  OBVIOUS
  <2>2. Held = Holding(M, A, R, L) /\ Held' = Holding(S, A, R, K)  BY <1>1, <1>2, <1>3, <1>5, <2>1 DEF Held
  <2>3. Holding(S, A, R, L) = With(Holding(M, A, R, L), Pnpm, S)  BY HoldMine
  <2>4. Holding(S, A, R, K) = With(Holding(S, A, R, L), Lost, K)  BY HoldLost
  <2>5. PICK G : G = Held  OBVIOUS
  <2>6. G[Pnpm] = M  BY <2>1, <2>5, HeldIs
  <2>7. Held' = With(With(G, Pnpm, S), Lost, K)  BY <2>2, <2>3, <2>4, <2>5
  <2> QED  BY <2>1, <2>5, <2>6, <2>7 DEF With, Closed
<1>6. CASE h \in ended
  <2>1. PICK X : X = ForIn(h, ended) \cap {Object(h)}  OBVIOUS
  <2>2. open' = open \ X
    <3>1. CASE ~IsSynthetic(h)  BY <1>1, <2>1, <3>1, ObjectIsFor
    <3>2. CASE IsSynthetic(h)
      <4>1. Object(h) \notin open  BY <1>6, <3>2 DEF HandleInv, Spent
      <4> QED  BY <1>1, <2>1, <4>1
    <3> QED  BY <3>1, <3>2
  <2>3. Held' = Closed(Held, Pnpm, N)
    <3>1. PICK L : L = lost  OBVIOUS
    <3>2. lost' = L  BY <1>6, <3>1 DEF Close
    <3>3. Held' = [Closed(Held, Pnpm, N) EXCEPT ![Lost] = L]  BY <1>5, <3>2
    <3>4. PICK G : G = Held  OBVIOUS
    <3>5. G[Lost] = L /\ DOMAIN G = Places  BY <3>1, <3>4, HeldIs, HoldingIs DEF Held
    <3>6. PICK H : H = Closed(G, Pnpm, N)  OBVIOUS
    <3>7. H[Lost] = L /\ DOMAIN H = Places /\ H = [p \in DOMAIN H |-> H[p]]
      BY <1>4, <3>5, <3>6 DEF Closed
    <3>8. [H EXCEPT ![Lost] = L] = H  BY <3>7
    <3> QED  BY <3>3, <3>4, <3>6, <3>8
  <2>4. \A x \in X : \E g \in N : x \in ForIn(g, ended)  BY <1>3, <2>1
  <2>5. Tight => \A g \in N : ForIn(g, ended) \subseteq X  BY <1>3, <1>6, <2>1 DEF ForIn
  <2>6. ended' = ended \ N  BY <1>1, <1>3
  <2> QED  BY <1>4, <2>2, <2>3, <2>4, <2>5, <2>6, ClosedKept
<1>7. CASE h \notin ended
  <2>1. PICK L, X : L = UNION {StdinLeft(g) : g \in N} /\ X = {Object(g) : g \in N}  OBVIOUS
  <2>2. open' = open \ X /\ ended' = ended /\ N \cap ended = {}  BY <1>1, <1>3, <1>7, <2>1
  <2>3. Held' = Left(Held, Pnpm, N, L)
    <3>1. PICK K : K = lost \cup L  OBVIOUS
    <3>2. L = StdinLeft(h)  BY <1>3, <2>1
    <3>3. lost' = K  BY <1>7, <3>1, <3>2 DEF Close
    <3>4. Held' = [Closed(Held, Pnpm, N) EXCEPT ![Lost] = K]  BY <1>5, <3>3
    <3>5. PICK G : G = Held  OBVIOUS
    <3>6. G[Lost] = lost  BY <3>5, HeldIs
    <3>7. Closed(G, Pnpm, N)[Lost] = lost  BY <1>4, <3>6 DEF Closed
    <3>8. PICK H : H = Closed(G, Pnpm, N)  OBVIOUS
    <3>9. [H EXCEPT ![Lost] = K] = [H EXCEPT ![Lost] = @ \cup L]  BY <3>1, <3>7, <3>8
    <3> QED  BY <3>4, <3>5, <3>8, <3>9 DEF Left
  <2> QED  BY <1>4, <2>1, <2>2, <2>3, LeavesKept
<1> QED  BY <1>6, <1>7

LEMMA SameHeld ==
  ASSUME UNCHANGED <<mine, lost, answers, ops, pc>>
  PROVE  Held' = Held
<1>1. UNCHANGED <<ops, async, answer, ready, results, over, mine, lost>> /\ EndsNow' = EndsNow
  BY SameEnds DEF answers
<1>2. AnswersNow' = AnswersNow  BY <1>1, KeepsAvail, AnswersSame
<1> QED  BY <1>1, <1>2 DEF Held

LEMMA CloseStdinKept == ASSUME StepInv, HandleInv, NEW w \in Workers, NEW h \in mine, CloseStdin(w, h) PROVE Kept
<1>1. h \notin ended /\ Stdin(h) # {} /\ ended' = ended \cup {h} /\ open' = open \ Stdin(h)
  BY DEF CloseStdin
<1>2. Held' = Held  BY SameHeld DEF CloseStdin
<1>3. ~IsSynthetic(h)
  <2>1. h \in Nat  BY DEF StepInv, TypeOK
  <2> QED  BY <1>1, <2>1, FilesAreSynthetic
<1>4. Object(h) \notin Stdin(h)
  <2>1. IsProcHandle(h) /\ ~IsFdHandle(h)
    <3>1. IsProcHandle(h) /\ h \in Nat  BY <1>1 DEF Stdin, StepInv, TypeOK
    <3> QED  BY <3>1, SMT DEF IsProcHandle, IsFdHandle, PROC_HANDLE, FD_HANDLE
  <2>2. Object(h).type = "proc"  BY <2>1 DEF Object
  <2>3. \A x \in Stdin(h) : x.type = "fd"  BY DEF Stdin
  <2> QED  BY <2>2, <2>3
<1>5. ForIn(h, ended) \ ForIn(h, ended \cup {h}) = Stdin(h)  BY <1>1, <1>3, <1>4 DEF ForIn
<1> QED  BY <1>1, <1>2, <1>3, <1>5, EndedKept

LEMMA ReadSyntheticKept == ASSUME StepInv, HandleInv, NEW w \in Workers, NEW h \in mine, ReadSynthetic(w, h) PROVE Kept
<1>1. h \notin ended /\ IsSynthetic(h) /\ ended' = ended \cup {h} /\ open' = open \ {Object(h)}
  BY DEF ReadSynthetic
<1>2. Held' = Held  BY SameHeld DEF ReadSynthetic
<1>3. Stdin(h) = {}
  <2>1. h \in Nat  BY DEF StepInv, TypeOK
  <2> QED  BY <1>1, <2>1, FilesAreSynthetic
<1>4. ForIn(h, ended) \ ForIn(h, ended \cup {h}) = {Object(h)}  BY <1>1, <1>3 DEF ForIn
<1>5. Object(h) \notin open'  BY <1>1
<1> QED  BY <1>1, <1>2, <1>4, <1>5, EndedKept

LEMMA StutterKept == ASSUME StepInv, HandleInv, UNCHANGED vars PROVE Kept
BY FilesKept DEF vars

LEMMA KeptNext == ASSUME StepInv, HandleInv, Few, PidsFit, [Next]_vars PROVE Kept
<1>1. CASE UNCHANGED vars  BY <1>1, StutterKept
<1>2. ASSUME NEW i \in Ids, Complete(i) PROVE Kept  BY <1>2, CompleteKept
<1>3. ASSUME NEW w \in Workers, Start(w) PROVE Kept
  BY <1>3, GetKept, PutKept, SpawnKept, CreateKept, WriteKept, PublishKept, EndMarkerKept DEF Start
<1>4. ASSUME NEW w \in Workers, Ending(w) PROVE Kept
  BY <1>4, EndStagedKept, EndBodyKept, EndSendKept, EndResultKept, EndResolveKept,
     EndFailsKept
     DEF Ending
<1>5. ASSUME NEW w \in Workers, Asks(w) PROVE Kept
  BY <1>5, WaitCompletionKept, ResponseLenKept, ResponseReadKept DEF Asks
<1>6. ASSUME NEW w \in Workers, Drops(w) PROVE Kept
  BY <1>6, CancelKept, CloseKept, CloseStdinKept, ReadSyntheticKept, CloseUploadKept DEF Drops
<1> QED  BY <1>1, <1>2, <1>3, <1>4, <1>5, <1>6 DEF Next

LEMMA WantedFrame ==
  ASSUME Wanted, \A v \in Workers : Waits(v)' => Waits(v) /\ pc'[v].id = pc[v].id,
         \A v \in Workers : Waits(v) => pc[v].id \in over \/ pc[v].id \notin over'
  PROVE  Wanted'
BY DEF Wanted

LEMMA WantedSame == ASSUME Wanted, UNCHANGED <<pc, over>> PROVE Wanted'
BY WantedFrame DEF Waits

LEMMA WaitsAre == ASSUME StepInv, NEW v \in Workers, Waits(v) PROVE pc[v].id \in Started /\ ~Avail(pc[v].id)
BY DEF StepInv, Senders, SenderOf, Sends, Waits

LEMMA WantedQuiet ==
  ASSUME StepInv, Wanted, NEW w \in Workers, NEW r, r.at \in {"idle", "ask", "resolve"},
         pc' = [pc EXCEPT ![w] = r] \/ pc' = pc,
         \A v \in Workers : Waits(v) => pc[v].id \in over \/ pc[v].id \notin over'
  PROVE  Wanted'
<1>1. pc \in [Workers -> Pcs]  BY DEF StepInv, TypeOK
<1>2. \A v \in Workers : Waits(v)' => Waits(v) /\ pc'[v].id = pc[v].id
  <2> SUFFICES ASSUME NEW v \in Workers, Waits(v)' PROVE Waits(v) /\ pc'[v].id = pc[v].id  OBVIOUS
  <2>1. CASE v = w /\ pc' = [pc EXCEPT ![w] = r]
    <3>1. pc'[v] = r  BY <1>1, <2>1
    <3> QED  BY <3>1 DEF Waits
  <2>2. CASE v # w \/ pc' = pc
    <3>1. pc'[v] = pc[v]  BY <1>1, <2>2
    <3> QED  BY <3>1 DEF Waits
  <2> QED  BY <2>1, <2>2
<1> QED  BY <1>2, WantedFrame

LEMMA WantedMoves ==
  ASSUME StepInv, Wanted, over' = over, NEW w \in Workers, Waits(w), pc'[w].id = pc[w].id,
         \A v \in Workers \ {w} : pc'[v] = pc[v]
  PROVE  Wanted'
<1>1. \A v \in Workers : Waits(v)' => Waits(v) /\ pc'[v].id = pc[v].id
  <2> SUFFICES ASSUME NEW v \in Workers, Waits(v)' PROVE Waits(v) /\ pc'[v].id = pc[v].id  OBVIOUS
  <2>1. CASE v = w  BY <2>1
  <2>2. CASE v # w  BY <2>2 DEF Waits
  <2> QED  BY <2>1, <2>2
<1> QED  BY <1>1, WantedFrame

LEMMA WantedNext == ASSUME StepInv, Wanted, "upload.end" \in Careful, [Next]_vars PROVE Wanted'
<1>0. pc \in [Workers -> Pcs]  BY DEF StepInv, TypeOK
<1>1. CASE UNCHANGED vars  BY <1>1, WantedSame DEF vars, answers
<1>2. ASSUME NEW i \in Ids, Complete(i) PROVE Wanted'  BY <1>2, WantedSame DEF Complete
<1>3. ASSUME NEW w \in Workers, Start(w) PROVE Wanted'
  <2>1. CASE Get(w) \/ Put(w) \/ Spawn(w)
    BY <2>1, WantedSame DEF Get, Put, Spawn, Synthetic, Resolve
  <2>2. ASSUME NEW u \in Uploads, Create(w, u) \/ Write(w, u) PROVE Wanted'
    BY <2>2, WantedSame DEF Create, Write, answers
  <2>3. ASSUME NEW u \in Uploads, Publish(w, u) PROVE Wanted'
    <3>1. pc' = pc /\ (over' = over \/ over' = over \cup {Len(ops) + 1})
      BY <2>3 DEF Publish, Synthetic, Resolve
    <3>2. Len(ops) + 1 \notin Started  BY <2>3, IdsAre DEF Publish, CanStart, StepInv
    <3>3. \A v \in Workers : Waits(v) => pc[v].id \in over \/ pc[v].id \notin over'
      BY <3>1, <3>2, WaitsAre
    <3> QED  BY <3>1, <3>3, WantedFrame DEF Waits
  <2>4. ASSUME NEW u \in Uploads, EndMarker(w, u) PROVE Wanted'
    <3>1. over' = over /\ upload[u].id \notin over  BY <2>4 DEF EndMarker
    <3>2. CASE pc' = pc  BY <3>1, <3>2, WantedSame
    <3>3. CASE upload[u].marker # 0 /\ pc' = [pc EXCEPT ![w] = [at |-> "staged", u |-> u, id |-> upload[u].marker]]
      <4>1. pc'[w].id = upload[u].id  BY <1>0, <3>3 DEF StepInv, Staged, UploadOf
      <4>2. \A v \in Workers \ {w} : pc'[v] = pc[v]  BY <1>0, <3>3
      <4> QED  BY <3>1, <4>1, <4>2 DEF Wanted, Waits
    <3> QED  BY <2>4, <3>2, <3>3 DEF EndMarker
  <2> QED  BY <1>3, <2>1, <2>2, <2>3, <2>4 DEF Start
<1>4. ASSUME NEW w \in Workers, Ending(w) PROVE Wanted'
  <2>1. CASE EndStaged(w)
    <3>1. over' = over /\ Waits(w)  BY <2>1 DEF EndStaged, answers, Waits
    <3>2. pc[w] \in [at : {"staged", "body"}, u : Uploads, id : Ids]  BY <2>1, PcIs DEF EndStaged, StepInv
    <3>3. pc'[w].id = pc[w].id /\ \A v \in Workers \ {w} : pc'[v] = pc[v]  BY <1>0, <2>1, <3>2 DEF EndStaged
    <3> QED  BY <3>1, <3>3, WantedMoves
  <2>2. CASE EndBody(w)
    <3>1. over' = over /\ Waits(w)  BY <2>2 DEF EndBody, answers, Waits
    <3>2. pc'[w].id = pc[w].id /\ \A v \in Workers \ {w} : pc'[v] = pc[v]  BY <1>0, <2>2 DEF EndBody
    <3> QED  BY <3>1, <3>2, WantedMoves
  <2>3. CASE EndSend(w)
    <3>1. over' = over /\ Waits(w)  BY <2>3 DEF EndSend, answers, Waits
    <3>2. pc'[w].id = pc[w].id /\ \A v \in Workers \ {w} : pc'[v] = pc[v]  BY <1>0, <2>3 DEF EndSend
    <3> QED  BY <3>1, <3>2, WantedMoves
  <2>4. CASE EndResult(w) \/ EndResolve(w)
    <3>1. over' = over  BY <2>4 DEF EndResult, EndResolve
    <3>2. PICK r : r.at \in {"idle", "resolve"} /\ pc' = [pc EXCEPT ![w] = r]
      BY <2>4, ThenIs, IdleIs DEF EndResult, EndResolve, StepInv
    <3>9. /\ r.at \in {"idle", "ask", "resolve"} /\ (pc' = [pc EXCEPT ![w] = r] \/ pc' = pc)
          /\ \A v \in Workers : Waits(v) => pc[v].id \in over \/ pc[v].id \notin over'
      BY <3>1, <3>2
    <3> QED  BY <3>9, WantedQuiet
  <2>5. CASE EndFails(w)
    <3>1. over' = over /\ pc' = [pc EXCEPT ![w] = Idle]  BY <2>5 DEF EndFails
    <3>9. /\ Idle.at \in {"idle", "ask", "resolve"} /\ (pc' = [pc EXCEPT ![w] = Idle] \/ pc' = pc)
          /\ \A v \in Workers : Waits(v) => pc[v].id \in over \/ pc[v].id \notin over'
      BY <3>1, IdleIs
    <3> QED  BY <3>9, WantedQuiet
  <2> QED  BY <1>4, <2>1, <2>2, <2>3, <2>4, <2>5 DEF Ending
<1>5. ASSUME NEW w \in Workers, Asks(w) PROVE Wanted'
  <2>1. CASE WaitCompletion(w)
    <3>1. over' = over  BY <2>1 DEF WaitCompletion
    <3>2. PICK r : r.at = "ask" /\ pc' = [pc EXCEPT ![w] = r]  BY <2>1 DEF WaitCompletion
    <3>9. /\ r.at \in {"idle", "ask", "resolve"} /\ (pc' = [pc EXCEPT ![w] = r] \/ pc' = pc)
          /\ \A v \in Workers : Waits(v) => pc[v].id \in over \/ pc[v].id \notin over'
      BY <3>1, <3>2
    <3> QED  BY <3>9, WantedQuiet
  <2>2. ASSUME NEW i \in Ids, ResponseLen(w, i) PROVE Wanted'
    <3>1. over' = over  BY <2>2 DEF ResponseLen
    <3>2. CASE Asked(w, i)
      <4>1. PICK r : r.at \in {"idle", "ask"} /\ pc' = [pc EXCEPT ![w] = r]
        BY <2>2, <3>2, AskedIs DEF ResponseLen, StepInv
      <4>9. /\ r.at \in {"idle", "ask", "resolve"} /\ (pc' = [pc EXCEPT ![w] = r] \/ pc' = pc)
            /\ \A v \in Workers : Waits(v) => pc[v].id \in over \/ pc[v].id \notin over'
        BY <3>1, <4>1
      <4> QED  BY <4>9, WantedQuiet
    <3>3. CASE pc' = pc  BY <3>1, <3>3, WantedSame
    <3> QED  BY <2>2, <3>2, <3>3 DEF ResponseLen
  <2>3. ASSUME NEW i \in Ids, ResponseRead(w, i) PROVE Wanted'
    <3>1. over' = over \cup {i} /\ i \in ready[w] /\ i \notin over  BY <2>3 DEF ResponseRead
    <3>2. Avail(i)  BY <3>1 DEF Avail, StepInv, Blank
    <3>3. \A v \in Workers : Waits(v) => pc[v].id \in over \/ pc[v].id \notin over'
      <4> SUFFICES ASSUME NEW v \in Workers, Waits(v), pc[v].id = i PROVE FALSE  BY <3>1
      <4>1. ~Avail(pc[v].id)  BY WaitsAre
      <4> QED  BY <3>2, <4>1
    <3>4. PICK r : r.at \in {"idle", "ask"} /\ pc' = [pc EXCEPT ![w] = r]
      BY <2>3, AskedIs DEF ResponseRead, StepInv
    <3>9. /\ r.at \in {"idle", "ask", "resolve"} /\ (pc' = [pc EXCEPT ![w] = r] \/ pc' = pc)
          /\ \A v \in Workers : Waits(v) => pc[v].id \in over \/ pc[v].id \notin over'
      BY <3>3, <3>4
    <3> QED  BY <3>9, WantedQuiet
  <2> QED  BY <1>5, <2>1, <2>2, <2>3 DEF Asks
<1>6. ASSUME NEW w \in Workers, Drops(w) PROVE Wanted'
  <2>1. ASSUME NEW i \in Ids, Cancel(w, i) PROVE Wanted'
    <3>1. over' = over \cup {i} /\ i \notin Sending  BY <2>1 DEF Cancel
    <3>2. \A v \in Workers : Waits(v) => pc[v].id \in over \/ pc[v].id \notin over'
      BY <3>1 DEF Sending, Waits
    <3>3. PICK r : r.at \in {"idle", "ask"} /\ (pc' = [pc EXCEPT ![w] = r] \/ pc' = pc)
      <4>1. CASE pc[w] = Idle  BY <2>1, <4>1, IdleIs DEF Cancel
      <4>2. CASE pc[w] # Idle  BY <2>1, <4>2, AskedIs DEF Cancel, StepInv
      <4> QED  BY <4>1, <4>2
    <3> QED  BY <3>2, <3>3, WantedQuiet
  <2>2. ASSUME NEW h \in mine, Close(w, h) \/ CloseStdin(w, h) \/ ReadSynthetic(w, h) PROVE Wanted'
    BY <2>2, WantedSame DEF Close, CloseStdin, ReadSynthetic, answers
  <2>3. ASSUME NEW u \in Uploads, CloseUpload(w, u) PROVE Wanted'
    BY <2>3, WantedSame DEF CloseUpload, answers
  <2> QED  BY <1>6, <2>1, <2>2, <2>3 DEF Drops
<1> QED  BY <1>1, <1>2, <1>3, <1>4, <1>5, <1>6 DEF Next

-----------------------------------------------------------------------------

LEMMA HandleInit == Init => HandleInv /\ Wanted /\ Covers(Held, ended, open)
<1> SUFFICES ASSUME Init PROVE HandleInv /\ Wanted /\ Covers(Held, ended, open)  OBVIOUS
<1>1. open = {} /\ mine = {} /\ ended = {} /\ lost = {} /\ \A w \in Workers : pc[w] = Idle  BY DEF Init
<1>2. \A i \in Ids : ~Avail(i)  BY DEF Init, Avail, Started
<1>3. \A i \in Ids : AnswersNow[i] = {}  BY <1>2 DEF AnswersNow
<1>4. \A w \in Workers : EndsNow[w] = {}  BY <1>1, IdleIsNoResult DEF EndsNow
<1>5. PICK G : G = Held  OBVIOUS
<1>6. \A p \in Places : G[p] = {}
  <2>1. G[Pnpm] = {} /\ G[Lost] = {} /\ (\A i \in Ids : G[Answer(i)] = {}) /\ (\A w \in Workers : G[EndOf(w)] = {})
    BY <1>1, <1>3, <1>4, <1>5, HeldIs
  <2> QED  BY <2>1 DEF Places
<1>7. DOMAIN G = Places /\ G = [p \in Places |-> G[p]]  BY <1>5 DEF Held, Holding
<1>8. G \in [Places -> SUBSET Nat]  BY <1>6, <1>7
<1>9. Good(G, {}, {})
  BY <1>6, <1>8 DEF Good, OnePlace, OpenFor, Apart
<1>10. Spent /\ Covers(G, {}, {})  BY <1>1 DEF Spent, Covers
<1>11. Wanted  BY <1>1 DEF Wanted, Waits, Idle
<1> QED  BY <1>1, <1>5, <1>9, <1>10, <1>11 DEF HandleInv

LEMMA ReachableIs ==
  ASSUME TypeOK
  PROVE  \A h : h \in Reachable <=> \E p \in Places : p # Lost /\ h \in Held[p]
<1>1. \A h : h \in Answers <=> \E i \in Ids : h \in AnswersNow[i]
  <2>1. Started \subseteq Ids  BY IdsAre
  <2>2. Answers = UNION {answer[i] : i \in {j \in Ids : Avail(j)}}  BY <2>1 DEF Answers, Avail
  <2>3. \A i \in Ids : AnswersNow[i] = IF Avail(i) THEN answer[i] ELSE {}  BY DEF AnswersNow
  <2> QED  BY <2>2, <2>3
<1>2. \A h : h \in InEnd <=> \E w \in Workers : h \in EndsNow[w]
  BY DEF InEnd, EndsNow
<1>3. PICK G : G = Held  OBVIOUS
<1>4. /\ G[Pnpm] = mine /\ \A i \in Ids : G[Answer(i)] = AnswersNow[i]
      /\ \A w \in Workers : G[EndOf(w)] = EndsNow[w]
  BY <1>3, HeldIs
<1>5. \A p : p \in Places /\ p # Lost <=>
             p = Pnpm \/ (\E i \in Ids : p = Answer(i)) \/ \E w \in Workers : p = EndOf(w)
  BY PlacesAre DEF Places
<1>6. \A h : (\E p \in Places : p # Lost /\ h \in G[p])
             <=> h \in mine \/ (\E i \in Ids : h \in AnswersNow[i]) \/ \E w \in Workers : h \in EndsNow[w]
  BY <1>4, <1>5
<1> QED  BY <1>1, <1>2, <1>3, <1>6 DEF Reachable

LEMMA ForIs == \A h : For(h) = ForIn(h, ended)
BY DEF For, ForIn

LEMMA HandlesFromInv == ASSUME TypeOK, HandleInv PROVE HandlesHold
<1>1. \A h \in Reachable : For(h) \subseteq open
  BY ReachableIs, ForIs DEF HandleInv, Good, OpenFor
<1>2. ASSUME NEW g \in Reachable, NEW h \in Reachable, For(g) \cap For(h) # {} PROVE g = h
  <2>1. PICK p \in Places : g \in Held[p]  BY ReachableIs
  <2>2. PICK q \in Places : h \in Held[q]  BY ReachableIs
  <2>3. PICK x : x \in ForIn(g, ended) /\ x \in ForIn(h, ended)  BY <1>2, ForIs
  <2> QED  BY <2>1, <2>2, <2>3 DEF HandleInv, Good, Apart
<1> QED  BY <1>1, <1>2 DEF HandlesHold

LEMMA NoLeakFromCovers == ASSUME TypeOK, HandleInv, Covers(Held, ended, open) PROVE NoLeak
<1>1. Lost \in Places /\ Held[Lost] = lost  BY PlacesAre, HeldIs
<1>2. ASSUME NEW o \in open PROVE \E h \in Reachable \cup lost : o \in For(h)
  <2>1. PICK p \in Places : \E h \in Held[p] : o \in ForIn(h, ended)  BY DEF Covers
  <2>2. PICK h \in Held[p] : o \in ForIn(h, ended)  BY <2>1
  <2>3. h \in Reachable \cup lost  BY <1>1, ReachableIs
  <2> QED  BY <2>2, <2>3, ForIs
<1>3. ASSUME NEW h \in lost PROVE For(h) \subseteq open
  BY <1>1, ForIs DEF HandleInv, Good, OpenFor
<1>4. ASSUME NEW h \in lost, NEW g \in Reachable, NEW x \in For(g) \cap For(h) PROVE FALSE
  <2>1. PICK p \in Places : p # Lost /\ g \in Held[p]  BY ReachableIs
  <2>2. h \in Held[Lost]  BY <1>1
  <2>3. x \in ForIn(g, ended) /\ x \in ForIn(h, ended)  BY ForIs
  <2>4. g = h  BY <1>1, <2>1, <2>2, <2>3 DEF HandleInv, Good, Apart
  <2> QED  BY <1>1, <2>1, <2>2, <2>4 DEF HandleInv, Good, OnePlace
<1> QED  BY <1>2, <1>3, <1>4 DEF NoLeak

\* Without any care of pnpm's: as long as the kernel's objects and pids fit the
\* numbers that a child's handle packs them in (pnpm-host.mjs:394-418), what a
\* handle that pnpm has or can still read is for is open, and no two handles are
\* for one thing.
THEOREM HandlesHolding ==
  ASSUME PidsFit
  PROVE  Spec /\ []Few => []HandlesHold
<1>1. Init => HandleInv  BY HandleInit
<1>2. StepInv /\ Few /\ HandleInv /\ [Next]_vars => HandleInv'  BY KeptNext DEF Kept
<1>3. StepInv /\ HandleInv => HandlesHold  BY HandlesFromInv DEF StepInv
<1>4. Spec => []StepInv  BY StepsCorrect
<1> QED  BY <1>1, <1>2, <1>3, <1>4, PTL DEF Spec

\* When pnpm does not cancel a publish or end its upload while "upload.end" sends
\* it, everything open is something pnpm has the handle of or can still read, or
\* one of the handles that the host itself loses: an answer that operation_cancel
\* drops unasked (pnpm-host.mjs:806-813), the stdin of a child it closes
\* (654-659, 769-779), an answer over the limit (765), a result that cannot be
\* written (547, 727-731).  Nothing else leaks, and no lost one comes back under
\* another handle.
THEOREM NothingLeaks ==
  ASSUME PidsFit, "upload.end" \in Careful
  PROVE  Spec /\ []Few => []NoLeak
<1> DEFINE Inv == HandleInv /\ Wanted /\ Covers(Held, ended, open)
<1>1. Init => Inv  BY HandleInit
<1>2. StepInv /\ Few /\ Inv /\ [Next]_vars => Inv'
  <2> SUFFICES ASSUME StepInv, Few, Inv, [Next]_vars PROVE Inv'  OBVIOUS
  <2>1. Tight  BY DEF Tight
  <2>2. Kept  BY KeptNext
  <2>3. Wanted'  BY WantedNext
  <2> QED  BY <2>1, <2>2, <2>3 DEF Kept
<1>3. StepInv /\ Inv => NoLeak  BY NoLeakFromCovers DEF StepInv
<1>4. Spec => []StepInv  BY StepsCorrect
<1> HIDE DEF Inv
<1> QED  BY <1>1, <1>2, <1>3, <1>4, PTL DEF Spec

-----------------------------------------------------------------------------
(* What is sent is what pnpm wrote                                         *)

\* What sending n chunks sends; the markers there are.
Whole(n) == [k \in 1..n |-> k]
Marked == {upload[u].marker : u \in Uploads} \ {0}
\* Until it is closed or ended an upload has what was written to it, and what is
\* sent is that; a worker in the end of one carries all of it along.
FillOf(u) ==
  /\ ~upload[u].left => upload[u].chunks = Whole(upload[u].wrote)
  /\ upload[u].id # 0 => sent[upload[u].id] \in {<<>>, <<Whole(upload[u].wrote)>>}
MidOf(w) ==
  /\ pc[w].at \in {"staged", "body"} =>
       upload[pc[w].u].dir /\ upload[pc[w].u].chunks = Whole(upload[pc[w].u].wrote)
  /\ pc[w].at = "staged" => upload[pc[w].u].marker = pc[w].id
  /\ pc[w].at = "send" => pc[w].body = Whole(upload[pc[w].u].wrote)
WholeInv ==
  /\ \A u \in Uploads : FillOf(u)
  /\ \A w \in Workers : MidOf(w)
  /\ blocks = Marked

LEMMA WholeInit == Init => WholeInv
<1> SUFFICES ASSUME Init PROVE WholeInv  OBVIOUS
<1>1. \A u \in Uploads : upload[u] = NoUpload  BY DEF Init
<1>2. \A u \in Uploads : FillOf(u)
  <2>1. Whole(0) = <<>>  BY DEF Whole
  <2> QED  BY <1>1, <2>1 DEF FillOf, NoUpload
<1>3. \A w \in Workers : MidOf(w)  BY DEF Init, MidOf, Idle
<1>4. Marked = {}  BY <1>1 DEF Marked, NoUpload
<1> QED  BY <1>2, <1>3, <1>4 DEF WholeInv, Init

LEMMA UploaderIs ==
  ASSUME StepInv, NEW w \in Workers, Uploading(w)
  PROVE  /\ pc[w].u \in Uploads /\ upload[pc[w].u].left /\ upload[pc[w].u].id = pc[w].id
         /\ pc[w].id \in Ids /\ pc[w].id # 0 /\ sent[pc[w].id] = <<>>
<1>1. SenderOf(w)  BY DEF StepInv, Senders, Sends, Uploading
<1>2. PICK i : i = pc[w].id /\ i \in Ids /\ i # 0  BY <1>1, IdsAre DEF SenderOf, StepInv
<1>3. PICK u \in Uploads : upload[u].id = i /\ upload[u].left /\ pc[w].u = u /\ sent[i] = <<>>
  BY <1>1, <1>2 DEF SenderOf
<1> QED  BY <1>2, <1>3

LEMMA UploadersDiffer ==
  ASSUME StepInv, NEW v \in Workers, NEW w \in Workers, Uploading(v), Uploading(w), pc[v].u = pc[w].u
  PROVE  v = w
<1>1. pc[v].id = pc[w].id  BY UploaderIs
<1> QED  BY <1>1 DEF StepInv, Senders, SenderOf, Sends, Uploading

LEMMA QuietUploading ==
  ASSUME TypeOK, NEW w \in Workers, NEW r, r.at \notin {"staged", "body", "send"},
         pc' = [pc EXCEPT ![w] = r] \/ pc' = pc
  PROVE  \A v \in Workers : Uploading(v)' => pc'[v] = pc[v]
<1> SUFFICES ASSUME NEW v \in Workers, Uploading(v)' PROVE pc'[v] = pc[v]  OBVIOUS
<1>1. pc \in [Workers -> Pcs]  BY DEF TypeOK
<1>2. CASE v = w /\ pc' = [pc EXCEPT ![w] = r]
  <2>1. pc'[v] = r  BY <1>1, <1>2
  <2> QED  BY <2>1 DEF Uploading
<1>3. CASE v # w \/ pc' = pc  BY <1>1, <1>3
<1> QED  BY <1>2, <1>3

LEMMA WholeFrame ==
  ASSUME WholeInv, UNCHANGED <<upload, blocks, sent>>, \A v \in Workers : Uploading(v)' => pc'[v] = pc[v]
  PROVE  WholeInv'
<1>1. \A u \in Uploads : FillOf(u)'  BY DEF WholeInv, FillOf
<1>2. ASSUME NEW v \in Workers PROVE MidOf(v)'
  <2>1. CASE Uploading(v)'
    <3>1. pc'[v] = pc[v]  BY <2>1
    <3> QED  BY <3>1 DEF WholeInv, MidOf
  <2>2. CASE ~Uploading(v)'  BY <2>2 DEF Uploading, MidOf
  <2> QED  BY <2>1, <2>2
<1>3. blocks' = Marked'  BY DEF WholeInv, Marked
<1> QED  BY <1>1, <1>2, <1>3 DEF WholeInv

LEMMA WholeSame == ASSUME WholeInv, UNCHANGED <<upload, blocks, sent, pc>> PROVE WholeInv'
BY WholeFrame

\* A step on an upload that nobody is sending.
LEMMA WholeFills ==
  ASSUME WholeInv, NEW u \in Uploads, \A x \in Uploads \ {u} : upload'[x] = upload[x],
         UNCHANGED <<sent, pc>>, \A v \in Workers : Uploading(v) => pc[v].u \in Uploads \ {u},
         FillOf(u)', blocks' = Marked'
  PROVE  WholeInv'
<1>1. ASSUME NEW x \in Uploads PROVE FillOf(x)'
  <2>1. CASE x = u  BY <2>1
  <2>2. CASE x # u
    <3>1. upload'[x] = upload[x]  BY <2>2
    <3> QED  BY <3>1 DEF WholeInv, FillOf
  <2> QED  BY <2>1, <2>2
<1>2. ASSUME NEW v \in Workers PROVE MidOf(v)'
  <2>1. CASE Uploading(v)
    <3>1. upload'[pc[v].u] = upload[pc[v].u]  BY <2>1
    <3> QED  BY <3>1 DEF WholeInv, MidOf
  <2>2. CASE ~Uploading(v)  BY <2>2 DEF Uploading, MidOf
  <2> QED  BY <2>1, <2>2
<1> QED  BY <1>1, <1>2 DEF WholeInv

LEMMA NotLeft ==
  ASSUME StepInv, NEW u \in Uploads, ~upload[u].left
  PROVE  \A v \in Workers : Uploading(v) => pc[v].u \in Uploads \ {u}
BY UploaderIs

LEMMA WholeCreate == ASSUME StepInv, WholeInv, NEW w \in Workers, NEW u \in Uploads, Create(w, u) PROVE WholeInv'
<1>1. upload \in [Uploads -> Dirs] /\ upload' = [upload EXCEPT ![u].dir = TRUE]
      /\ UNCHANGED <<sent, pc, blocks>> /\ ~upload[u].left
  BY DEF Create, StepInv, TypeOK
<1>2. /\ upload'[u].left = upload[u].left /\ upload'[u].chunks = upload[u].chunks
      /\ upload'[u].wrote = upload[u].wrote /\ upload'[u].id = upload[u].id
      /\ \A x \in Uploads : upload'[x].marker = upload[x].marker
      /\ \A x \in Uploads \ {u} : upload'[x] = upload[x]
  BY <1>1 DEF Dirs
<1>3. FillOf(u)'  BY <1>1, <1>2 DEF WholeInv, FillOf
<1>4. blocks' = Marked'  BY <1>1, <1>2 DEF WholeInv, Marked
<1> QED  BY <1>1, <1>2, <1>3, <1>4, NotLeft, WholeFills

LEMMA WholeWrite == ASSUME StepInv, WholeInv, NEW w \in Workers, NEW u \in Uploads, Write(w, u) PROVE WholeInv'
<1>1. upload \in [Uploads -> Dirs] /\ UNCHANGED <<sent, pc, blocks>> /\ ~upload[u].left
  BY DEF Write, StepInv, TypeOK
<1>2. PICK c : c = Append(upload[u].chunks, upload[u].wrote + 1)  OBVIOUS
<1>3. upload' = [upload EXCEPT ![u].chunks = c, ![u].wrote = @ + 1]  BY <1>2 DEF Write
<1>4. /\ upload'[u].left = upload[u].left /\ upload'[u].chunks = c
      /\ upload'[u].wrote = upload[u].wrote + 1 /\ upload'[u].id = upload[u].id
      /\ \A x \in Uploads : upload'[x].marker = upload[x].marker
      /\ \A x \in Uploads \ {u} : upload'[x] = upload[x]
  BY <1>1, <1>3 DEF Dirs
<1>5. c = Whole(upload[u].wrote + 1)
  <2>1. PICK n \in Nat : n = upload[u].wrote  BY <1>1 DEF Dirs
  <2>2. c = Append(Whole(n), n + 1)  BY <1>1, <1>2, <2>1 DEF WholeInv, FillOf
  <2>3. Append(Whole(n), n + 1) = Whole(n + 1)
    <3>1. Whole(n) \in Seq(Nat) /\ Len(Whole(n)) = n /\ Whole(n + 1) \in Seq(Nat) /\ Len(Whole(n + 1)) = n + 1
      BY DEF Whole
    <3>2. Append(Whole(n), n + 1) \in Seq(Nat) /\ Len(Append(Whole(n), n + 1)) = n + 1
      BY <3>1
    <3>3. \A k \in 1..(n + 1) : Append(Whole(n), n + 1)[k] = k
      <4>1. \A k \in 1..n : Whole(n)[k] = k  BY DEF Whole
      <4>2. \A k \in 1..n : Append(Whole(n), n + 1)[k] = Whole(n)[k]  BY <3>1
      <4>3. Append(Whole(n), n + 1)[n + 1] = n + 1  BY <3>1
      <4> QED  BY <4>1, <4>2, <4>3
    <3>4. \A k \in 1..(n + 1) : Whole(n + 1)[k] = k  BY DEF Whole
    <3>5. PICK a, b : a = Append(Whole(n), n + 1) /\ b = Whole(n + 1)  OBVIOUS
    <3> QED  BY <3>1, <3>2, <3>3, <3>4, <3>5, SeqEqual
  <2> QED  BY <2>1, <2>2, <2>3
<1>6. FillOf(u)'
  <2>1. upload[u].id # 0 => sent[upload[u].id] = <<>>  BY <1>1 DEF StepInv, Staged, UploadOf
  <2> QED  BY <1>1, <1>4, <1>5, <2>1 DEF FillOf
<1>7. blocks' = Marked'  BY <1>1, <1>4 DEF WholeInv, Marked
<1> QED  BY <1>1, <1>4, <1>6, <1>7, NotLeft, WholeFills

LEMMA WholePublish == ASSUME StepInv, WholeInv, NEW w \in Workers, NEW u \in Uploads, Publish(w, u) PROVE WholeInv'
<1>1. upload \in [Uploads -> Dirs] /\ UNCHANGED <<sent, pc>> /\ ~upload[u].left /\ upload[u].id = 0
  BY DEF Publish, StepInv, TypeOK
<1>2. upload[u].marker = 0  BY <1>1 DEF StepInv, Staged, UploadOf
<1>3. Len(ops) + 1 \in Ids \ Started  BY IdsAre DEF Publish, CanStart, StepInv
<1>4. PICK i \in Ids \ Started, m \in Ids \cup {0} :
        /\ upload' = [upload EXCEPT ![u].id = i, ![u].marker = m]
        /\ i # 0 /\ \/ m = 0 /\ blocks' = blocks
                    \/ m = i /\ blocks' = blocks \cup {m}
  <2> PICK n : n = Len(ops) + 1  OBVIOUS
  <2>1. n \in Ids \ Started /\ n # 0  BY <1>3, IdsAre DEF StepInv
  <2>2. \A i : [upload EXCEPT ![u].id = i] = [upload EXCEPT ![u].id = i, ![u].marker = 0]
    <3> SUFFICES ASSUME NEW i PROVE [upload EXCEPT ![u].id = i] = [upload EXCEPT ![u].id = i, ![u].marker = 0]
      OBVIOUS
    <3>1. upload[u] \in Dirs  BY <1>1
    <3>2. [upload[u] EXCEPT !.id = i] = [upload[u] EXCEPT !.id = i, !.marker = 0]  BY <1>2, <3>1 DEF Dirs
    <3> QED  BY <1>1, <3>2
  <2>3. CASE upload' = [upload EXCEPT ![u].id = n] /\ blocks' = blocks  BY <2>1, <2>2, <2>3
  <2>4. CASE upload' = [upload EXCEPT ![u].id = n, ![u].marker = n] /\ blocks' = blocks \cup {n}
    BY <2>1, <2>4
  <2>5. CASE upload' = [upload EXCEPT ![u].id = Len(ops) + 2] /\ blocks' = blocks /\ Len(ops) + 2 <= MaxOps
    <3>1. Len(ops) + 2 \in Ids \ Started /\ Len(ops) + 2 # 0
      BY <2>5, IdsAre, HostAssumption DEF StepInv, Ids
    <3> QED  BY <2>2, <2>5, <3>1
  <2> QED  BY <2>3, <2>4, <2>5 DEF Publish
<1>5. /\ upload'[u].left = upload[u].left /\ upload'[u].chunks = upload[u].chunks
      /\ upload'[u].wrote = upload[u].wrote /\ upload'[u].id = i /\ upload'[u].marker = m
      /\ \A x \in Uploads \ {u} : upload'[x] = upload[x]
  BY <1>1, <1>4 DEF Dirs
<1>6. FillOf(u)'
  <2>1. sent[i] = <<>>  BY <1>4 DEF StepInv, Blank
  <2> QED  BY <1>1, <1>5, <2>1 DEF WholeInv, FillOf
<1>7. blocks' = Marked'
  <2>1. Marked' = Marked \cup ({m} \ {0})  BY <1>2, <1>5 DEF Marked
  <2> QED  BY <1>4, <2>1 DEF WholeInv
<1> QED  BY <1>1, <1>5, <1>6, <1>7, NotLeft, WholeFills

LEMMA WholeEndMarker == ASSUME StepInv, WholeInv, NEW w \in Workers, NEW u \in Uploads, EndMarker(w, u) PROVE WholeInv'
<1>1. upload \in [Uploads -> Dirs] /\ upload' = [upload EXCEPT ![u].left = TRUE]
      /\ UNCHANGED <<sent, blocks>> /\ ~upload[u].left /\ upload[u].dir /\ pc \in [Workers -> Pcs]
  BY DEF EndMarker, StepInv, TypeOK
<1>2. /\ \A x \in Uploads : /\ upload'[x].marker = upload[x].marker /\ upload'[x].chunks = upload[x].chunks
                            /\ upload'[x].wrote = upload[x].wrote /\ upload'[x].id = upload[x].id
                            /\ upload'[x].dir = upload[x].dir
      /\ \A x \in Uploads \ {u} : upload'[x] = upload[x]
      /\ upload'[u].left
  BY <1>1 DEF Dirs
<1>3. \A x \in Uploads : FillOf(x)'
  <2> SUFFICES ASSUME NEW x \in Uploads PROVE FillOf(x)'  OBVIOUS
  <2> QED  BY <1>1, <1>2 DEF WholeInv, FillOf
<1>4. blocks' = Marked'  BY <1>1, <1>2 DEF WholeInv, Marked
<1>5. ASSUME NEW v \in Workers, pc'[v] = pc[v] PROVE MidOf(v)'
  <2>1. CASE Uploading(v)
    <3>1. PICK x \in Uploads : x = pc[v].u  BY <2>1, UploaderIs
    <3> QED  BY <1>2, <1>5, <3>1 DEF WholeInv, MidOf
  <2>2. CASE ~Uploading(v)  BY <1>5, <2>2 DEF Uploading, MidOf
  <2> QED  BY <2>1, <2>2
<1>6. MidOf(w)'
  <2>1. CASE pc' = pc  BY <1>5, <2>1
  <2>2. CASE pc' = [pc EXCEPT ![w] = [at |-> "staged", u |-> u, id |-> upload[u].marker]]
    <3>1. pc'[w].at = "staged" /\ pc'[w].u = u /\ pc'[w].id = upload[u].marker  BY <1>1, <2>2
    <3>2. upload[u].chunks = Whole(upload[u].wrote)  BY <1>1 DEF WholeInv, FillOf
    <3> QED  BY <1>1, <1>2, <3>1, <3>2 DEF MidOf
  <2> QED  BY <2>1, <2>2 DEF EndMarker
<1>7. \A v \in Workers \ {w} : pc'[v] = pc[v]  BY <1>1 DEF EndMarker
<1> QED  BY <1>3, <1>4, <1>5, <1>6, <1>7 DEF WholeInv

LEMMA WholeEndStaged == ASSUME StepInv, WholeInv, NEW w \in Workers, EndStaged(w) PROVE WholeInv'
<1>1. pc[w] \in [at : {"staged", "body"}, u : Uploads, id : Ids] /\ pc[w].at = "staged" /\ Uploading(w)
  BY PcIs DEF EndStaged, StepInv, Uploading
<1>2. PICK u \in Uploads : u = pc[w].u  BY <1>1
<1>3. PICK i \in Ids : i = pc[w].id  BY <1>1
<1>4. upload[u].marker = i /\ upload[u].dir /\ upload[u].chunks = Whole(upload[u].wrote) /\ upload[u].id = i /\ i # 0
  BY <1>1, <1>2, <1>3, UploaderIs DEF WholeInv, MidOf
<1>5. /\ upload \in [Uploads -> Dirs] /\ upload' = [upload EXCEPT ![u].marker = 0] /\ blocks' = blocks \ {i}
      /\ sent' = sent /\ pc \in [Workers -> Pcs]
  BY <1>2, <1>3 DEF EndStaged, StepInv, TypeOK
<1>6. /\ \A x \in Uploads : /\ upload'[x].left = upload[x].left /\ upload'[x].chunks = upload[x].chunks
                            /\ upload'[x].wrote = upload[x].wrote /\ upload'[x].id = upload[x].id
                            /\ upload'[x].dir = upload[x].dir
      /\ \A x \in Uploads \ {u} : upload'[x] = upload[x]
      /\ upload'[u].marker = 0
  BY <1>5 DEF Dirs
<1>7. \A x \in Uploads : FillOf(x)'
  <2> SUFFICES ASSUME NEW x \in Uploads PROVE FillOf(x)'  OBVIOUS
  <2> QED  BY <1>5, <1>6 DEF WholeInv, FillOf
<1>8. blocks' = Marked'
  <2>1. \A x \in Uploads \ {u} : upload[x].marker # i
    BY <1>4 DEF StepInv, Staged, UploadOf
  <2>2. Marked' = Marked \ {i}  BY <1>4, <1>6, <2>1 DEF Marked
  <2> QED  BY <1>5, <2>2 DEF WholeInv
<1>9. pc'[w].at = "body" /\ pc'[w].u = u /\ \A v \in Workers \ {w} : pc'[v] = pc[v]
  BY <1>1, <1>2, <1>5 DEF EndStaged
<1>10. MidOf(w)'  BY <1>4, <1>6, <1>9 DEF MidOf
<1>11. ASSUME NEW v \in Workers, v # w PROVE MidOf(v)'
  <2>1. pc'[v] = pc[v]  BY <1>9, <1>11
  <2>2. CASE Uploading(v)
    <3>1. PICK x \in Uploads : x = pc[v].u  BY <2>2, UploaderIs
    <3>2. x # u  BY <1>1, <1>2, <1>11, <2>2, <3>1, UploadersDiffer
    <3> QED  BY <1>6, <2>1, <3>1, <3>2 DEF WholeInv, MidOf
  <2>3. CASE ~Uploading(v)  BY <2>1, <2>3 DEF Uploading, MidOf
  <2> QED  BY <2>2, <2>3
<1> QED  BY <1>7, <1>8, <1>10, <1>11 DEF WholeInv

LEMMA WholeEndBody == ASSUME StepInv, WholeInv, NEW w \in Workers, EndBody(w) PROVE WholeInv'
<1>1. pc[w] \in [at : {"staged", "body"}, u : Uploads, id : Ids] /\ pc[w].at = "body" /\ Uploading(w)
  BY PcIs DEF EndBody, StepInv, Uploading
<1>2. PICK u \in Uploads : u = pc[w].u  BY <1>1
<1>3. PICK i \in Ids : i = pc[w].id  BY <1>1
<1>4. upload[u].left /\ upload[u].chunks = Whole(upload[u].wrote)
  BY <1>1, <1>2, UploaderIs DEF WholeInv, MidOf
<1>5. PICK body : body = [k \in DOMAIN InOrder(Len(upload[u].chunks)) |->
                            upload[u].chunks[InOrder(Len(upload[u].chunks))[k]]]
  OBVIOUS
<1>6. /\ upload \in [Uploads -> Dirs]
      /\ \/ upload' = [upload EXCEPT ![u].chunks = <<>>, ![u].dir = FALSE]
         \/ upload' = upload
      /\ UNCHANGED <<blocks, sent>> /\ pc \in [Workers -> Pcs]
      /\ pc' = [pc EXCEPT ![w] = [at |-> "send", u |-> u, id |-> i, body |-> body]]
  BY <1>2, <1>3, <1>5 DEF EndBody, StepInv, TypeOK
<1>7. body = Whole(upload[u].wrote)
  <2>1. PICK c \in Seq(Nat) : c = upload[u].chunks  BY <1>6 DEF Dirs
  <2>2. DOMAIN InOrder(Len(c)) = 1..Len(c) /\ \A k \in 1..Len(c) : InOrder(Len(c))[k] = k  BY DEF InOrder
  <2>3. body = [k \in 1..Len(c) |-> c[k]]  BY <1>5, <2>1, <2>2
  <2>4. c = [k \in 1..Len(c) |-> c[k]]  OBVIOUS
  <2> QED  BY <1>4, <2>1, <2>3, <2>4
<1>8. /\ \A x \in Uploads : /\ upload'[x].left = upload[x].left /\ upload'[x].marker = upload[x].marker
                            /\ upload'[x].wrote = upload[x].wrote /\ upload'[x].id = upload[x].id
      /\ \A x \in Uploads \ {u} : upload'[x] = upload[x]
  <2>1. CASE upload' = [upload EXCEPT ![u].chunks = <<>>, ![u].dir = FALSE]  BY <1>6, <2>1 DEF Dirs
  <2>2. CASE upload' = upload  BY <2>2
  <2> QED  BY <1>6, <2>1, <2>2
<1>9. \A x \in Uploads : FillOf(x)'
  <2> SUFFICES ASSUME NEW x \in Uploads PROVE FillOf(x)'  OBVIOUS
  <2>1. FillOf(x)  BY DEF WholeInv
  <2>2. ~upload'[x].left => upload'[x].chunks = Whole(upload'[x].wrote)
    BY <1>4, <1>8, <2>1 DEF FillOf
  <2> QED  BY <1>6, <1>8, <2>1, <2>2 DEF FillOf
<1>10. blocks' = Marked'  BY <1>6, <1>8 DEF WholeInv, Marked
<1>11. pc'[w].at = "send" /\ pc'[w].u = u /\ pc'[w].body = body /\ \A v \in Workers \ {w} : pc'[v] = pc[v]
  BY <1>6
<1>12. MidOf(w)'  BY <1>7, <1>8, <1>11 DEF MidOf
<1>13. ASSUME NEW v \in Workers, v # w PROVE MidOf(v)'
  <2>1. pc'[v] = pc[v]  BY <1>11, <1>13
  <2>2. CASE Uploading(v)
    <3>1. PICK x \in Uploads : x = pc[v].u  BY <2>2, UploaderIs
    <3>2. x # u  BY <1>1, <1>2, <1>13, <2>2, <3>1, UploadersDiffer
    <3> QED  BY <1>8, <2>1, <3>1, <3>2 DEF WholeInv, MidOf
  <2>3. CASE ~Uploading(v)  BY <2>1, <2>3 DEF Uploading, MidOf
  <2> QED  BY <2>2, <2>3
<1> QED  BY <1>9, <1>10, <1>12, <1>13 DEF WholeInv

\* A publish is sent, whether or not its answer can be kept.
SendsIt(w) ==
  /\ pc[w].at = "send" /\ UNCHANGED <<upload, blocks>>
  /\ sent' = [sent EXCEPT ![pc[w].id] = Append(@, pc[w].body)]
  /\ pc'[w].at \in {"result", "idle"} /\ \A v \in Workers \ {w} : pc'[v] = pc[v]
LEMMA WholeSent == ASSUME StepInv, WholeInv, NEW w \in Workers, SendsIt(w) PROVE WholeInv'
<1>1. /\ pc[w].at = "send" /\ Uploading(w) /\ UNCHANGED <<upload, blocks>>
      /\ sent \in [Ids -> Seq(Seq(Nat))] /\ pc \in [Workers -> Pcs]
      /\ sent' = [sent EXCEPT ![pc[w].id] = Append(@, pc[w].body)]
  BY DEF SendsIt, Uploading, StepInv, TypeOK
<1>2. PICK u \in Uploads : u = pc[w].u  BY <1>1, UploaderIs
<1>3. PICK i \in Ids : i = pc[w].id /\ i # 0 /\ upload[u].id = i /\ upload[u].left /\ sent[i] = <<>>
  BY <1>1, <1>2, UploaderIs
<1>4. pc[w].body = Whole(upload[u].wrote)  BY <1>1, <1>2 DEF WholeInv, MidOf
<1>5. sent'[i] = <<Whole(upload[u].wrote)>> /\ \A j \in Ids \ {i} : sent'[j] = sent[j]
  BY <1>1, <1>3, <1>4
<1>6. \A x \in Uploads : FillOf(x)'
  <2> SUFFICES ASSUME NEW x \in Uploads PROVE FillOf(x)'  OBVIOUS
  <2>1. FillOf(x) /\ upload'[x] = upload[x] /\ upload[x].id \in Ids \cup {0}
    BY <1>1 DEF WholeInv, StepInv, TypeOK, Dirs
  <2>2. CASE x = u  BY <1>3, <1>5, <2>1, <2>2 DEF FillOf
  <2>3. CASE x # u
    <3>1. upload[x].id # i  BY <1>3, <2>3 DEF StepInv, Staged, UploadOf
    <3> QED  BY <1>5, <2>1, <3>1 DEF FillOf
  <2> QED  BY <2>2, <2>3
<1>7. pc'[w].at \in {"result", "idle"} /\ \A v \in Workers \ {w} : pc'[v] = pc[v]
  BY <1>1 DEF SendsIt
<1>8. \A v \in Workers : MidOf(v)'
  <2> SUFFICES ASSUME NEW v \in Workers PROVE MidOf(v)'  OBVIOUS
  <2>1. CASE v = w  BY <1>7, <2>1 DEF MidOf
  <2>2. CASE v # w  BY <1>1, <1>7, <2>2 DEF WholeInv, MidOf
  <2> QED  BY <2>1, <2>2
<1>9. blocks' = Marked'  BY <1>1 DEF WholeInv, Marked
<1> QED  BY <1>6, <1>8, <1>9 DEF WholeInv

LEMMA WholeEndSend == ASSUME StepInv, WholeInv, NEW w \in Workers, EndSend(w) PROVE WholeInv'
<1>1. pc[w].at = "send" /\ UNCHANGED <<upload, blocks>>
      /\ sent' = [sent EXCEPT ![pc[w].id] = Append(@, pc[w].body)]
  BY DEF EndSend
<1>2. pc'[w].at = "result" /\ \A v \in Workers \ {w} : pc'[v] = pc[v]
  <2>1. PICK h : pc' = [pc EXCEPT ![w] = [at |-> "result", id |-> @.id, handle |-> h]]
    BY DEF EndSend, Steps
  <2> QED  BY <2>1 DEF StepInv, TypeOK
<1>3. SendsIt(w)  BY <1>1, <1>2 DEF SendsIt
<1> QED  BY <1>3, WholeSent

LEMMA WholeEndFails == ASSUME StepInv, WholeInv, NEW w \in Workers, EndFails(w) PROVE WholeInv'
<1>1. UNCHANGED <<upload, blocks>> /\ pc' = [pc EXCEPT ![w] = Idle]  BY DEF EndFails
<1>2. CASE pc[w].at = "send"
  <2>1. sent' = [sent EXCEPT ![pc[w].id] = Append(@, pc[w].body)]  BY <1>2 DEF EndFails
  <2>2. pc'[w].at = "idle" /\ \A v \in Workers \ {w} : pc'[v] = pc[v]
    BY <1>1, IdleIs DEF StepInv, TypeOK
  <2>3. SendsIt(w)  BY <1>1, <1>2, <2>1, <2>2 DEF SendsIt
  <2> QED  BY <2>3, WholeSent
<1>3. CASE pc[w].at # "send"
  <2>1. sent' = sent  BY <1>3 DEF EndFails
  <2>2. Idle.at \notin {"staged", "body", "send"}  BY IdleIs
  <2>3. \A v \in Workers : Uploading(v)' => pc'[v] = pc[v]  BY <1>1, <2>2, QuietUploading DEF StepInv
  <2> QED  BY <1>1, <2>1, <2>3, WholeFrame
<1> QED  BY <1>2, <1>3

LEMMA WholeCloseUpload ==
  ASSUME StepInv, WholeInv, "upload.end" \in Careful, NEW w \in Workers, NEW u \in Uploads, CloseUpload(w, u)
  PROVE  WholeInv'
<1>1. /\ upload \in [Uploads -> Dirs] /\ UNCHANGED <<blocks, sent, pc>> /\ \A v \in Workers : ~Reads(v, u)
      /\ upload' = [upload EXCEPT ![u].chunks = <<>>, ![u].left = TRUE, ![u].dir = upload[u].marker # 0]
  BY DEF CloseUpload, StepInv, TypeOK
<1>2. /\ \A x \in Uploads : /\ upload'[x].marker = upload[x].marker
                            /\ upload'[x].wrote = upload[x].wrote /\ upload'[x].id = upload[x].id
      /\ \A x \in Uploads \ {u} : upload'[x] = upload[x]
      /\ upload'[u].left
  BY <1>1 DEF Dirs
<1>3. \A x \in Uploads : FillOf(x)'
  <2> SUFFICES ASSUME NEW x \in Uploads PROVE FillOf(x)'  OBVIOUS
  <2>1. FillOf(x)  BY DEF WholeInv
  <2>2. ~upload'[x].left => upload'[x].chunks = Whole(upload'[x].wrote)  BY <1>2, <2>1 DEF FillOf
  <2> QED  BY <1>1, <1>2, <2>1, <2>2 DEF FillOf
<1>4. blocks' = Marked'  BY <1>1, <1>2 DEF WholeInv, Marked
<1>5. \A v \in Workers : MidOf(v)'
  <2> SUFFICES ASSUME NEW v \in Workers PROVE MidOf(v)'  OBVIOUS
  <2>1. MidOf(v) /\ pc'[v] = pc[v]  BY <1>1 DEF WholeInv
  <2>2. CASE pc[v].at \in {"staged", "body"}
    <3>1. PICK x \in Uploads : x = pc[v].u  BY <2>2, UploaderIs DEF Uploading
    <3>2. x # u  BY <1>1, <2>2, <3>1 DEF Reads
    <3> QED  BY <1>2, <2>1, <3>1, <3>2 DEF MidOf
  <2>3. CASE pc[v].at = "send"
    <3>1. PICK x \in Uploads : x = pc[v].u  BY <2>3, UploaderIs DEF Uploading
    <3> QED  BY <1>2, <2>1, <2>3, <3>1 DEF MidOf
  <2>4. CASE ~Uploading(v)  BY <2>1, <2>4 DEF Uploading, MidOf
  <2> QED  BY <2>2, <2>3, <2>4 DEF Uploading
<1> QED  BY <1>3, <1>4, <1>5 DEF WholeInv

LEMMA WholeQuiet ==
  ASSUME StepInv, WholeInv, UNCHANGED staging, NEW w \in Workers, NEW r,
         r.at \in {"idle", "ask", "resolve"}, pc' = [pc EXCEPT ![w] = r] \/ pc' = pc
  PROVE  WholeInv'
<1>1. r.at \notin {"staged", "body", "send"}  OBVIOUS
<1>2. \A v \in Workers : Uploading(v)' => pc'[v] = pc[v]  BY <1>1, QuietUploading DEF StepInv
<1> QED  BY <1>2, WholeFrame DEF staging

LEMMA WholeNext == ASSUME StepInv, WholeInv, "upload.end" \in Careful, [Next]_vars PROVE WholeInv'
<1>1. CASE UNCHANGED vars  BY <1>1, WholeSame DEF vars, staging
<1>2. ASSUME NEW i \in Ids, Complete(i) PROVE WholeInv'  BY <1>2, WholeSame DEF Complete, staging
<1>3. ASSUME NEW w \in Workers, Start(w) PROVE WholeInv'
  <2>1. CASE Get(w) \/ Put(w) \/ Spawn(w)
    BY <2>1, WholeSame DEF Get, Put, Spawn, staging
  <2> QED  BY <1>3, <2>1, WholeCreate, WholeWrite, WholePublish, WholeEndMarker DEF Start
<1>4. ASSUME NEW w \in Workers, Ending(w) PROVE WholeInv'
  <2>1. CASE EndResult(w) \/ EndResolve(w)
    <3>1. UNCHANGED staging  BY <2>1 DEF EndResult, EndResolve
    <3>2. PICK r : r.at \in {"idle", "resolve"} /\ pc' = [pc EXCEPT ![w] = r]
      BY <2>1, ThenIs, IdleIs DEF EndResult, EndResolve, StepInv
    <3>3. r.at \in {"idle", "ask", "resolve"} /\ (pc' = [pc EXCEPT ![w] = r] \/ pc' = pc)  BY <3>2
    <3> QED  BY <3>1, <3>3, WholeQuiet
  <2> QED  BY <1>4, <2>1, WholeEndStaged, WholeEndBody, WholeEndSend, WholeEndFails DEF Ending
<1>5. ASSUME NEW w \in Workers, Asks(w) PROVE WholeInv'
  <2>1. UNCHANGED staging  BY <1>5 DEF Asks, WaitCompletion, ResponseLen, ResponseRead
  <2>2. CASE WaitCompletion(w)
    <3>1. PICK r : r = [at |-> "ask", ids |-> Started \ over]  OBVIOUS
    <3>2. r.at \in {"idle", "ask", "resolve"} /\ (pc' = [pc EXCEPT ![w] = r] \/ pc' = pc)
      BY <2>2, <3>1 DEF WaitCompletion
    <3> QED  BY <2>1, <3>2, WholeQuiet
  <2>3. ASSUME NEW i \in Ids, ResponseLen(w, i) \/ ResponseRead(w, i) PROVE WholeInv'
    <3>1. CASE Asked(w, i)
      <4>1. Asking(w, i)  BY <2>3 DEF ResponseLen, ResponseRead
      <4>2. PICK r : r.at \in {"idle", "ask"} /\ pc' = [pc EXCEPT ![w] = r]  BY <3>1, <4>1, AskedIs DEF StepInv
      <4>3. r.at \in {"idle", "ask", "resolve"} /\ (pc' = [pc EXCEPT ![w] = r] \/ pc' = pc)  BY <4>2
      <4> QED  BY <2>1, <4>3, WholeQuiet
    <3>2. CASE pc' = pc  BY <2>1, <3>2, WholeSame DEF staging
    <3> QED  BY <2>3, <3>1, <3>2 DEF ResponseLen, ResponseRead
  <2> QED  BY <1>5, <2>2, <2>3 DEF Asks
<1>6. ASSUME NEW w \in Workers, Drops(w) PROVE WholeInv'
  <2>1. ASSUME NEW i \in Ids, Cancel(w, i) PROVE WholeInv'
    <3>1. UNCHANGED staging  BY <2>1 DEF Cancel
    <3>2. PICK r : r.at \in {"idle", "ask"} /\ (pc' = [pc EXCEPT ![w] = r] \/ pc' = pc)
      <4>1. CASE pc[w] = Idle  BY <2>1, <4>1, IdleIs DEF Cancel
      <4>2. CASE pc[w] # Idle  BY <2>1, <4>2, AskedIs DEF Cancel, StepInv
      <4> QED  BY <4>1, <4>2
    <3>3. r.at \in {"idle", "ask", "resolve"}  BY <3>2
    <3> QED  BY <3>1, <3>2, <3>3, WholeQuiet
  <2>2. ASSUME NEW h \in mine, Close(w, h) \/ CloseStdin(w, h) \/ ReadSynthetic(w, h) PROVE WholeInv'
    BY <2>2, WholeSame DEF Close, CloseStdin, ReadSynthetic, staging
  <2> QED  BY <1>6, <2>1, <2>2, WholeCloseUpload DEF Drops
<1> QED  BY <1>1, <1>2, <1>3, <1>4, <1>5, <1>6 DEF Next

\* When pnpm does not cancel or close an upload that is being sent, its publish is
\* sent at most once, with all of the chunks in the order they were written, and
\* the staged request is freed once (pnpm-host.mjs:481-494, 520-548).
THEOREM SendsWhole ==
  ASSUME "upload.end" \in Careful
  PROVE  Spec => []SentWhole
<1>1. Init => WholeInv  BY WholeInit
<1>2. StepInv /\ WholeInv /\ [Next]_vars => WholeInv'  BY WholeNext
<1>3. WholeInv => SentWhole  BY DEF WholeInv, FillOf, Whole, Marked, SentWhole
<1>4. Spec => []StepInv  BY StepsCorrect
<1> QED  BY <1>1, <1>2, <1>3, <1>4, PTL DEF Spec
===============================================================================
