--------------------------- MODULE SliccForkProofs ---------------------------
(***************************************************************************)
(* For any number of pids, descriptors, memories and nested forks: an open *)
(* file description has as many streams as the processes that run or wait  *)
(* have descriptors for it; and what the emulation of fork() shows the     *)
(* programs are the processes of ForkProcs, every step one of its steps.   *)
(***************************************************************************)
EXTENDS SliccFork, Integers, FiniteSetTheorems, SequenceTheorems, TLAPS

-----------------------------------------------------------------------------
(* Tables: functions on some of a set, as exited, aliases and fds are. *)

Tab(S, T) == UNION {[R -> T] : R \in SUBSET S}

LEMMA TabIs ==
  ASSUME NEW S, NEW T, NEW f
  PROVE  f \in Tab(S, T) <=> /\ f = [x \in DOMAIN f |-> f[x]] /\ DOMAIN f \subseteq S
                             /\ \A x \in DOMAIN f : f[x] \in T
<1>1. ASSUME f \in Tab(S, T)
      PROVE  f = [x \in DOMAIN f |-> f[x]] /\ DOMAIN f \subseteq S /\ \A x \in DOMAIN f : f[x] \in T
  <2>1. PICK R \in SUBSET S : f \in [R -> T]  BY <1>1 DEF Tab
  <2> QED  BY <2>1
<1>2. ASSUME f = [x \in DOMAIN f |-> f[x]], DOMAIN f \subseteq S, \A x \in DOMAIN f : f[x] \in T
      PROVE  f \in Tab(S, T)
  <2>1. f \in [DOMAIN f -> T]  BY <1>2
  <2> QED  BY <2>1, <1>2 DEF Tab
<1> QED  BY <1>1, <1>2

LEMMA TabWith ==
  ASSUME NEW S, NEW T, NEW f \in Tab(S, T), NEW c \in S, NEW s \in T
  PROVE  With(f, c, s) \in Tab(S, T)
<1>1. DOMAIN f \subseteq S /\ \A x \in DOMAIN f : f[x] \in T  BY TabIs
<1>2. With(f, c, s) \in [DOMAIN f \cup {c} -> T]  BY <1>1 DEF With
<1> QED  BY <1>1, <1>2 DEF Tab

LEMMA TabWithout ==
  ASSUME NEW S, NEW T, NEW f \in Tab(S, T), NEW c
  PROVE  Without(f, c) \in Tab(S, T)
<1>1. DOMAIN f \subseteq S /\ \A x \in DOMAIN f : f[x] \in T  BY TabIs
<1>2. Without(f, c) \in [DOMAIN f \ {c} -> T]  BY <1>1 DEF Without
<1> QED  BY <1>1, <1>2 DEF Tab

LEMMA TabEmpty == ASSUME NEW S, NEW T PROVE Empty \in Tab(S, T)
<1>1. Empty \in [{} -> T]  BY DEF Empty
<1> QED  BY <1>1 DEF Tab

-----------------------------------------------------------------------------
(* Stacks: the snapshot of a process in one. *)

PidsIn(s) == {s[i].pid : i \in DOMAIN s}
Distinct(s) == \A i \in DOMAIN s : \A l \in DOMAIN s : s[i].pid = s[l].pid => i = l
Snap(s, p) == s[CHOOSE i \in DOMAIN s : s[i].pid = p]

LEMMA SnapIs ==
  ASSUME NEW s, Distinct(s), NEW i \in DOMAIN s
  PROVE  Snap(s, s[i].pid) = s[i]
<1>1. PICK l \in DOMAIN s : l = CHOOSE m \in DOMAIN s : s[m].pid = s[i].pid  OBVIOUS
<1>2. s[l].pid = s[i].pid  BY <1>1
<1>3. l = i  BY <1>2 DEF Distinct
<1> QED  BY <1>1, <1>3 DEF Snap

LEMMA SnapPushed ==
  ASSUME NEW S, NEW s \in Seq(S), Distinct(s), NEW x \in S, x.pid \notin PidsIn(s)
  PROVE  /\ Append(s, x) \in Seq(S) /\ Distinct(Append(s, x))
         /\ PidsIn(Append(s, x)) = PidsIn(s) \cup {x.pid}
         /\ Snap(Append(s, x), x.pid) = x
         /\ \A p \in PidsIn(s) : Snap(Append(s, x), p) = Snap(s, p)
<1> DEFINE t == Append(s, x)
<1>1. t \in Seq(S) /\ Len(t) = Len(s) + 1 /\ Len(s) \in Nat  OBVIOUS
<1>2. DOMAIN t = 1..(Len(s) + 1) /\ DOMAIN s = 1..Len(s)  BY <1>1
<1>3. t[Len(s) + 1] = x /\ \A i \in DOMAIN s : t[i] = s[i]  BY <1>1
<1> HIDE DEF t
<1>4. DOMAIN t = DOMAIN s \cup {Len(s) + 1} /\ Len(s) + 1 \notin DOMAIN s  BY <1>1, <1>2
<1>5. PidsIn(t) = PidsIn(s) \cup {x.pid}  BY <1>3, <1>4 DEF PidsIn
<1>6. Distinct(t)  BY <1>3, <1>4 DEF Distinct, PidsIn
<1>7. Snap(t, x.pid) = x  BY <1>3, <1>4, <1>6, SnapIs
<1>8. ASSUME NEW p \in PidsIn(s) PROVE Snap(t, p) = Snap(s, p)
  <2>1. PICK i \in DOMAIN s : s[i].pid = p  BY DEF PidsIn
  <2>2. Snap(s, p) = s[i]  BY <2>1, SnapIs
  <2>3. i \in DOMAIN t /\ t[i] = s[i]  BY <1>3, <1>4
  <2> QED  BY <2>1, <2>2, <2>3, <1>6, SnapIs
<1> QED  BY <1>1, <1>5, <1>6, <1>7, <1>8 DEF t

LEMMA SnapPopped ==
  ASSUME NEW S, NEW s \in Seq(S), Distinct(s), s # <<>>
  PROVE  LET x == s[Len(s)]
             t == SubSeq(s, 1, Len(s) - 1)
         IN /\ Len(s) \in Nat \ {0} /\ x \in S
            /\ t \in Seq(S) /\ Len(t) = Len(s) - 1 /\ \A i \in DOMAIN t : i \in DOMAIN s /\ t[i] = s[i]
            /\ Distinct(t) /\ s = Append(t, x)
            /\ x.pid \notin PidsIn(t) /\ PidsIn(s) = PidsIn(t) \cup {x.pid}
            /\ Snap(s, x.pid) = x
            /\ \A p \in PidsIn(t) : Snap(t, p) = Snap(s, p)
<1> DEFINE x == s[Len(s)]
           t == SubSeq(s, 1, Len(s) - 1)
<1>1. Len(s) \in Nat \ {0} /\ x \in S  OBVIOUS
<1>2. /\ t \in Seq(S) /\ Len(t) = Len(s) - 1 /\ DOMAIN s = 1..Len(s) /\ DOMAIN t = 1..(Len(s) - 1)
      /\ \A i \in 1..(Len(s) - 1) : t[i] = s[i]
  <2>1. \A i \in 1..(Len(s) - 1) : s[i] \in S  BY <1>1
  <2>2. /\ t \in Seq(S) /\ Len(t) = IF 1 <= Len(s) - 1 THEN (Len(s) - 1) - 1 + 1 ELSE 0
        /\ \A i \in 1..((Len(s) - 1) - 1 + 1) : t[i] = s[1 + i - 1]
    BY <2>1, <1>1, SubSeqProperties
  <2> HIDE DEF t
  <2>3. Len(t) = Len(s) - 1
    <3>1. Len(t) = IF 1 <= Len(s) - 1 THEN (Len(s) - 1) - 1 + 1 ELSE 0  BY <2>2
    <3>2. Len(s) \in Nat /\ Len(s) >= 1  BY <1>1
    <3>3. \A n \in Nat : n >= 1 => (IF 1 <= n - 1 THEN (n - 1) - 1 + 1 ELSE 0) = n - 1  OBVIOUS
    <3> QED  BY <3>1, <3>2, <3>3
  <2>4. DOMAIN s = 1..Len(s) /\ DOMAIN t = 1..Len(t)  BY <2>2, LenProperties
  <2> QED  BY <2>2, <2>3, <2>4, <1>1
<1>3. \A i \in DOMAIN t : i \in DOMAIN s /\ i # Len(s) /\ t[i] = s[i]
  <2> HIDE DEF t
  <2> QED  BY <1>1, <1>2
<1>4. s = Append(t, x)
  <2>1. Append(t, x) \in Seq(S) /\ Len(Append(t, x)) = Len(s)  BY <1>1, <1>2
  <2>2. ASSUME NEW i \in 1..Len(s) PROVE Append(t, x)[i] = s[i]
    <3> HIDE DEF t
    <3>1. CASE i = Len(s)  BY <3>1, <1>1, <1>2
    <3>2. CASE i # Len(s)
      <4>1. i \in 1..Len(t)  BY <3>2, <1>1, <1>2
      <4> QED  BY <4>1, <1>1, <1>2
    <3> QED  BY <3>1, <3>2
  <2> HIDE DEF t, x
  <2> QED  BY <2>1, <2>2, SeqEqual
<1> HIDE DEF t, x
<1>5. Distinct(t)  BY <1>3 DEF Distinct
<1>6. x.pid \notin PidsIn(t)
  <2>1. Len(s) \in DOMAIN s  BY <1>1, <1>2
  <2> QED  BY <2>1, <1>3 DEF Distinct, PidsIn, x
<1>7. /\ PidsIn(s) = PidsIn(t) \cup {x.pid} /\ Snap(s, x.pid) = x
      /\ \A p \in PidsIn(t) : Snap(t, p) = Snap(s, p)
  BY <1>1, <1>2, <1>4, <1>5, <1>6, SnapPushed
<1> QED  BY <1>1, <1>2, <1>3, <1>4, <1>5, <1>6, <1>7 DEF t, x

-----------------------------------------------------------------------------
(* Streams: how many a table has, and the snapshots of a stack. *)

Uses(table, d) == {f \in DOMAIN table : table[f] = d}
Held(s, d) == {x \in (DOMAIN s) \X Fds : x[2] \in DOMAIN s[x[1]].fds /\ s[x[1]].fds[x[2]] = d}

LEMMA UsesWith ==
  ASSUME NEW table, IsFiniteSet(DOMAIN table), NEW f, f \notin DOMAIN table, NEW d, NEW e
  PROVE  /\ IsFiniteSet(DOMAIN With(table, f, e))
         /\ Streams(With(table, f, e), d) = Streams(table, d) + (IF d = e THEN 1 ELSE 0)
         /\ Streams(table, d) \in Nat
<1>1. IsFiniteSet(Uses(table, d))  BY FS_Subset DEF Uses
<1>2. Uses(With(table, f, e), d) = IF d = e THEN Uses(table, d) \cup {f} ELSE Uses(table, d)
  BY DEF Uses, With
<1>3. f \notin Uses(table, d)  BY DEF Uses
<1>4. Cardinality(Uses(table, d)) \in Nat  BY <1>1, FS_CardinalityType
<1>5. IsFiniteSet(DOMAIN With(table, f, e))
  <2>1. DOMAIN With(table, f, e) = DOMAIN table \cup {f}  BY DEF With
  <2> QED  BY <2>1, FS_AddElement
<1>6. Cardinality(Uses(With(table, f, e), d)) = Cardinality(Uses(table, d)) + (IF d = e THEN 1 ELSE 0)
  <2>1. CASE d = e
    <3>1. Cardinality(Uses(table, d) \cup {f}) = Cardinality(Uses(table, d)) + 1
      BY <1>1, <1>3, FS_AddElement
    <3> QED  BY <3>1, <2>1, <1>2
  <2>2. CASE d # e  BY <2>2, <1>2, <1>4
  <2> QED  BY <2>1, <2>2
<1> QED  BY <1>4, <1>5, <1>6 DEF Streams, Uses

LEMMA UsesWithout ==
  ASSUME NEW table, IsFiniteSet(DOMAIN table), NEW f \in DOMAIN table, NEW d
  PROVE  /\ IsFiniteSet(DOMAIN Without(table, f))
         /\ Streams(Without(table, f), d) = Streams(table, d) - (IF d = table[f] THEN 1 ELSE 0)
         /\ Streams(table, d) \in Nat
<1>1. IsFiniteSet(Uses(table, d))  BY FS_Subset DEF Uses
<1>2. Uses(Without(table, f), d) = Uses(table, d) \ {f}  BY DEF Uses, Without
<1>3. f \in Uses(table, d) <=> d = table[f]  BY DEF Uses
<1>4. Cardinality(Uses(table, d)) \in Nat  BY <1>1, FS_CardinalityType
<1>5. IsFiniteSet(DOMAIN Without(table, f))
  <2>1. DOMAIN Without(table, f) = DOMAIN table \ {f}  BY DEF Without
  <2> QED  BY <2>1, FS_RemoveElement
<1>6. Cardinality(Uses(Without(table, f), d)) = Cardinality(Uses(table, d)) - (IF d = table[f] THEN 1 ELSE 0)
  <2>1. Cardinality(Uses(table, d) \ {f}) = IF f \in Uses(table, d) THEN Cardinality(Uses(table, d)) - 1
                                            ELSE Cardinality(Uses(table, d))
    BY <1>1, FS_RemoveElement
  <2> QED  BY <2>1, <1>2, <1>3, <1>4
<1> QED  BY <1>4, <1>5, <1>6 DEF Streams, Uses

\* A snapshot more has its own streams.
LEMMA HeldPushed ==
  ASSUME NEW S, NEW s \in Seq(S), NEW x \in S, NEW d,
         DOMAIN x.fds \subseteq Fds, IsFiniteSet(DOMAIN x.fds), IsFiniteSet(Held(s, d))
  PROVE  /\ IsFiniteSet(Held(Append(s, x), d))
         /\ Cardinality(Held(Append(s, x), d)) = Cardinality(Held(s, d)) + Streams(x.fds, d)
         /\ Cardinality(Held(s, d)) \in Nat /\ Streams(x.fds, d) \in Nat
<1> DEFINE t == Append(s, x)
           n == Len(s) + 1
           U == Uses(x.fds, d)
           New == {n} \X U
<1>1. DOMAIN t = DOMAIN s \cup {n} /\ n \notin DOMAIN s /\ t[n] = x /\ \A i \in DOMAIN s : t[i] = s[i]
  <2>1. t \in Seq(S) /\ Len(t) = Len(s) + 1 /\ Len(s) \in Nat  OBVIOUS
  <2>2. DOMAIN t = 1..(Len(s) + 1) /\ DOMAIN s = 1..Len(s)  BY <2>1
  <2>3. t[n] = x /\ \A i \in DOMAIN s : t[i] = s[i]  BY <2>1
  <2> HIDE DEF t
  <2> QED  BY <2>1, <2>2, <2>3
<1> HIDE DEF t, n
<1>2. IsFiniteSet(U) /\ U \subseteq Fds  BY FS_Subset DEF Uses
<1>3. Held(t, d) = Held(s, d) \cup New
  <2>1. ASSUME NEW y \in Held(t, d) PROVE y \in Held(s, d) \cup New
    <3>1. PICK i \in DOMAIN t, f \in Fds : y = <<i, f>> /\ f \in DOMAIN t[i].fds /\ t[i].fds[f] = d
      BY DEF Held
    <3>2. CASE i = n  BY <3>1, <3>2, <1>1 DEF Uses
    <3>3. CASE i \in DOMAIN s  BY <3>1, <3>3, <1>1 DEF Held
    <3> QED  BY <3>2, <3>3, <1>1
  <2>2. ASSUME NEW y \in Held(s, d) PROVE y \in Held(t, d)
    <3>1. PICK i \in DOMAIN s, f \in Fds : y = <<i, f>> /\ f \in DOMAIN s[i].fds /\ s[i].fds[f] = d
      BY DEF Held
    <3> QED  BY <3>1, <1>1 DEF Held
  <2>3. ASSUME NEW y \in New PROVE y \in Held(t, d)
    <3>1. PICK f \in U : y = <<n, f>>  OBVIOUS
    <3>2. f \in Fds /\ f \in DOMAIN x.fds /\ x.fds[f] = d  BY <1>2 DEF Uses
    <3> QED  BY <3>1, <3>2, <1>1 DEF Held
  <2> QED  BY <2>1, <2>2, <2>3
<1>4. Held(s, d) \cap New = {}  BY <1>1 DEF Held
<1>5. IsFiniteSet(New) /\ Cardinality(New) = Cardinality(U)
  <2>1. IsFiniteSet({n}) /\ Cardinality({n}) = 1  BY FS_Singleton
  <2>2. IsFiniteSet({n} \X U) /\ Cardinality({n} \X U) = 1 * Cardinality(U)
    BY <2>1, <1>2, FS_Product
  <2>3. Cardinality(U) \in Nat  BY <1>2, FS_CardinalityType
  <2> QED  BY <2>2, <2>3
<1>6. Cardinality(U) \in Nat /\ Cardinality(Held(s, d)) \in Nat  BY <1>2, FS_CardinalityType
<1> HIDE DEF U
<1>11. IsFiniteSet(New) /\ Cardinality(New) = Cardinality(U)  BY <1>5
<1> HIDE DEF New
<1>7. /\ IsFiniteSet(Held(s, d) \cup New)
      /\ Cardinality(Held(s, d) \cup New)
           = Cardinality(Held(s, d)) + Cardinality(New) - Cardinality(Held(s, d) \cap New)
  BY <1>11, FS_Union
<1>8. Cardinality({}) = 0  BY FS_EmptySet
<1>9. Cardinality(Held(t, d)) = Cardinality(Held(s, d)) + Cardinality(U)
  <2>1. Cardinality(Held(s, d) \cap New) = 0  BY <1>4, <1>8
  <2>2. Cardinality(Held(t, d)) = Cardinality(Held(s, d) \cup New)  BY <1>3
  <2>3. Cardinality(Held(s, d) \cup New) = Cardinality(Held(s, d)) + Cardinality(U) - 0
    BY <2>1, <1>7, <1>11
  <2> QED  BY <2>2, <2>3, <1>6
<1>10. Streams(x.fds, d) = Cardinality(U)  BY DEF Streams, U, Uses
<1> QED  BY <1>3, <1>6, <1>7, <1>9, <1>10 DEF t

-----------------------------------------------------------------------------
(* Children: those of p in its tables, those the kernel (kp) has of it, and *)
(* the one it waits for, in here.                                           *)

InKernel(kp, p) == {k \in KPids : kp[k].st # None /\ kp[k].of = p}
StatusOf(kp, ex, al, here, c) ==
  IF c \in DOMAIN ex THEN ex[c] ELSE IF c \in DOMAIN al THEN kp[al[c]].st
  ELSE IF c \in here THEN Running ELSE kp[c].st
KidsIn(kp, p, ex, al, here) ==
  [c \in DOMAIN ex \cup DOMAIN al \cup InKernel(kp, p) \cup here |-> StatusOf(kp, ex, al, here, c)]

LEMMA KidsOfIs ==
  ASSUME NEW p, NEW ex, NEW al, NEW here,
         DOMAIN ex \cap DOMAIN al = {}, here \cap (DOMAIN ex \cup DOMAIN al) = {}
  PROVE  KidsOf(p, ex, al, here) = KidsIn(kprocs, p, ex, al, here)
<1>1. ASSUME NEW c
      PROVE  StatusOf(kprocs, ex, al, here, c)
               = CASE c \in DOMAIN ex -> ex[c]
                   [] c \in DOMAIN al -> kprocs[al[c]].st
                   [] c \in here      -> Running
                   [] OTHER           -> kprocs[c].st
  BY DEF StatusOf
<1> QED  BY <1>1 DEF KidsOf, KidsIn, InKernel

Ended(K, c, s) == [K EXCEPT ![c] = s]

\* A table that gets an entry: the child is one more, or was waited for here.
LEMMA AddExited ==
  ASSUME NEW kp, NEW p, NEW ex, NEW al, NEW here, NEW c, NEW s,
         c \notin DOMAIN ex \cup DOMAIN al \cup here \cup KPids
  PROVE  /\ KidsIn(kp, p, With(ex, c, s), al, here) = Procs!With(KidsIn(kp, p, ex, al, here), c, s)
         /\ c \notin DOMAIN KidsIn(kp, p, ex, al, here)
BY DEF KidsIn, StatusOf, InKernel, With, Procs!With

LEMMA AddHere ==
  ASSUME NEW kp, NEW p, NEW ex, NEW al, NEW c,
         c \notin DOMAIN ex \cup DOMAIN al \cup KPids
  PROVE  KidsIn(kp, p, ex, al, {c}) = Procs!With(KidsIn(kp, p, ex, al, {}), c, Running)
BY DEF KidsIn, StatusOf, InKernel, Procs!With

LEMMA EndHere ==
  ASSUME NEW kp, NEW p, NEW ex, NEW al, NEW c, NEW s,
         c \notin DOMAIN ex \cup DOMAIN al \cup KPids
  PROVE  KidsIn(kp, p, With(ex, c, s), al, {}) = Ended(KidsIn(kp, p, ex, al, {c}), c, s)
<1> DEFINE K == KidsIn(kp, p, ex, al, {c})
           L == KidsIn(kp, p, With(ex, c, s), al, {})
<1>1. DOMAIN K = DOMAIN ex \cup DOMAIN al \cup InKernel(kp, p) \cup {c} /\ DOMAIN L = DOMAIN K
  BY DEF KidsIn, With
<1>2. ASSUME NEW x \in DOMAIN K PROVE L[x] = [K EXCEPT ![c] = s][x]
  BY <1>1 DEF KidsIn, With, StatusOf, InKernel
<1>3. L = [x \in DOMAIN K |-> L[x]] /\ K = [x \in DOMAIN K |-> K[x]]  BY <1>1 DEF KidsIn
<1>4. L = [K EXCEPT ![c] = s]
  BY <1>1, <1>2, <1>3
<1> QED  BY <1>1, <1>4 DEF Ended

LEMMA AliasHere ==
  ASSUME NEW kp, NEW p, NEW ex, NEW al, NEW c, NEW k \in KPids,
         c \notin DOMAIN ex \cup DOMAIN al \cup KPids
  PROVE  KidsIn(kp, p, ex, With(al, c, k), {}) = Ended(KidsIn(kp, p, ex, al, {c}), c, kp[k].st)
<1> DEFINE K == KidsIn(kp, p, ex, al, {c})
           L == KidsIn(kp, p, ex, With(al, c, k), {})
<1>1. DOMAIN K = DOMAIN ex \cup DOMAIN al \cup InKernel(kp, p) \cup {c} /\ DOMAIN L = DOMAIN K
  BY DEF KidsIn, With
<1>2. ASSUME NEW x \in DOMAIN K PROVE L[x] = [K EXCEPT ![c] = kp[k].st][x]
  BY <1>1 DEF KidsIn, With, StatusOf, InKernel
<1>3. L = [x \in DOMAIN K |-> L[x]] /\ K = [x \in DOMAIN K |-> K[x]]  BY <1>1 DEF KidsIn
<1>4. L = [K EXCEPT ![c] = kp[k].st]
  BY <1>1, <1>2, <1>3
<1> QED  BY <1>1, <1>4 DEF Ended

\* What a wait takes from a table.
LEMMA DropExited ==
  ASSUME NEW kp, NEW p, NEW ex, NEW al, NEW here, NEW c,
         c \notin DOMAIN al \cup here \cup KPids
  PROVE  KidsIn(kp, p, Without(ex, c), al, here) = Procs!Without(KidsIn(kp, p, ex, al, here), c)
<1> DEFINE K == KidsIn(kp, p, ex, al, here)
           L == KidsIn(kp, p, Without(ex, c), al, here)
<1>1. DOMAIN L = DOMAIN K \ {c}  BY DEF KidsIn, Without, InKernel
<1>2. ASSUME NEW x \in DOMAIN K \ {c} PROVE L[x] = K[x]
  BY <1>1 DEF KidsIn, Without, StatusOf
<1>3. L = [x \in DOMAIN K \ {c} |-> L[x]]  BY <1>1 DEF KidsIn
<1> QED  BY <1>2, <1>3 DEF Procs!Without

LEMMA DropAlias ==
  ASSUME NEW kp, NEW p, NEW ex, NEW al, NEW here, NEW c,
         c \notin DOMAIN ex \cup here \cup KPids
  PROVE  KidsIn(kp, p, ex, Without(al, c), here) = Procs!Without(KidsIn(kp, p, ex, al, here), c)
<1> DEFINE K == KidsIn(kp, p, ex, al, here)
           L == KidsIn(kp, p, ex, Without(al, c), here)
<1>1. DOMAIN L = DOMAIN K \ {c}  BY DEF KidsIn, Without, InKernel
<1>2. ASSUME NEW x \in DOMAIN K \ {c} PROVE L[x] = K[x]
  BY <1>1 DEF KidsIn, Without, StatusOf
<1>3. L = [x \in DOMAIN K \ {c} |-> L[x]]  BY <1>1 DEF KidsIn
<1> QED  BY <1>2, <1>3 DEF Procs!Without

\* Of the kernel's processes k changes only; no alias of a table leads to k.
OnlyOne(kp, kq, k) == \A l \in KPids \ {k} : kq[l] = kp[l]
Elsewhere(al, k) == \A c \in DOMAIN al : al[c] \in KPids \ {k}

\* The kernel's processes matter to a process only as its own children and its
\* aliases.
LEMMA SameKids ==
  ASSUME NEW kp, NEW kq, NEW p, NEW ex, NEW al, NEW here,
         InKernel(kp, p) = InKernel(kq, p),
         \A k \in InKernel(kp, p) : kp[k].st = kq[k].st,
         \A c \in DOMAIN al : kp[al[c]].st = kq[al[c]].st
  PROVE  KidsIn(kq, p, ex, al, here) = KidsIn(kp, p, ex, al, here)
BY DEF KidsIn, StatusOf

LEMMA KernelKidStarts ==
  ASSUME NEW kp, NEW kq, NEW p, NEW ex, NEW al, NEW here, NEW k \in KPids,
         k \notin DOMAIN ex \cup DOMAIN al \cup here,
         kp[k].st = None, kq[k].st = Running, kq[k].of = p, Running # None,
         OnlyOne(kp, kq, k),
         Elsewhere(al, k)
  PROVE  KidsIn(kq, p, ex, al, here) = Procs!With(KidsIn(kp, p, ex, al, here), k, Running)
<1> DEFINE K == KidsIn(kp, p, ex, al, here)
           L == KidsIn(kq, p, ex, al, here)
<1>1. InKernel(kq, p) = InKernel(kp, p) \cup {k} /\ k \notin InKernel(kp, p)  BY DEF InKernel, OnlyOne
<1>2. DOMAIN L = DOMAIN K \cup {k} /\ k \notin DOMAIN K  BY <1>1 DEF KidsIn
<1>3. L[k] = Running  BY <1>1, <1>2 DEF KidsIn, StatusOf
<1>4. ASSUME NEW x \in DOMAIN K PROVE L[x] = K[x]
  <2>1. x # k  BY <1>2
  <2>2. x \in DOMAIN ex \cup DOMAIN al \cup here \/ x \in InKernel(kp, p)  BY DEF KidsIn
  <2>3. x \in InKernel(kp, p) => kq[x] = kp[x]  BY <2>1 DEF InKernel, OnlyOne
  <2>4. L[x] = StatusOf(kq, ex, al, here, x) /\ K[x] = StatusOf(kp, ex, al, here, x)
    BY <1>2 DEF KidsIn
  <2> QED  BY <2>2, <2>3, <2>4 DEF StatusOf, OnlyOne, Elsewhere
<1>5. L = [x \in DOMAIN L |-> L[x]]  BY DEF KidsIn
<1> QED  BY <1>2, <1>3, <1>4, <1>5 DEF Procs!With

LEMMA KernelKidReaped ==
  ASSUME NEW kp, NEW kq, NEW p, NEW ex, NEW al, NEW here, NEW k \in KPids,
         k \notin DOMAIN ex \cup DOMAIN al \cup here,
         kq[k].st = None,
         OnlyOne(kp, kq, k),
         Elsewhere(al, k)
  PROVE  KidsIn(kq, p, ex, al, here) = Procs!Without(KidsIn(kp, p, ex, al, here), k)
<1> DEFINE K == KidsIn(kp, p, ex, al, here)
           L == KidsIn(kq, p, ex, al, here)
<1>1. InKernel(kq, p) = InKernel(kp, p) \ {k}  BY DEF InKernel, OnlyOne
<1>2. DOMAIN L = DOMAIN K \ {k}  BY <1>1 DEF KidsIn
<1>4. ASSUME NEW x \in DOMAIN K \ {k} PROVE L[x] = K[x]
  <2>2. x \in DOMAIN ex \cup DOMAIN al \cup here \/ x \in InKernel(kp, p)  BY DEF KidsIn
  <2>3. x \in InKernel(kp, p) => kq[x] = kp[x]  BY DEF InKernel, OnlyOne
  <2>4. L[x] = StatusOf(kq, ex, al, here, x) /\ K[x] = StatusOf(kp, ex, al, here, x)
    BY <1>2 DEF KidsIn
  <2> QED  BY <2>2, <2>3, <2>4 DEF StatusOf, OnlyOne, Elsewhere
<1>5. L = [x \in DOMAIN L |-> L[x]]  BY DEF KidsIn
<1> QED  BY <1>2, <1>4, <1>5 DEF Procs!Without

\* A kernel process ends: the child is one of its own, or an alias of it.
LEMMA KernelKidEnds ==
  ASSUME NEW kp, NEW kq, NEW p, NEW ex, NEW al, NEW here, NEW k \in KPids, NEW s,
         k \notin DOMAIN ex \cup DOMAIN al \cup here,
         kp[k].st = Running, kp[k].of = p, kq[k].st = s, kq[k].of = p, s # None, Running # None,
         OnlyOne(kp, kq, k),
         Elsewhere(al, k)
  PROVE  KidsIn(kq, p, ex, al, here) = Ended(KidsIn(kp, p, ex, al, here), k, s)
<1> DEFINE K == KidsIn(kp, p, ex, al, here)
           L == KidsIn(kq, p, ex, al, here)
<1>1. InKernel(kq, p) = InKernel(kp, p) /\ k \in InKernel(kp, p)  BY DEF InKernel, OnlyOne
<1>2. DOMAIN L = DOMAIN K /\ k \in DOMAIN K  BY <1>1 DEF KidsIn
<1>3. L[k] = s /\ K[k] = Running  BY <1>1, <1>2 DEF KidsIn, StatusOf
<1>4. ASSUME NEW x \in DOMAIN K, x # k PROVE L[x] = K[x]
  <2>2. x \in DOMAIN ex \cup DOMAIN al \cup here \/ x \in InKernel(kp, p)  BY DEF KidsIn
  <2>3. x \in InKernel(kp, p) => kq[x] = kp[x]  BY <1>4 DEF InKernel, OnlyOne
  <2>4. L[x] = StatusOf(kq, ex, al, here, x) /\ K[x] = StatusOf(kp, ex, al, here, x)
    BY <1>2 DEF KidsIn
  <2> QED  BY <2>2, <2>3, <2>4 DEF StatusOf, OnlyOne, Elsewhere
<1>5. L = [x \in DOMAIN L |-> L[x]] /\ K = [x \in DOMAIN K |-> K[x]]  BY DEF KidsIn
<1>6. L = [K EXCEPT ![k] = s]
  <2> HIDE DEF K, L
  <2> QED  BY <1>2, <1>3, <1>4, <1>5
<1> QED  BY <1>6 DEF Ended

LEMMA AliasedKidEnds ==
  ASSUME NEW kp, NEW kq, NEW p, NEW ex, NEW al, NEW here, NEW k \in KPids, NEW s, NEW c \in DOMAIN al,
         c \notin DOMAIN ex \cup here \cup KPids, al[c] = k,
         \A e \in DOMAIN al : al[e] \in KPids /\ (al[e] = k => e = c),
         kp[k].st = Running, kp[k].of # p, kq[k].st = s, kq[k].of # p,
         OnlyOne(kp, kq, k)
  PROVE  KidsIn(kq, p, ex, al, here) = Ended(KidsIn(kp, p, ex, al, here), c, s)
<1> DEFINE K == KidsIn(kp, p, ex, al, here)
           L == KidsIn(kq, p, ex, al, here)
<1>1. InKernel(kq, p) = InKernel(kp, p) /\ k \notin InKernel(kp, p)  BY DEF InKernel, OnlyOne
<1>2. DOMAIN L = DOMAIN K /\ c \in DOMAIN K  BY <1>1 DEF KidsIn
<1>3. L[c] = s /\ K[c] = Running  BY <1>1, <1>2 DEF KidsIn, StatusOf
<1>4. ASSUME NEW x \in DOMAIN K, x # c PROVE L[x] = K[x]
  <2>2. x \in DOMAIN ex \cup DOMAIN al \cup here \/ x \in InKernel(kp, p)  BY DEF KidsIn
  <2>3. x \in InKernel(kp, p) => kq[x] = kp[x]  BY <1>1 DEF InKernel, OnlyOne
  <2>4. L[x] = StatusOf(kq, ex, al, here, x) /\ K[x] = StatusOf(kp, ex, al, here, x)
    BY <1>2 DEF KidsIn
  <2>5. x \in DOMAIN al => kq[al[x]] = kp[al[x]]  BY <1>4 DEF OnlyOne
  <2> QED  BY <2>2, <2>3, <2>4, <2>5 DEF StatusOf, OnlyOne, Elsewhere
<1>5. L = [x \in DOMAIN L |-> L[x]] /\ K = [x \in DOMAIN K |-> K[x]]  BY DEF KidsIn
<1>6. L = [K EXCEPT ![c] = s]
  <2> HIDE DEF K, L
  <2> QED  BY <1>2, <1>3, <1>4, <1>5
<1> QED  BY <1>6 DEF Ended

-----------------------------------------------------------------------------
(* Types, and the count of the streams.                                    *)

Exits == Tab(Pids, Statuses)
Names == Tab(Pids, KPids)
\* The tables of descriptors there can be: a finite number are open.
FdTables == {f \in Tables : IsFiniteSet(DOMAIN f)}
Snaps == [pid : Pids, ppid : Pids \cup {None}, childPid : Pids, mem : Mems, cwd : Dirs,
          fds : FdTables, exited : Exits, aliases : Names]
KProcs == [st : Statuses \cup {None, Running}, told : BOOLEAN, of : Pids \cup {None}]
TypeOK ==
  /\ forks \in 0..Len(ForkPids)
  /\ pid \in Pids /\ ppid \in Pids \cup {None} /\ stack \in Seq(Snaps)
  /\ mem \in Mems /\ cwd \in Dirs /\ dirs \subseteq Dirs /\ umask \in Masks /\ fds \in FdTables
  /\ exited \in Exits /\ aliases \in Names
  /\ refs \in [Descs -> Int]
  /\ kprocs \in [KPids -> KProcs]

LEMMA ForkPidsIs ==
  /\ Len(ForkPids) \in Nat /\ DOMAIN ForkPids = 1..Len(ForkPids)
  /\ \A i \in 1..Len(ForkPids) : ForkPids[i] \in Pids
<1>1. Len(ForkPids) \in Nat /\ DOMAIN ForkPids = 1..Len(ForkPids)
  BY ForkAssumption, LenProperties
<1> QED  BY <1>1 DEF Pids

LEMMA TablesAre == Tables = Tab(Fds, Descs)
BY DEF Tables, Tab

LEMMA FdTableIs ==
  ASSUME NEW f \in FdTables
  PROVE  /\ DOMAIN f \subseteq Fds /\ \A x \in DOMAIN f : f[x] \in Descs
         /\ IsFiniteSet(DOMAIN f) /\ \A d : Streams(f, d) \in Nat
<1>1. f \in Tab(Fds, Descs) /\ IsFiniteSet(DOMAIN f)  BY TablesAre DEF FdTables
<1>2. \A d : Streams(f, d) \in Nat
  <2> TAKE d
  <2>1. IsFiniteSet({x \in DOMAIN f : f[x] = d})  BY <1>1, FS_Subset
  <2> QED  BY <2>1, FS_CardinalityType DEF Streams
<1> QED  BY <1>1, <1>2, TabIs

LEMMA TypeInit == Init => TypeOK
<1> SUFFICES ASSUME Init PROVE TypeOK  OBVIOUS
<1>1. stack \in Seq(Snaps) /\ forks \in 0..Len(ForkPids)  BY ForkPidsIs DEF Init
<1>2. exited \in Exits /\ aliases \in Names /\ fds \in Tables
  BY TabEmpty, TablesAre DEF Init, Exits, Names
<1>5. fds \in FdTables
  <2>1. DOMAIN fds = {}  BY DEF Init, Empty
  <2> QED  BY <2>1, <1>2, FS_EmptySet DEF FdTables
<1>3. kprocs \in [KPids -> KProcs]  BY DEF Init, NoProc, KProcs
<1>4. pid \in Pids /\ ppid \in Pids \cup {None}  BY DEF Init, Pids
<1> QED  BY <1>1, <1>2, <1>3, <1>4, <1>5 DEF Init, TypeOK

LEMMA Popped ==
  ASSUME TypeOK, stack # <<>>
  PROVE  /\ Innermost \in Snaps /\ SubSeq(stack, 1, Len(stack) - 1) \in Seq(Snaps)
         /\ stack = Append(SubSeq(stack, 1, Len(stack) - 1), Innermost)
<1>1. stack \in Seq(Snaps) /\ Len(stack) \in Nat \ {0}  BY EmptySeq DEF TypeOK
<1>2. PICK t \in Seq(Snaps), x \in Snaps : stack = Append(t, x)
  BY <1>1, SequenceEmptyOrAppend
<1>3. /\ Len(stack) = Len(t) + 1 /\ Len(t) \in Nat /\ stack[Len(t) + 1] = x
      /\ \A i \in 1..Len(t) : stack[i] = t[i]
  BY <1>2, AppendProperties, LenProperties
<1>4. SubSeq(stack, 1, Len(stack) - 1) = t
  <2>1. Len(stack) - 1 = Len(t)  BY <1>3
  <2>2. \A i \in 1..Len(t) : stack[i] \in Snaps  BY <1>3, ElementOfSeq
  <2>3. /\ SubSeq(stack, 1, Len(t)) \in Seq(Snaps)
        /\ Len(SubSeq(stack, 1, Len(t))) = IF 1 <= Len(t) THEN Len(t) - 1 + 1 ELSE 0
        /\ \A i \in 1..(Len(t) - 1 + 1) : SubSeq(stack, 1, Len(t))[i] = stack[1 + i - 1]
    BY <2>2, <1>3, SubSeqProperties
  <2>4. \A n \in Nat : (IF 1 <= n THEN n - 1 + 1 ELSE 0) = n /\ n - 1 + 1 = n  OBVIOUS
  <2>5. Len(SubSeq(stack, 1, Len(t))) = Len(t)  BY <2>3, <2>4, <1>3
  <2>6. \A i \in 1..Len(t) : SubSeq(stack, 1, Len(t))[i] = t[i]
    <3> TAKE i \in 1..Len(t)
    <3>1. Len(t) - 1 + 1 = Len(t) /\ 1 + i - 1 = i  BY <1>3
    <3>2. SubSeq(stack, 1, Len(t))[i] = stack[1 + i - 1]  BY <2>3, <3>1
    <3> QED  BY <3>1, <3>2, <1>3
  <2>7. SubSeq(stack, 1, Len(t)) = t  BY <2>3, <2>5, <2>6, SeqEqual
  <2> QED  BY <2>1, <2>7
<1>5. Innermost = x  BY <1>3 DEF Innermost
<1> QED  BY <1>2, <1>4, <1>5

LEMMA FinishTypes ==
  ASSUME TypeOK, stack # <<>>, NEW k \in KPids \cup {None}, NEW status,
         k = None => status \in Statuses, Finish(status, k)
  PROVE  /\ stack' \in Seq(Snaps) /\ pid' \in Pids /\ ppid' \in Pids \cup {None}
         /\ mem' \in Mems /\ cwd' \in Dirs /\ dirs' \subseteq Dirs /\ umask' \in Masks /\ fds' \in FdTables
         /\ exited' \in Exits /\ aliases' \in Names /\ refs' \in [Descs -> Int]
<1>1. /\ Innermost \in Snaps /\ stack' \in Seq(Snaps)  BY Popped DEF Finish
<1>2. /\ Innermost.pid \in Pids /\ Innermost.ppid \in Pids \cup {None} /\ Innermost.childPid \in Pids
      /\ Innermost.mem \in Mems /\ Innermost.cwd \in Dirs /\ Innermost.fds \in FdTables
      /\ Innermost.exited \in Exits /\ Innermost.aliases \in Names
  BY <1>1 DEF Snaps
<1>3. exited' \in Exits
  <2>1. CASE k = None  BY <2>1, <1>2, TabWith DEF Finish, Exits
  <2>2. CASE k # None  BY <2>2, <1>2 DEF Finish
  <2> QED  BY <2>1, <2>2
<1>4. aliases' \in Names
  <2>1. CASE k = None  BY <2>1, <1>2 DEF Finish
  <2>2. CASE k # None  BY <2>2, <1>2, TabWith DEF Finish, Names
  <2> QED  BY <2>1, <2>2
<1>5. refs' \in [Descs -> Int]
  <2>1. fds \in FdTables /\ refs \in [Descs -> Int]  BY DEF TypeOK
  <2>2. \A d \in Descs : Streams(fds, d) \in Nat  BY <2>1, FdTableIs
  <2>3. \A d \in Descs : refs[d] - Streams(fds, d) \in Int  BY <2>1, <2>2
  <2> QED  BY <2>3 DEF Finish, Closed
<1> QED  BY <1>1, <1>2, <1>3, <1>4, <1>5 DEF Finish, MemBack, TypeOK

LEMMA KernelWaitTypes ==
  ASSUME TypeOK, NEW k \in KPids, NEW c, KernelWait(k, c)
  PROVE  TypeOK'
<1>1. /\ UNCHANGED <<pid, ppid, stack, forks, mem, cwd, umask, fds, refs, dirs, exited>>
      /\ kprocs' = [kprocs EXCEPT ![k] = NoProc] \/ kprocs' = [kprocs EXCEPT ![k].told = TRUE]
      /\ aliases' = aliases \/ aliases' = Without(aliases, c)
  BY DEF KernelWait, OnlyWaited, AliasesAfter, local
<1>2. kprocs' \in [KPids -> KProcs]
  <2>1. kprocs \in [KPids -> KProcs] /\ NoProc \in KProcs  BY DEF TypeOK, NoProc, KProcs
  <2>2. [kprocs EXCEPT ![k].told = TRUE] \in [KPids -> KProcs]  BY <2>1 DEF KProcs
  <2> QED  BY <2>1, <2>2, <1>1
<1>3. aliases' \in Names  BY <1>1, TabWithout DEF TypeOK, Names
<1> QED  BY <1>1, <1>2, <1>3 DEF TypeOK

LEMMA KernelExitTypes ==
  ASSUME TypeOK, NEW k \in KPids, NEW s \in Statuses, KernelExit(k, s)
  PROVE  TypeOK'
<1>1. kprocs' = [kprocs EXCEPT ![k].st = s, ![k].told = TRUE]  BY DEF KernelExit
<1>2. kprocs' \in [KPids -> KProcs]  BY <1>1 DEF TypeOK, KProcs
<1> QED  BY <1>2 DEF KernelExit, OnlyKernel, local, TypeOK

LEMMA StartedTypes ==
  ASSUME TypeOK, NEW k \in KPids, NEW p \in Pids \cup {None}, Started(k, p)
  PROVE  kprocs' \in [KPids -> KProcs]
<1>1. [st |-> Running, told |-> TRUE, of |-> p] \in KProcs  BY DEF KProcs
<1>2. kprocs' = [kprocs EXCEPT ![k] = [st |-> Running, told |-> TRUE, of |-> p]]  BY DEF Started
<1> QED  BY <1>1, <1>2 DEF TypeOK

\* What each step of Acts does to the types.
LEMMA SelfTypes == ASSUME TypeOK, Self PROVE TypeOK'
<1>1. CASE \E v \in Mems : WriteMem(v)  BY <1>1 DEF WriteMem, TypeOK
<1>2. CASE \E d \in Dirs : Chdir(d)  BY <1>2 DEF Chdir, TypeOK
<1>3. CASE \E d \in Dirs : Rmdir(d)
  <2>1. PICK d \in Dirs : Rmdir(d)  BY <1>3
  <2>2. dirs' \subseteq Dirs  BY <2>1 DEF Rmdir, TypeOK
  <2> QED  BY <2>1, <2>2 DEF Rmdir, local, TypeOK
<1>4. CASE \E m \in Masks : Umask(m)  BY <1>4 DEF Umask, TypeOK
<1>5. ASSUME NEW f \in Fds, CloseFd(f) PROVE TypeOK'
  <2>1. f \in DOMAIN fds /\ fds' = Without(fds, f) /\ fds \in FdTables  BY <1>5 DEF CloseFd, TypeOK
  <2>2. fds' \in Tables /\ IsFiniteSet(DOMAIN fds')
    BY <2>1, TabWithout, TablesAre, UsesWithout DEF FdTables
  <2>3. refs' = [refs EXCEPT ![fds[f]] = @ - 1] /\ fds[f] \in Descs  BY <1>5, <2>1, FdTableIs DEF CloseFd
  <2>4. refs' \in [Descs -> Int]  BY <2>3 DEF TypeOK
  <2>5. fds' \in FdTables  BY <2>2 DEF FdTables
  <2> QED  BY <1>5, <2>4, <2>5 DEF CloseFd, TypeOK
<1>6. ASSUME NEW f \in Fds, NEW d \in Descs, OpenFd(f, d) PROVE TypeOK'
  <2>1. f \notin DOMAIN fds /\ fds' = With(fds, f, d) /\ fds \in FdTables  BY <1>6 DEF OpenFd, TypeOK
  <2>2. fds' \in Tables /\ IsFiniteSet(DOMAIN fds')
    BY <2>1, TabWith, TablesAre, UsesWith DEF FdTables
  <2>4. refs' \in [Descs -> Int]  BY <1>6 DEF TypeOK, OpenFd
  <2>5. fds' \in FdTables  BY <2>2 DEF FdTables
  <2> QED  BY <1>6, <2>4, <2>5 DEF OpenFd, TypeOK
<1> QED  BY <1>1, <1>2, <1>3, <1>4, <1>5, <1>6 DEF Self

LEMMA NewPid ==
  ASSUME TypeOK, forks < Len(ForkPids), forks' = forks + 1
  PROVE  /\ forks' \in 1..Len(ForkPids) /\ forks' \in 0..Len(ForkPids)
         /\ ForkPids[forks'] \in Pids
BY ForkPidsIs DEF TypeOK

LEMMA BeginTypes == ASSUME TypeOK, Begin PROVE TypeOK'
<1>1. forks' \in 0..Len(ForkPids) /\ ForkPids[forks'] \in Pids  BY NewPid DEF Begin
<1> DEFINE x == [pid |-> pid, ppid |-> ppid, childPid |-> ForkPids[forks'],
                 mem |-> mem, cwd |-> cwd, fds |-> fds, exited |-> exited, aliases |-> aliases]
<1>2. x \in Snaps  BY <1>1 DEF TypeOK, Snaps
<1>3. stack' = Append(stack, x)  BY DEF Begin
<1> HIDE DEF x
<1>4. stack' \in Seq(Snaps)  BY <1>2, <1>3, AppendProperties DEF TypeOK
<1>5. refs' \in [Descs -> Int]
  <2>1. fds \in FdTables /\ refs \in [Descs -> Int]  BY DEF TypeOK
  <2>2. \A d \in Descs : Streams(fds, d) \in Nat  BY <2>1, FdTableIs
  <2>3. \A d \in Descs : refs[d] + Streams(fds, d) \in Int  BY <2>1, <2>2
  <2> QED  BY <2>3 DEF Begin, Duped
<1>6. exited' \in Exits /\ aliases' \in Names  BY TabEmpty DEF Begin, Exits, Names
<1>7. pid' \in Pids /\ ppid' \in Pids \cup {None}  BY <1>1 DEF Begin, TypeOK
<1> QED  BY <1>1, <1>4, <1>5, <1>6, <1>7 DEF Begin, local, TypeOK

LEMMA TypeNext == TypeOK /\ [Next]_vars => TypeOK'
<1> SUFFICES ASSUME TypeOK, [Next]_vars PROVE TypeOK'  OBVIOUS
<1>1. CASE UNCHANGED vars  BY <1>1 DEF vars, local, TypeOK
<1>2. CASE Self  BY <1>2, SelfTypes
<1>3. CASE Begin  BY <1>3, BeginTypes
<1>4. ASSUME NEW s \in Statuses, Exit(s) PROVE TypeOK'
  <2>1. UNCHANGED <<forks, kprocs>>  BY <1>4 DEF Exit
  <2>2. CASE stack # <<>>
    <3>1. Finish(s, None)  BY <1>4, <2>2 DEF Exit
    <3> QED  BY <2>1, <2>2, <3>1, FinishTypes DEF TypeOK
  <2>3. CASE stack = <<>>  BY <1>4, <2>1, <2>3 DEF Exit, local, TypeOK
  <2> QED  BY <2>2, <2>3
<1>5. ASSUME NEW s \in Statuses, ExecAndWait(s) PROVE TypeOK'
  <2>1. stack # <<>> /\ Finish(s, None) /\ RanAtOnce  BY <1>5 DEF ExecAndWait
  <2>2. forks' \in 0..Len(ForkPids) /\ UNCHANGED kprocs  BY <2>1, NewPid DEF RanAtOnce
  <2> QED  BY <2>1, <2>2, FinishTypes DEF TypeOK
<1>6. ASSUME NEW s \in Statuses, SpawnSync(s) PROVE TypeOK'
  <2>1. forks' \in 0..Len(ForkPids) /\ ForkPids[forks'] \in Pids /\ UNCHANGED kprocs
    BY <1>6, NewPid DEF SpawnSync, RanAtOnce
  <2>2. exited' \in Exits  BY <1>6, <2>1, TabWith DEF SpawnSync, TypeOK, Exits
  <2> QED  BY <1>6, <2>1, <2>2 DEF SpawnSync, local, TypeOK
<1>7. ASSUME NEW s \in Statuses, NEW k \in KPids, KernelExit(k, s) PROVE TypeOK'
  BY <1>7, KernelExitTypes
<1>8. ASSUME NEW s \in Statuses, NEW c \in Pids, Kill(c, s) PROVE TypeOK'
  BY <1>8, KernelExitTypes DEF Kill, Signalled
<1>9. ASSUME NEW k \in KPids, Exec(k) PROVE TypeOK'
  <2>1. stack # <<>> /\ Finish(None, k) /\ Started(k, None) /\ UNCHANGED forks  BY <1>9 DEF Exec
  <2>2. k # None  BY ForkAssumption
  <2>3. kprocs' \in [KPids -> KProcs]  BY <2>1, StartedTypes
  <2> QED  BY <2>1, <2>2, <2>3, FinishTypes DEF TypeOK
<1>10. ASSUME NEW k \in KPids, Spawn(k) PROVE TypeOK'
  <2>1. kprocs' \in [KPids -> KProcs]  BY <1>10, StartedTypes DEF Spawn, TypeOK
  <2> QED  BY <1>10, <2>1 DEF Spawn, local, TypeOK
<1>11. ASSUME NEW k \in KPids, KernelStop(k) PROVE TypeOK'
  <2>1. kprocs' \in [KPids -> KProcs]  BY <1>11 DEF KernelStop, TypeOK, KProcs
  <2> QED  BY <1>11, <2>1 DEF KernelStop, OnlyKernel, local, TypeOK
<1>12. ASSUME NEW k \in KPids, WaitKernel(k) PROVE TypeOK'  BY <1>12, KernelWaitTypes DEF WaitKernel
<1>13. ASSUME NEW c \in Pids, WaitAlias(c) PROVE TypeOK'
  <2>1. aliases[c] \in KPids  BY <1>13, TabIs DEF WaitAlias, TypeOK, Names
  <2> QED  BY <1>13, <2>1, KernelWaitTypes DEF WaitAlias
<1>14. ASSUME NEW c, WaitExited(c) PROVE TypeOK'
  <2>1. exited' \in Exits  BY <1>14, TabWithout DEF WaitExited, TypeOK, Exits
  <2> QED  BY <1>14, <2>1 DEF WaitExited, OnlyWaited, local, TypeOK
<1>15. CASE WaitAny  BY <1>14, <1>15, KernelWaitTypes DEF WaitAny
<1> QED
  BY <1>1, <1>2, <1>3, <1>4, <1>5, <1>6, <1>7, <1>8, <1>9, <1>10, <1>11, <1>12, <1>13, <1>14, <1>15
  DEF Next, Acts

-----------------------------------------------------------------------------
(* Every stream is counted.                                                *)

Counted(s, table, count, d) ==
  IsFiniteSet(Held(s, d)) /\ count[d] = Streams(table, d) + Cardinality(Held(s, d))
CountInv == TypeOK /\ \A d \in Descs : Counted(stack, fds, refs, d)

LEMMA CountInit == Init => CountInv
<1> SUFFICES ASSUME Init PROVE CountInv  OBVIOUS
<1>1. ASSUME NEW d \in Descs PROVE Counted(stack, fds, refs, d)
  <2>1. Held(stack, d) = {} /\ {f \in DOMAIN fds : fds[f] = d} = {}  BY DEF Init, Held, Empty
  <2>2. IsFiniteSet({}) /\ Cardinality({}) = 0  BY FS_EmptySet
  <2>3. refs[d] = 0  BY DEF Init
  <2> QED  BY <2>1, <2>2, <2>3 DEF Counted, Streams
<1> QED  BY <1>1, TypeInit DEF CountInv

LEMMA FinishCounts ==
  ASSUME CountInv, stack # <<>>, NEW k, NEW status, Finish(status, k), NEW d \in Descs
  PROVE  Counted(stack', fds', refs', d)
<1> DEFINE t == SubSeq(stack, 1, Len(stack) - 1)
<1>1. Innermost \in Snaps /\ t \in Seq(Snaps) /\ stack = Append(t, Innermost)
  BY Popped DEF CountInv
<1>2. stack' = t /\ fds' = Innermost.fds /\ refs' = [e \in Descs |-> refs[e] - Streams(fds, e)]
  BY DEF Finish, Closed
<1> HIDE DEF t
<1>3. Counted(stack, fds, refs, d) /\ fds \in FdTables  BY DEF CountInv, TypeOK
<1>4. Innermost.fds \in FdTables  BY <1>1 DEF Snaps
<1>5. DOMAIN Innermost.fds \subseteq Fds /\ IsFiniteSet(DOMAIN Innermost.fds)  BY <1>4, FdTableIs
<1>6. IsFiniteSet(Held(t, d))
  <2>1. Held(t, d) \subseteq Held(stack, d)
    <3>1. ASSUME NEW i \in DOMAIN t PROVE i \in DOMAIN stack /\ stack[i] = t[i]
      <4>1. Len(stack) = Len(t) + 1 /\ \A l \in 1..Len(t) : stack[l] = t[l]
        BY <1>1, AppendProperties
      <4>2. DOMAIN t = 1..Len(t) /\ DOMAIN stack = 1..Len(stack) /\ Len(t) \in Nat
        BY <1>1, LenProperties, AppendProperties
      <4> QED  BY <4>1, <4>2
    <3> QED  BY <3>1 DEF Held
  <2> QED  BY <2>1, <1>3, FS_Subset DEF Counted
<1>7. /\ Cardinality(Held(stack, d)) = Cardinality(Held(t, d)) + Streams(Innermost.fds, d)
      /\ Cardinality(Held(t, d)) \in Nat /\ Streams(Innermost.fds, d) \in Nat
  BY <1>1, <1>5, <1>6, HeldPushed
<1>8. refs'[d] = refs[d] - Streams(fds, d)  BY <1>2
<1>9. Streams(fds, d) \in Nat  BY <1>3, FdTableIs
<1>10. refs'[d] = Streams(Innermost.fds, d) + Cardinality(Held(t, d))
  BY <1>3, <1>7, <1>8, <1>9 DEF Counted
<1> QED  BY <1>2, <1>6, <1>10 DEF Counted

LEMMA BeginCounts ==
  ASSUME CountInv, Begin, NEW d \in Descs
  PROVE  Counted(stack', fds', refs', d)
<1> DEFINE x == [pid |-> pid, ppid |-> ppid, childPid |-> ForkPids[forks'],
                 mem |-> mem, cwd |-> cwd, fds |-> fds, exited |-> exited, aliases |-> aliases]
<1>1. x \in Snaps /\ x.fds = fds
  <2>1. ForkPids[forks'] \in Pids  BY NewPid DEF Begin, CountInv
  <2> QED  BY <2>1 DEF CountInv, TypeOK, Snaps
<1>2. stack' = Append(stack, x) /\ fds' = fds /\ refs'[d] = refs[d] + Streams(fds, d)
  BY DEF Begin, Duped, local
<1> HIDE DEF x
<1>3. Counted(stack, fds, refs, d) /\ fds \in FdTables /\ stack \in Seq(Snaps)  BY DEF CountInv, TypeOK
<1>4. DOMAIN fds \subseteq Fds /\ IsFiniteSet(DOMAIN fds) /\ Streams(fds, d) \in Nat  BY <1>3, FdTableIs
<1>5. /\ IsFiniteSet(Held(stack', d)) /\ Cardinality(Held(stack, d)) \in Nat
      /\ Cardinality(Held(stack', d)) = Cardinality(Held(stack, d)) + Streams(fds, d)
  BY <1>1, <1>2, <1>3, <1>4, HeldPushed DEF Counted
<1>6. refs'[d] = Streams(fds, d) + Cardinality(Held(stack', d))  BY <1>2, <1>3, <1>4, <1>5 DEF Counted
<1> QED  BY <1>2, <1>5, <1>6 DEF Counted

LEMMA SelfCounts ==
  ASSUME CountInv, Self, NEW d \in Descs
  PROVE  Counted(stack', fds', refs', d)
<1>1. Counted(stack, fds, refs, d) /\ fds \in FdTables /\ refs \in [Descs -> Int]
  BY DEF CountInv, TypeOK
<1>2. Cardinality(Held(stack, d)) \in Nat  BY <1>1, FS_CardinalityType DEF Counted
<1>3. CASE UNCHANGED <<stack, fds, refs>>  BY <1>1, <1>3
<1>4. ASSUME NEW f \in Fds, CloseFd(f) PROVE Counted(stack', fds', refs', d)
  <2>1. f \in DOMAIN fds /\ fds' = Without(fds, f) /\ stack' = stack
        /\ refs' = [refs EXCEPT ![fds[f]] = @ - 1]
    BY <1>4 DEF CloseFd
  <2>2. Streams(fds', d) = Streams(fds, d) - (IF d = fds[f] THEN 1 ELSE 0) /\ Streams(fds, d) \in Nat
    BY <1>1, <2>1, UsesWithout, FdTableIs
  <2>3. refs'[d] = refs[d] - (IF d = fds[f] THEN 1 ELSE 0)  BY <1>1, <2>1
  <2>4. refs'[d] = Streams(fds', d) + Cardinality(Held(stack, d))
    BY <1>1, <1>2, <2>2, <2>3 DEF Counted
  <2> QED  BY <1>1, <2>1, <2>4 DEF Counted
<1>5. ASSUME NEW f \in Fds, NEW e \in Descs, OpenFd(f, e) PROVE Counted(stack', fds', refs', d)
  <2>1. f \notin DOMAIN fds /\ fds' = With(fds, f, e) /\ stack' = stack
        /\ refs[e] = 0 /\ refs' = [refs EXCEPT ![e] = 1]
    BY <1>5 DEF OpenFd
  <2>2. Streams(fds', d) = Streams(fds, d) + (IF d = e THEN 1 ELSE 0) /\ Streams(fds, d) \in Nat
    BY <1>1, <2>1, UsesWith, FdTableIs
  <2>3. refs'[d] = refs[d] + (IF d = e THEN 1 ELSE 0)  BY <1>1, <2>1
  <2>4. refs'[d] = Streams(fds', d) + Cardinality(Held(stack, d))
    BY <1>1, <1>2, <2>2, <2>3 DEF Counted
  <2> QED  BY <1>1, <2>1, <2>4 DEF Counted
<1> QED
  BY <1>3, <1>4, <1>5 DEF Self, WriteMem, Chdir, Rmdir, Umask, local

LEMMA CountNext == CountInv /\ [Next]_vars => CountInv'
<1> SUFFICES ASSUME CountInv, [Next]_vars, NEW d \in Descs PROVE Counted(stack', fds', refs', d)
  BY TypeNext DEF CountInv
<1>1. CASE UNCHANGED <<stack, fds, refs>>  BY <1>1 DEF CountInv
<1>2. CASE Self  BY <1>2, SelfCounts
<1>3. CASE Begin  BY <1>3, BeginCounts
<1>4. ASSUME NEW k, NEW s, stack # <<>>, Finish(s, k) PROVE Counted(stack', fds', refs', d)
  BY <1>4, FinishCounts
<1>5. CASE \E s \in Statuses : Exit(s) \/ ExecAndWait(s)
  BY <1>1, <1>4, <1>5 DEF Exit, ExecAndWait, local
<1>6. CASE \E k \in KPids : Exec(k)  BY <1>4, <1>6 DEF Exec
<1>7. CASE \E s \in Statuses : SpawnSync(s)  BY <1>1, <1>7 DEF SpawnSync, local
<1>8. CASE \E s \in Statuses : (\E k \in KPids : KernelExit(k, s)) \/ \E c \in Pids : Kill(c, s)
  BY <1>1, <1>8 DEF KernelExit, Kill, OnlyKernel, local
<1>9. CASE \E k \in KPids : Spawn(k) \/ KernelStop(k)  BY <1>1, <1>9 DEF Spawn, KernelStop, OnlyKernel, local
<1>10. ASSUME NEW k, NEW c, KernelWait(k, c) PROVE Counted(stack', fds', refs', d)
  BY <1>1, <1>10 DEF KernelWait, OnlyWaited, local
<1>11. ASSUME NEW c, WaitExited(c) PROVE Counted(stack', fds', refs', d)
  BY <1>1, <1>11 DEF WaitExited, OnlyWaited, local
<1>12. CASE (\E k \in KPids : WaitKernel(k)) \/ (\E c \in Pids : WaitAlias(c) \/ WaitExited(c)) \/ WaitAny
  BY <1>10, <1>11, <1>12 DEF WaitKernel, WaitAlias, WaitAny
<1>13. CASE UNCHANGED vars  BY <1>1, <1>13 DEF vars, local
<1> QED
  BY <1>2, <1>3, <1>5, <1>6, <1>7, <1>8, <1>9, <1>12, <1>13 DEF Next, Acts

\* However processes fork in each other, open, close, exec and exit, every open
\* file description has as many streams as the live processes have descriptors
\* for it, so a pipe's reader sees its end when the last of them is done
\* (slicc-fork.js:9-14).
THEOREM StreamsCounted == Spec => []RefsExact
<1>1. CountInv => RefsExact  BY DEF CountInv, Counted, RefsExact, Held
<1> QED  BY <1>1, CountInit, CountNext, PTL DEF Spec

-----------------------------------------------------------------------------
(* The processes: the one that runs, me, and those of the stack s, each    *)
(* with its tables and the child it waits for.                             *)

LiveIn(me, s) == {me} \cup PidsIn(s)
ExitedIn(me, ex, s, p) == IF p = me THEN ex ELSE Snap(s, p).exited
AliasesIn(me, al, s, p) == IF p = me THEN al ELSE Snap(s, p).aliases
HereIn(me, s, p) == IF p = me THEN {} ELSE {Snap(s, p).childPid}

\* The pids that fork and spawn have given.
GivenTo(n) == {ForkPids[i] : i \in 1..n}

\* The processes are a chain, each the parent of the next.
Chain(me, s, n) ==
  /\ Distinct(s) /\ me \notin PidsIn(s)
  /\ LiveIn(me, s) \subseteq GivenTo(n) \cup {SelfPid}
  /\ \A i \in DOMAIN s : /\ s[i].childPid \in GivenTo(n)
                         /\ s[i].childPid = IF i = Len(s) THEN me ELSE s[i + 1].pid

\* A child in a table is dead, and in one table of its parent only.
Dead(me, s, n, ex, al) ==
  /\ DOMAIN ex \subseteq GivenTo(n) \ LiveIn(me, s) /\ DOMAIN al \subseteq GivenTo(n) \ LiveIn(me, s)
  /\ DOMAIN ex \cap DOMAIN al = {}
Reapable ==
  \A p \in LiveIn(pid, stack) :
    Dead(pid, stack, forks, ExitedIn(pid, exited, stack, p), AliasesIn(pid, aliases, stack, p))

\* An alias leads to a process of the kernel that is there, is no one's
\* child there, and is no other child's alias.
Leads(me, al, s, kp, p, c) ==
  LET k == AliasesIn(me, al, s, p)[c] IN
  /\ k \in KPids /\ kp[k].st # None /\ kp[k].of = None
  /\ \A q \in LiveIn(me, s) : \A e \in DOMAIN AliasesIn(me, al, s, q) :
       AliasesIn(me, al, s, q)[e] = k => p = q /\ c = e
Aliased(me, al, s, kp) ==
  \A p \in LiveIn(me, s) : \A c \in DOMAIN AliasesIn(me, al, s, p) : Leads(me, al, s, kp, p, c)
Theirs == \A k \in KPids : kprocs[k].of \in GivenTo(forks) \cup {SelfPid, None}

\* No directory a process is in goes.
Kept == cwd \in dirs /\ \A i \in DOMAIN stack : stack[i].cwd \in dirs

IInv ==
  /\ TypeOK /\ Chain(pid, stack, forks) /\ Reapable
  /\ Aliased(pid, aliases, stack, kprocs) /\ Theirs /\ Kept

AllCareful == {"wait", "pid", "rmdir", "umask"} \subseteq Careful

LEMMA GivenFacts ==
  ASSUME NEW n \in 0..Len(ForkPids)
  PROVE  /\ GivenTo(n) \cap (KPids \cup {SelfPid, None}) = {}
         /\ n < Len(ForkPids) => /\ GivenTo(n + 1) = GivenTo(n) \cup {ForkPids[n + 1]}
                                 /\ ForkPids[n + 1] \notin GivenTo(n) \cup KPids \cup {SelfPid, None}
<1>1. Len(ForkPids) \in Nat /\ DOMAIN ForkPids = 1..Len(ForkPids)  BY ForkPidsIs
<1>2. \A i \in 1..Len(ForkPids) :
        /\ ForkPids[i] \notin KPids \cup {SelfPid, None}
        /\ \A l \in 1..Len(ForkPids) : ForkPids[i] = ForkPids[l] => i = l
  BY <1>1, ForkAssumption
<1>3. GivenTo(n) \cap (KPids \cup {SelfPid, None}) = {}  BY <1>1, <1>2 DEF GivenTo
<1>4. ASSUME n < Len(ForkPids)
      PROVE  /\ GivenTo(n + 1) = GivenTo(n) \cup {ForkPids[n + 1]}
             /\ ForkPids[n + 1] \notin GivenTo(n) \cup KPids \cup {SelfPid, None}
  <2>1. 1..(n + 1) = 1..n \cup {n + 1} /\ n + 1 \in 1..Len(ForkPids) /\ n + 1 \notin 1..n
        /\ 1..n \subseteq 1..Len(ForkPids)
    BY <1>1, <1>4
  <2>2. GivenTo(n + 1) = GivenTo(n) \cup {ForkPids[n + 1]}  BY <2>1 DEF GivenTo
  <2>3. ForkPids[n + 1] \notin GivenTo(n)  BY <1>2, <2>1 DEF GivenTo
  <2> QED  BY <1>2, <2>1, <2>2, <2>3
<1> QED  BY <1>3, <1>4

\* The pid of a process that begins, or of a program that ran at once, is new.
LEMMA NewGiven ==
  ASSUME IInv, forks < Len(ForkPids), forks' = forks + 1
  PROVE  /\ GivenTo(forks') = GivenTo(forks) \cup {ForkPids[forks']}
         /\ ForkPids[forks'] \notin GivenTo(forks) \cup KPids \cup {SelfPid, None}
         /\ ForkPids[forks'] \notin LiveIn(pid, stack)
<1>1. forks \in 0..Len(ForkPids)  BY DEF IInv, TypeOK
<1> QED  BY <1>1, GivenFacts DEF IInv, Chain

\* A child that is waited for lives.
LEMMA HereLives ==
  ASSUME NEW me, NEW s, NEW n, Chain(me, s, n), NEW S, s \in Seq(S), NEW p \in LiveIn(me, s)
  PROVE  HereIn(me, s, p) \subseteq LiveIn(me, s) \cap GivenTo(n)
<1>1. CASE p = me  BY <1>1 DEF HereIn
<1>2. CASE p # me
  <2>1. PICK i \in DOMAIN s : s[i].pid = p  BY <1>2 DEF LiveIn, PidsIn
  <2>2. Snap(s, p) = s[i]  BY <2>1, SnapIs DEF Chain
  <2>3. s[i].childPid \in LiveIn(me, s)
    <3>1. DOMAIN s = 1..Len(s) /\ Len(s) \in Nat  BY LenProperties
    <3>2. CASE i = Len(s)  BY <3>2, <2>1 DEF Chain, LiveIn
    <3>3. CASE i # Len(s)
      <4>1. i + 1 \in DOMAIN s  BY <3>1, <3>3
      <4> QED  BY <4>1, <3>3, <2>1 DEF Chain, LiveIn, PidsIn
    <3> QED  BY <3>2, <3>3
  <2> QED  BY <1>2, <2>1, <2>2, <2>3 DEF HereIn, Chain
<1> QED  BY <1>1, <1>2

LEMMA LivesInit == Init => IInv
<1> SUFFICES ASSUME Init PROVE IInv  OBVIOUS
<1>1. TypeOK  BY TypeInit
<1>2. PidsIn(stack) = {} /\ DOMAIN stack = {}  BY DEF Init, PidsIn
<1>3. Chain(pid, stack, forks)  BY <1>2 DEF Chain, LiveIn, Distinct, Init
<1>4. DOMAIN exited = {} /\ DOMAIN aliases = {}  BY DEF Init, Empty
<1>5. \A p \in LiveIn(pid, stack) : p = pid  BY <1>2 DEF LiveIn
<1>6. Reapable  BY <1>4, <1>5 DEF Reapable, Dead, ExitedIn, AliasesIn
<1>7. Aliased(pid, aliases, stack, kprocs)  BY <1>4, <1>5 DEF Aliased, AliasesIn
<1>8. Theirs /\ Kept  BY <1>2 DEF Theirs, Kept, Init, NoProc
<1> QED  BY <1>1, <1>3, <1>6, <1>7, <1>8 DEF IInv

\* Begin: the child has no tables, and the parent's are in its snapshot.
LEMMA BeginLives == ASSUME IInv, Begin PROVE IInv'
<1> DEFINE c == ForkPids[forks']
           x == [pid |-> pid, ppid |-> ppid, childPid |-> c,
                 mem |-> mem, cwd |-> cwd, fds |-> fds, exited |-> exited, aliases |-> aliases]
<1>1. /\ stack' = Append(stack, x) /\ pid' = c /\ exited' = Empty /\ aliases' = Empty
      /\ forks' = forks + 1 /\ forks < Len(ForkPids) /\ UNCHANGED <<cwd, dirs, kprocs>>
  BY DEF Begin, local
<1>2. TypeOK' /\ x \in Snaps
  <2>1. c \in Pids  BY <1>1, NewPid DEF IInv
  <2> QED  BY <2>1, BeginTypes DEF IInv, TypeOK, Snaps
<1>3. /\ GivenTo(forks') = GivenTo(forks) \cup {c} /\ c \notin GivenTo(forks) \cup KPids \cup {SelfPid, None}
      /\ c \notin LiveIn(pid, stack)
  BY <1>1, NewGiven
<1>4. /\ stack \in Seq(Snaps) /\ Chain(pid, stack, forks) /\ Distinct(stack) /\ pid \notin PidsIn(stack)
      /\ x.pid = pid /\ x.childPid = c /\ x.exited = exited /\ x.aliases = aliases /\ x.cwd = cwd
  BY DEF IInv, TypeOK, Chain
<1> HIDE DEF x, c
<1>5. /\ Distinct(stack') /\ PidsIn(stack') = PidsIn(stack) \cup {pid} /\ Snap(stack', pid) = x
      /\ \A p \in PidsIn(stack) : Snap(stack', p) = Snap(stack, p)
  BY <1>1, <1>2, <1>4, SnapPushed
<1>6. /\ Len(stack') = Len(stack) + 1 /\ Len(stack) \in Nat /\ stack'[Len(stack) + 1] = x
      /\ DOMAIN stack = 1..Len(stack) /\ DOMAIN stack' = 1..(Len(stack) + 1)
      /\ \A i \in 1..Len(stack) : stack'[i] = stack[i]
  <2>1. stack' \in Seq(Snaps)  BY <1>2 DEF TypeOK
  <2> QED  BY <2>1, <1>1, <1>2, <1>4, AppendProperties, LenProperties
<1>7. LiveIn(pid', stack') = LiveIn(pid, stack) \cup {c}  BY <1>1, <1>5 DEF LiveIn
<1>8. Chain(pid', stack', forks')
  <2>1. pid' \notin PidsIn(stack')  BY <1>1, <1>3, <1>5 DEF LiveIn
  <2>2. LiveIn(pid', stack') \subseteq GivenTo(forks') \cup {SelfPid}  BY <1>3, <1>4, <1>7 DEF Chain
  <2>3. ASSUME NEW i \in DOMAIN stack'
        PROVE  /\ stack'[i].childPid \in GivenTo(forks')
               /\ stack'[i].childPid = IF i = Len(stack') THEN pid' ELSE stack'[i + 1].pid
    <3>1. CASE i = Len(stack) + 1  BY <3>1, <1>1, <1>3, <1>4, <1>6
    <3>2. CASE i # Len(stack) + 1
      <4>1. i \in 1..Len(stack)  BY <3>2, <1>6
      <4>2. /\ stack[i].childPid \in GivenTo(forks)
            /\ stack[i].childPid = IF i = Len(stack) THEN pid ELSE stack[i + 1].pid
        BY <4>1, <1>4, <1>6 DEF Chain
      <4>3. CASE i = Len(stack)  BY <4>1, <4>2, <4>3, <1>3, <1>4, <1>6
      <4>4. CASE i # Len(stack)
        <5>1. i + 1 \in 1..Len(stack)  BY <4>1, <4>4, <1>6
        <5> QED  BY <5>1, <4>1, <4>2, <4>4, <3>2, <1>3, <1>6
      <4> QED  BY <4>3, <4>4
    <3> QED  BY <3>1, <3>2
  <2> QED  BY <1>5, <2>1, <2>2, <2>3 DEF Chain
<1>9. /\ DOMAIN ExitedIn(pid', exited', stack', c) = {} /\ DOMAIN AliasesIn(pid', aliases', stack', c) = {}
      /\ \A p \in LiveIn(pid, stack) :
           /\ ExitedIn(pid', exited', stack', p) = ExitedIn(pid, exited, stack, p)
           /\ AliasesIn(pid', aliases', stack', p) = AliasesIn(pid, aliases, stack, p)
  <2>1. DOMAIN Empty = {}  BY DEF Empty
  <2>2. ASSUME NEW p \in LiveIn(pid, stack)
        PROVE  /\ ExitedIn(pid', exited', stack', p) = ExitedIn(pid, exited, stack, p)
               /\ AliasesIn(pid', aliases', stack', p) = AliasesIn(pid, aliases, stack, p)
    <3>1. p # pid'  BY <1>1, <1>3
    <3>2. CASE p = pid  BY <3>1, <3>2, <1>4, <1>5 DEF ExitedIn, AliasesIn
    <3>3. CASE p # pid
      <4>1. Snap(stack', p) = Snap(stack, p)  BY <3>3, <1>5 DEF LiveIn
      <4> QED  BY <4>1, <3>1, <3>3 DEF ExitedIn, AliasesIn
    <3> QED  BY <3>2, <3>3
  <2> QED  BY <2>1, <2>2, <1>1 DEF ExitedIn, AliasesIn
<1>10. Reapable'
  <2>1. ASSUME NEW p \in LiveIn(pid', stack')
        PROVE  Dead(pid', stack', forks', ExitedIn(pid', exited', stack', p), AliasesIn(pid', aliases', stack', p))
    <3>1. CASE p = c  BY <3>1, <1>9 DEF Dead
    <3>2. CASE p \in LiveIn(pid, stack)
      <4>1. Dead(pid, stack, forks, ExitedIn(pid, exited, stack, p), AliasesIn(pid, aliases, stack, p))
        BY <3>2 DEF IInv, Reapable
      <4>2. GivenTo(forks) \ LiveIn(pid, stack) \subseteq GivenTo(forks') \ LiveIn(pid', stack')
        BY <1>3, <1>7
      <4> QED  BY <4>1, <4>2, <3>2, <1>9 DEF Dead
    <3> QED  BY <3>1, <3>2, <1>7
  <2> QED  BY <2>1 DEF Reapable
<1>11. Aliased(pid', aliases', stack', kprocs')
  <2>1. ASSUME NEW p \in LiveIn(pid', stack'), NEW e \in DOMAIN AliasesIn(pid', aliases', stack', p)
        PROVE  p \in LiveIn(pid, stack)
    BY <2>1, <1>7, <1>9
  <2>2. Aliased(pid, aliases, stack, kprocs)  BY DEF IInv
  <2>3. ASSUME NEW p \in LiveIn(pid', stack'), NEW e \in DOMAIN AliasesIn(pid', aliases', stack', p)
        PROVE  Leads(pid', aliases', stack', kprocs', p, e)
    <3>1. /\ p \in LiveIn(pid, stack)
          /\ AliasesIn(pid', aliases', stack', p) = AliasesIn(pid, aliases, stack, p)
      BY <2>1, <1>9
    <3>2. Leads(pid, aliases, stack, kprocs, p, e)  BY <3>1, <2>2 DEF Aliased
    <3>3. \A q \in LiveIn(pid', stack') : \A f \in DOMAIN AliasesIn(pid', aliases', stack', q) :
            /\ q \in LiveIn(pid, stack)
            /\ AliasesIn(pid', aliases', stack', q) = AliasesIn(pid, aliases, stack, q)
      BY <2>1, <1>9
    <3> QED  BY <3>1, <3>2, <3>3, <1>1 DEF Leads
  <2> QED  BY <2>3 DEF Aliased
<1>12. Theirs'  BY <1>1, <1>3 DEF IInv, Theirs
<1>13. Kept'
  <2>1. ASSUME NEW i \in DOMAIN stack' PROVE stack'[i].cwd \in dirs
    <3>1. CASE i = Len(stack) + 1  BY <3>1, <1>4, <1>6 DEF IInv, Kept
    <3>2. CASE i # Len(stack) + 1
      <4>1. i \in 1..Len(stack)  BY <3>2, <1>6
      <4> QED  BY <4>1, <1>6 DEF IInv, Kept
    <3> QED  BY <3>1, <3>2
  <2> QED  BY <2>1, <1>1 DEF IInv, Kept
<1> QED  BY <1>2, <1>8, <1>10, <1>11, <1>12, <1>13 DEF IInv

\* finish: the parent is back, with its tables and directory.
LEMMA FinishShape ==
  ASSUME IInv, stack # <<>>, NEW k, NEW status, Finish(status, k)
  PROVE  /\ Innermost \in Snaps /\ Innermost.childPid = pid /\ pid' = Innermost.pid /\ pid' # pid
         /\ pid \in GivenTo(forks) /\ pid' \in LiveIn(pid, stack)
         /\ LiveIn(pid', stack') = LiveIn(pid, stack) \ {pid}
         /\ Snap(stack, pid') = Innermost
         /\ \A p \in LiveIn(pid', stack') : p # pid' => Snap(stack', p) = Snap(stack, p)
         /\ stack' \in Seq(Snaps) /\ Chain(pid', stack', forks)
         /\ Kept' /\ cwd' = Innermost.cwd
<1> DEFINE x == Innermost
<1>1. stack \in Seq(Snaps) /\ Chain(pid, stack, forks) /\ Distinct(stack) /\ pid \notin PidsIn(stack)
  BY DEF IInv, TypeOK, Chain
<1>2. /\ stack' = SubSeq(stack, 1, Len(stack) - 1) /\ pid' = x.pid /\ UNCHANGED dirs
      /\ cwd' = IF x.cwd \in dirs THEN x.cwd ELSE cwd
  BY DEF Finish
<1>3. /\ Len(stack) \in Nat \ {0} /\ x \in Snaps
      /\ stack' \in Seq(Snaps) /\ Len(stack') = Len(stack) - 1
      /\ \A i \in DOMAIN stack' : i \in DOMAIN stack /\ stack'[i] = stack[i]
      /\ Distinct(stack') /\ x.pid \notin PidsIn(stack') /\ PidsIn(stack) = PidsIn(stack') \cup {x.pid}
      /\ Snap(stack, x.pid) = x
      /\ \A p \in PidsIn(stack') : Snap(stack', p) = Snap(stack, p)
  BY <1>1, <1>2, SnapPopped DEF Innermost
<1>4. DOMAIN stack = 1..Len(stack) /\ DOMAIN stack' = 1..Len(stack')  BY <1>1, <1>3, LenProperties
<1>5. Len(stack) \in DOMAIN stack /\ x = stack[Len(stack)]  BY <1>3, <1>4 DEF Innermost
<1> HIDE DEF x
<1>6. x.childPid = pid /\ x.childPid \in GivenTo(forks)  BY <1>1, <1>5 DEF Chain
<1>7. LiveIn(pid', stack') = LiveIn(pid, stack) \ {pid} /\ pid' # pid /\ pid' \in LiveIn(pid, stack)
  BY <1>1, <1>2, <1>3 DEF LiveIn
<1>8. \A p \in LiveIn(pid', stack') : p # pid' => Snap(stack', p) = Snap(stack, p)
  BY <1>3 DEF LiveIn
<1>9. Chain(pid', stack', forks)
  <2>1. ASSUME NEW i \in DOMAIN stack'
        PROVE  /\ stack'[i].childPid \in GivenTo(forks)
               /\ stack'[i].childPid = IF i = Len(stack') THEN pid' ELSE stack'[i + 1].pid
    <3>1. i \in DOMAIN stack /\ stack'[i] = stack[i]  BY <1>3
    <3>2. i # Len(stack)  BY <1>3, <1>4
    <3>3. stack[i].childPid \in GivenTo(forks) /\ stack[i].childPid = stack[i + 1].pid
      BY <3>1, <3>2, <1>1 DEF Chain
    <3>4. CASE i = Len(stack')
      <4>1. i + 1 = Len(stack)  BY <3>4, <1>3
      <4> QED  BY <4>1, <3>1, <3>3, <3>4, <1>2, <1>5
    <3>5. CASE i # Len(stack')
      <4>1. i + 1 \in DOMAIN stack'  BY <3>5, <1>3, <1>4
      <4>2. stack'[i + 1] = stack[i + 1]  BY <4>1, <1>3
      <4> QED  BY <4>2, <3>1, <3>3, <3>5
    <3> QED  BY <3>4, <3>5
  <2>2. pid' \notin PidsIn(stack')  BY <1>2, <1>3
  <2>3. LiveIn(pid', stack') \subseteq GivenTo(forks) \cup {SelfPid}  BY <1>1, <1>7 DEF Chain
  <2> QED  BY <1>3, <2>1, <2>2, <2>3 DEF Chain
<1>10. Kept' /\ cwd' = x.cwd
  <2>1. x.cwd \in dirs /\ \A i \in DOMAIN stack : stack[i].cwd \in dirs  BY <1>5 DEF IInv, Kept
  <2>2. \A i \in DOMAIN stack' : stack'[i].cwd \in dirs'  BY <2>1, <1>2, <1>3
  <2> QED  BY <2>1, <2>2, <1>2 DEF Kept
<1> QED  BY <1>2, <1>3, <1>6, <1>7, <1>8, <1>9, <1>10 DEF x

\* The tables of the processes that are left: the parent gets its child's
\* status, or a name for the kernel process that replaced it.
LEMMA FinishTables ==
  ASSUME IInv, stack # <<>>, NEW k, NEW status, Finish(status, k), NEW p \in LiveIn(pid', stack')
  PROVE  /\ p \in LiveIn(pid, stack) /\ p # pid
         /\ ExitedIn(pid', exited', stack', p)
              = IF k = None /\ p = pid' THEN With(ExitedIn(pid, exited, stack, p), pid, status)
                ELSE ExitedIn(pid, exited, stack, p)
         /\ AliasesIn(pid', aliases', stack', p)
              = IF k # None /\ p = pid' THEN With(AliasesIn(pid, aliases, stack, p), pid, k)
                ELSE AliasesIn(pid, aliases, stack, p)
<1>1. /\ Innermost.childPid = pid /\ pid' # pid /\ LiveIn(pid', stack') = LiveIn(pid, stack) \ {pid}
      /\ Snap(stack, pid') = Innermost
      /\ p # pid' => Snap(stack', p) = Snap(stack, p)
  BY FinishShape
<1>2. /\ exited' = IF k = None THEN With(Innermost.exited, Innermost.childPid, status) ELSE Innermost.exited
      /\ aliases' = IF k = None THEN Innermost.aliases ELSE With(Innermost.aliases, Innermost.childPid, k)
  BY DEF Finish
<1>3. p \in LiveIn(pid, stack) /\ p # pid  BY <1>1
<1>4. CASE p = pid'  BY <1>1, <1>2, <1>4 DEF ExitedIn, AliasesIn
<1>5. CASE p # pid'  BY <1>1, <1>3, <1>5 DEF ExitedIn, AliasesIn
<1> QED  BY <1>3, <1>4, <1>5

LEMMA FinishLives ==
  ASSUME IInv, TypeOK', stack # <<>>, NEW k, NEW status, Finish(status, k),
         GivenTo(forks) \subseteq GivenTo(forks'),
         k = None => UNCHANGED kprocs,
         k # None => k \in KPids /\ Started(k, None)
  PROVE  IInv'
<1>1. /\ pid' # pid /\ pid \in GivenTo(forks)
      /\ LiveIn(pid', stack') = LiveIn(pid, stack) \ {pid}
      /\ Chain(pid', stack', forks) /\ Kept'
  BY FinishShape
<1>2. Chain(pid', stack', forks')  BY <1>1 DEF Chain
<1>3. Reapable'
  <2>1. ASSUME NEW p \in LiveIn(pid', stack')
        PROVE  Dead(pid', stack', forks', ExitedIn(pid', exited', stack', p), AliasesIn(pid', aliases', stack', p))
    <3> DEFINE ex == ExitedIn(pid, exited, stack, p)
               al == AliasesIn(pid, aliases, stack, p)
               exs == ExitedIn(pid', exited', stack', p)
               als == AliasesIn(pid', aliases', stack', p)
    <3>1. /\ p \in LiveIn(pid, stack)
          /\ \/ exs = ex /\ als = al
             \/ exs = With(ex, pid, status) /\ als = al
             \/ exs = ex /\ als = With(al, pid, k)
      BY FinishTables
    <3>2. /\ DOMAIN ex \subseteq GivenTo(forks) \ LiveIn(pid, stack)
          /\ DOMAIN al \subseteq GivenTo(forks) \ LiveIn(pid, stack)
          /\ DOMAIN ex \cap DOMAIN al = {}
      BY <3>1 DEF IInv, Reapable, Dead
    <3> HIDE DEF ex, al, exs, als
    <3>3. pid \notin DOMAIN ex \cup DOMAIN al  BY <3>2 DEF LiveIn
    <3>4. /\ DOMAIN exs \subseteq DOMAIN ex \cup {pid} /\ DOMAIN als \subseteq DOMAIN al \cup {pid}
          /\ DOMAIN exs = DOMAIN ex \/ DOMAIN als = DOMAIN al
      BY <3>1 DEF With
    <3>5. DOMAIN exs \cap DOMAIN als = {}  BY <3>2, <3>3, <3>4
    <3>6. (GivenTo(forks) \ LiveIn(pid, stack)) \cup {pid} \subseteq GivenTo(forks') \ LiveIn(pid', stack')
      BY <1>1
    <3>7. DOMAIN exs \subseteq GivenTo(forks') \ LiveIn(pid', stack')  BY <3>2, <3>4, <3>6
    <3>8. DOMAIN als \subseteq GivenTo(forks') \ LiveIn(pid', stack')  BY <3>2, <3>4, <3>6
    <3> QED  BY <3>5, <3>7, <3>8 DEF Dead, exs, als
  <2> QED  BY <2>1 DEF Reapable
<1>4. Aliased(pid', aliases', stack', kprocs')
  <2> DEFINE Al(p) == AliasesIn(pid, aliases, stack, p)
             Als(p) == AliasesIn(pid', aliases', stack', p)
  <2>1. \A p \in LiveIn(pid', stack') :
          /\ p \in LiveIn(pid, stack)
          /\ Als(p) = IF k # None /\ p = pid' THEN With(Al(p), pid, k) ELSE Al(p)
    BY FinishTables
  <2>2. \A p \in LiveIn(pid, stack) : \A c \in DOMAIN Al(p) :
          /\ Al(p)[c] \in KPids /\ kprocs[Al(p)[c]].st # None /\ kprocs[Al(p)[c]].of = None
          /\ \A q \in LiveIn(pid, stack) : \A e \in DOMAIN Al(q) : Al(q)[e] = Al(p)[c] => p = q /\ c = e
    BY DEF IInv, Aliased, Leads
  <2>3. \A p \in LiveIn(pid, stack) : pid \notin DOMAIN Al(p)
    BY DEF IInv, Reapable, Dead, LiveIn
  <2>4. CASE k = None
    <3> HIDE DEF Al, Als
    <3>1. \A p \in LiveIn(pid', stack') : p \in LiveIn(pid, stack) /\ Als(p) = Al(p)  BY <2>1, <2>4
    <3>2. \A p \in LiveIn(pid', stack') : \A c \in DOMAIN Als(p) :
            /\ Als(p)[c] \in KPids /\ kprocs[Als(p)[c]].st # None /\ kprocs[Als(p)[c]].of = None
            /\ \A q \in LiveIn(pid', stack') : \A e \in DOMAIN Als(q) : Als(q)[e] = Als(p)[c] => p = q /\ c = e
      BY <3>1, <2>2
    <3> QED  BY <3>2, <2>4 DEF Aliased, Leads, Als
  <2>5. CASE k # None
    <3>1. /\ k \in KPids /\ kprocs[k].st = None
          /\ kprocs'[k].st = Running /\ kprocs'[k].of = None
          /\ \A l \in KPids : l # k => kprocs'[l] = kprocs[l]
      BY <2>5 DEF Started, NoProc, IInv, TypeOK
    <3>2. Running # None  BY ForkAssumption
    <3> HIDE DEF Al, Als
    <3>3. \A p \in LiveIn(pid, stack) : \A c \in DOMAIN Al(p) : Al(p)[c] # k  BY <2>2, <3>1
    <3>4. ASSUME NEW p \in LiveIn(pid', stack'), NEW c \in DOMAIN Als(p)
          PROVE  \/ p = pid' /\ c = pid /\ Als(p)[c] = k
                 \/ c # pid /\ c \in DOMAIN Al(p) /\ Als(p)[c] = Al(p)[c] /\ Als(p)[c] # k
      <4>1. CASE p = pid'
        <5>1. Als(p) = With(Al(p), pid, k) /\ p \in LiveIn(pid, stack)  BY <4>1, <2>1, <2>5
        <5>2. c \in DOMAIN Al(p) \cup {pid} /\ Als(p)[c] = IF c = pid THEN k ELSE Al(p)[c]  BY <5>1 DEF With
        <5> QED  BY <5>1, <5>2, <4>1, <3>3
      <4>2. CASE p # pid'
        <5>1. Als(p) = Al(p) /\ p \in LiveIn(pid, stack)  BY <4>2, <2>1
        <5> QED  BY <5>1, <2>3, <3>3
      <4> QED  BY <4>1, <4>2
    <3>5. ASSUME NEW p \in LiveIn(pid', stack'), NEW c \in DOMAIN Als(p)
          PROVE  Als(p)[c] \in KPids /\ kprocs'[Als(p)[c]].st # None /\ kprocs'[Als(p)[c]].of = None
      <4>1. CASE Als(p)[c] = k  BY <4>1, <3>1, <3>2
      <4>2. CASE Als(p)[c] # k
        <5>1. c \in DOMAIN Al(p) /\ Als(p)[c] = Al(p)[c] /\ p \in LiveIn(pid, stack)  BY <4>2, <3>4, <2>1
        <5>2. Al(p)[c] \in KPids /\ kprocs[Al(p)[c]].st # None /\ kprocs[Al(p)[c]].of = None  BY <5>1, <2>2
        <5> QED  BY <5>1, <5>2, <4>2, <3>1
      <4> QED  BY <4>1, <4>2
    <3>6. ASSUME NEW p \in LiveIn(pid', stack'), NEW c \in DOMAIN Als(p),
                 NEW q \in LiveIn(pid', stack'), NEW e \in DOMAIN Als(q), Als(q)[e] = Als(p)[c]
          PROVE  p = q /\ c = e
      <4>1. CASE Als(p)[c] = k  BY <4>1, <3>4, <3>6
      <4>2. CASE Als(p)[c] # k
        <5>1. /\ c \in DOMAIN Al(p) /\ Als(p)[c] = Al(p)[c] /\ p \in LiveIn(pid, stack)
              /\ e \in DOMAIN Al(q) /\ Als(q)[e] = Al(q)[e] /\ q \in LiveIn(pid, stack)
          BY <4>2, <3>4, <3>6, <2>1
        <5>2. Al(q)[e] = Al(p)[c]  BY <5>1, <3>6
        <5> QED  BY <5>1, <5>2, <2>2
      <4> QED  BY <4>1, <4>2
    <3> QED  BY <3>5, <3>6 DEF Aliased, Leads, Als
  <2> QED  BY <2>4, <2>5
<1>5. Theirs'
  <2>1. CASE k = None  BY <2>1 DEF IInv, Theirs
  <2>2. CASE k # None
    <3>1. \A l \in KPids : kprocs'[l].of = None \/ kprocs'[l] = kprocs[l]
      BY <2>2 DEF Started, IInv, TypeOK
    <3> QED  BY <3>1 DEF IInv, Theirs
  <2> QED  BY <2>1, <2>2
<1> QED  BY <1>1, <1>2, <1>3, <1>4, <1>5 DEF IInv

-----------------------------------------------------------------------------
(* The steps that leave the chain as it is.                                *)

LEMMA SelfLives == ASSUME AllCareful, IInv, Self PROVE IInv'
<1>1. TypeOK'  BY SelfTypes DEF IInv
<1>2. UNCHANGED <<pid, stack, forks, exited, aliases, kprocs>>
  BY DEF Self, WriteMem, Chdir, Rmdir, Umask, CloseFd, OpenFd, local
<1>3. Kept'
  <2>1. CASE \E d \in Dirs : Chdir(d)  BY <2>1 DEF Chdir, IInv, Kept
  <2>2. CASE \E d \in Dirs : Rmdir(d)
    <3>1. PICK d \in Dirs : Rmdir(d)  BY <2>2
    <3>2. /\ dirs' = dirs \ {d} /\ d # cwd /\ UNCHANGED <<cwd, stack>>
          /\ \A i \in DOMAIN stack : stack[i].cwd # d
      BY <3>1 DEF Rmdir, local, AllCareful
    <3> QED  BY <3>2 DEF IInv, Kept
  <2>3. CASE UNCHANGED <<cwd, dirs, stack>>  BY <2>3 DEF IInv, Kept
  <2> QED  BY <2>1, <2>2, <2>3 DEF Self, WriteMem, Umask, CloseFd, OpenFd
<1> QED  BY <1>1, <1>2, <1>3 DEF IInv, Reapable, Theirs

LEMMA SpawnSyncLives == ASSUME IInv, NEW s \in Statuses, SpawnSync(s) PROVE IInv'
<1> DEFINE c == ForkPids[forks']
<1>1. /\ forks < Len(ForkPids) /\ forks' = forks + 1 /\ exited' = With(exited, c, s)
      /\ UNCHANGED <<pid, stack, aliases, kprocs, cwd, dirs>>
  BY DEF SpawnSync, RanAtOnce, local
<1>2. /\ GivenTo(forks') = GivenTo(forks) \cup {c} /\ c \notin GivenTo(forks) /\ c \notin LiveIn(pid, stack)
  BY <1>1, NewGiven
<1>3. TypeOK'
  <2>2. forks' \in 0..Len(ForkPids) /\ c \in Pids  BY <1>1, NewPid DEF IInv
  <2>3. exited' \in Exits  BY <1>1, <2>2, TabWith DEF IInv, TypeOK, Exits
  <2> QED  BY <2>2, <2>3 DEF SpawnSync, RanAtOnce, local, IInv, TypeOK
<1> HIDE DEF c
<1>4. Reapable'
  <2>1. ASSUME NEW p \in LiveIn(pid, stack)
        PROVE  Dead(pid, stack, forks', ExitedIn(pid, exited', stack, p), AliasesIn(pid, aliases, stack, p))
    <3>1. Dead(pid, stack, forks, ExitedIn(pid, exited, stack, p), AliasesIn(pid, aliases, stack, p))
      BY DEF IInv, Reapable
    <3>2. ExitedIn(pid, exited', stack, p) = ExitedIn(pid, exited, stack, p)
          \/ DOMAIN ExitedIn(pid, exited', stack, p) = DOMAIN ExitedIn(pid, exited, stack, p) \cup {c}
      BY <1>1 DEF ExitedIn, With
    <3> QED  BY <3>1, <3>2, <1>2 DEF Dead
  <2> QED  BY <2>1, <1>1 DEF Reapable
<1>5. Chain(pid, stack, forks') /\ Theirs'  BY <1>1, <1>2 DEF IInv, Chain, Theirs
<1> QED  BY <1>1, <1>3, <1>4, <1>5 DEF IInv, Kept

\* The kernel's processes change, and no alias but may be gone.
LEMMA KernelLives ==
  ASSUME IInv, TypeOK', UNCHANGED <<pid, stack, forks, exited, cwd, dirs>>,
         Theirs', NEW c,
         aliases' = aliases \/ aliases' = Without(aliases, c),
         \A p \in LiveIn(pid, stack) : \A e \in DOMAIN AliasesIn(pid, aliases', stack, p) :
           LET k == AliasesIn(pid, aliases, stack, p)[e] IN
           kprocs'[k].st # None /\ kprocs'[k].of = kprocs[k].of
  PROVE  IInv'
<1>1. ASSUME NEW p \in LiveIn(pid, stack)
      PROVE  /\ DOMAIN AliasesIn(pid, aliases', stack, p) \subseteq DOMAIN AliasesIn(pid, aliases, stack, p)
             /\ \A e \in DOMAIN AliasesIn(pid, aliases', stack, p) :
                  AliasesIn(pid, aliases', stack, p)[e] = AliasesIn(pid, aliases, stack, p)[e]
  BY DEF AliasesIn, Without
<1>2. Reapable'
  <2>1. ASSUME NEW p \in LiveIn(pid, stack)
        PROVE  Dead(pid, stack, forks, ExitedIn(pid, exited, stack, p), AliasesIn(pid, aliases', stack, p))
    <3>1. Dead(pid, stack, forks, ExitedIn(pid, exited, stack, p), AliasesIn(pid, aliases, stack, p))
      BY DEF IInv, Reapable
    <3> QED  BY <3>1, <1>1 DEF Dead
  <2> QED  BY <2>1 DEF Reapable
<1>3. Aliased(pid, aliases', stack, kprocs')
  <2>1. ASSUME NEW p \in LiveIn(pid, stack), NEW e \in DOMAIN AliasesIn(pid, aliases', stack, p)
        PROVE  Leads(pid, aliases', stack, kprocs', p, e)
    <3>1. e \in DOMAIN AliasesIn(pid, aliases, stack, p)
          /\ AliasesIn(pid, aliases', stack, p)[e] = AliasesIn(pid, aliases, stack, p)[e]
      BY <1>1
    <3>2. Leads(pid, aliases, stack, kprocs, p, e)  BY <3>1 DEF IInv, Aliased
    <3>3. ASSUME NEW q \in LiveIn(pid, stack), NEW f \in DOMAIN AliasesIn(pid, aliases', stack, q),
                 AliasesIn(pid, aliases', stack, q)[f] = AliasesIn(pid, aliases', stack, p)[e]
          PROVE  p = q /\ e = f
      <4>1. /\ f \in DOMAIN AliasesIn(pid, aliases, stack, q)
            /\ AliasesIn(pid, aliases, stack, q)[f] = AliasesIn(pid, aliases, stack, p)[e]
        BY <3>1, <3>3, <1>1
      <4> QED  BY <4>1, <3>2 DEF Leads
    <3> QED  BY <3>1, <3>2, <3>3 DEF Leads
  <2> QED  BY <2>1 DEF Aliased
<1> QED  BY <1>2, <1>3 DEF IInv, Kept

LEMMA KernelExitLives == ASSUME IInv, NEW k \in KPids, NEW s \in Statuses, KernelExit(k, s) PROVE IInv'
<1>1. kprocs' = [kprocs EXCEPT ![k].st = s, ![k].told = TRUE] /\ s # None  BY ForkAssumption DEF KernelExit
<1>2. \A l \in KPids : kprocs'[l].of = kprocs[l].of /\ (kprocs[l].st # None => kprocs'[l].st # None)
  BY <1>1 DEF IInv, TypeOK, KProcs
<1>3. Theirs' /\ UNCHANGED <<pid, stack, forks, exited, aliases, cwd, dirs>>
  BY <1>2 DEF KernelExit, OnlyKernel, local, IInv, Theirs
<1>4. \A p \in LiveIn(pid, stack) : \A e \in DOMAIN AliasesIn(pid, aliases, stack, p) :
        /\ AliasesIn(pid, aliases, stack, p)[e] \in KPids
        /\ kprocs[AliasesIn(pid, aliases, stack, p)[e]].st # None
  BY DEF IInv, Aliased, Leads
<1> QED  BY <1>2, <1>3, <1>4, KernelExitTypes, KernelLives DEF IInv

LEMMA KernelStopLives == ASSUME IInv, TypeOK', NEW k \in KPids, KernelStop(k) PROVE IInv'
<1>2. \A l \in KPids : kprocs'[l].of = kprocs[l].of /\ kprocs'[l].st = kprocs[l].st
  BY DEF KernelStop, IInv, TypeOK, KProcs
<1>3. Theirs' /\ UNCHANGED <<pid, stack, forks, exited, aliases, cwd, dirs>>
  BY <1>2 DEF KernelStop, OnlyKernel, local, IInv, Theirs
<1>4. \A p \in LiveIn(pid, stack) : \A e \in DOMAIN AliasesIn(pid, aliases, stack, p) :
        /\ AliasesIn(pid, aliases, stack, p)[e] \in KPids
        /\ kprocs[AliasesIn(pid, aliases, stack, p)[e]].st # None
  BY DEF IInv, Aliased, Leads
<1> QED  BY <1>2, <1>3, <1>4, KernelLives

LEMMA SpawnLives == ASSUME IInv, TypeOK', NEW k \in KPids, Spawn(k) PROVE IInv'
<1>1. /\ kprocs[k].st = None /\ kprocs'[k].of = pid
      /\ \A l \in KPids : l # k => kprocs'[l] = kprocs[l]
  BY DEF Spawn, Started, NoProc, IInv, TypeOK
<1>2. pid \in GivenTo(forks) \cup {SelfPid}  BY DEF IInv, Chain, LiveIn
<1>3. Theirs' /\ UNCHANGED <<pid, stack, forks, exited, aliases, cwd, dirs>>
  BY <1>1, <1>2 DEF Spawn, local, IInv, Theirs
<1>4. \A p \in LiveIn(pid, stack) : \A e \in DOMAIN AliasesIn(pid, aliases, stack, p) :
        /\ AliasesIn(pid, aliases, stack, p)[e] \in KPids
        /\ kprocs[AliasesIn(pid, aliases, stack, p)[e]].st # None
  BY DEF IInv, Aliased, Leads
<1>5. \A p \in LiveIn(pid, stack) : \A e \in DOMAIN AliasesIn(pid, aliases, stack, p) :
        kprocs'[AliasesIn(pid, aliases, stack, p)[e]] = kprocs[AliasesIn(pid, aliases, stack, p)[e]]
  BY <1>1, <1>4
<1> QED  BY <1>3, <1>4, <1>5, KernelLives

LEMMA WaitExitedLives == ASSUME IInv, TypeOK', NEW c, WaitExited(c) PROVE IInv'
<1>1. exited' = Without(exited, c) /\ UNCHANGED <<pid, stack, forks, aliases, kprocs, cwd, dirs>>
  BY DEF WaitExited, OnlyWaited, local
<1>2. Reapable'
  <2>1. ASSUME NEW p \in LiveIn(pid, stack)
        PROVE  Dead(pid, stack, forks, ExitedIn(pid, exited', stack, p), AliasesIn(pid, aliases, stack, p))
    <3>1. Dead(pid, stack, forks, ExitedIn(pid, exited, stack, p), AliasesIn(pid, aliases, stack, p))
      BY DEF IInv, Reapable
    <3>2. DOMAIN ExitedIn(pid, exited', stack, p) \subseteq DOMAIN ExitedIn(pid, exited, stack, p)
      BY <1>1 DEF ExitedIn, Without
    <3> QED  BY <3>1, <3>2 DEF Dead
  <2> QED  BY <2>1, <1>1 DEF Reapable
<1> QED  BY <1>1, <1>2 DEF IInv, Theirs, Kept

\* What waits for a process of the kernel waits for one that an alias of the
\* process that runs leads to, or for a child of its own that no alias leads to.
LEMMA NoAliasLeads ==
  ASSUME IInv, NEW k \in KPids, kprocs[k].of # None \/ kprocs[k].st = None,
         NEW p \in LiveIn(pid, stack), NEW e \in DOMAIN AliasesIn(pid, aliases, stack, p)
  PROVE  AliasesIn(pid, aliases, stack, p)[e] \in KPids \ {k}
BY DEF IInv, Aliased, Leads

LEMMA AliasIs ==
  ASSUME IInv, NEW c \in DOMAIN aliases
  PROVE  aliases[c] \in KPids /\ kprocs[aliases[c]].of = None
<1>1. pid \in LiveIn(pid, stack) /\ AliasesIn(pid, aliases, stack, pid) = aliases  BY DEF LiveIn, AliasesIn
<1> QED  BY <1>1 DEF IInv, Aliased, Leads

LEMMA OneAliasLeads ==
  ASSUME IInv, NEW c \in DOMAIN aliases,
         NEW p \in LiveIn(pid, stack), NEW e \in DOMAIN AliasesIn(pid, aliases, stack, p)
  PROVE  /\ AliasesIn(pid, aliases, stack, p)[e] \in KPids
         /\ AliasesIn(pid, aliases, stack, p)[e] = aliases[c] => p = pid /\ e = c
<1>1. pid \in LiveIn(pid, stack) /\ AliasesIn(pid, aliases, stack, pid) = aliases  BY DEF LiveIn, AliasesIn
<1>2. Leads(pid, aliases, stack, kprocs, pid, c) /\ Leads(pid, aliases, stack, kprocs, p, e)
  BY <1>1 DEF IInv, Aliased
<1> QED  BY <1>1, <1>2 DEF Leads

LEMMA KernelWaitLives ==
  ASSUME IInv, TypeOK', NEW k \in KPids, NEW c, KernelWait(k, c),
         \/ c \in DOMAIN aliases /\ k = aliases[c]
         \/ c = k /\ kprocs[k].of = pid
  PROVE  IInv'
<1>1. /\ UNCHANGED <<pid, stack, forks, exited, cwd, dirs>>
      /\ \/ kprocs' = [kprocs EXCEPT ![k] = NoProc] /\ aliases' = Without(aliases, c)
         \/ kprocs' = [kprocs EXCEPT ![k].told = TRUE] /\ aliases' = aliases
  BY DEF KernelWait, OnlyWaited, AliasesAfter, local
<1>2. kprocs \in [KPids -> KProcs]  BY DEF IInv, TypeOK
<1>3. Theirs'
  <2>1. \A l \in KPids : kprocs'[l].of = kprocs[l].of \/ kprocs'[l].of = None
    BY <1>1, <1>2 DEF NoProc, KProcs
  <2> QED  BY <2>1, <1>1 DEF IInv, Theirs
<1>4. \A p \in LiveIn(pid, stack) : \A e \in DOMAIN AliasesIn(pid, aliases, stack, p) :
        /\ AliasesIn(pid, aliases, stack, p)[e] \in KPids
        /\ kprocs[AliasesIn(pid, aliases, stack, p)[e]].st # None
  BY DEF IInv, Aliased, Leads
<1>5. CASE aliases' = aliases /\ kprocs' = [kprocs EXCEPT ![k].told = TRUE]
  <2>1. \A l \in KPids : kprocs'[l].of = kprocs[l].of /\ kprocs'[l].st = kprocs[l].st
    BY <1>2, <1>5 DEF KProcs
  <2> QED  BY <2>1, <1>1, <1>3, <1>4, <1>5, KernelLives
<1>6. CASE aliases' = Without(aliases, c) /\ kprocs' = [kprocs EXCEPT ![k] = NoProc]
  <2>1. \A l \in KPids : l # k => kprocs'[l] = kprocs[l]  BY <1>6, <1>2
  <2>2. ASSUME NEW p \in LiveIn(pid, stack), NEW e \in DOMAIN AliasesIn(pid, aliases', stack, p)
        PROVE  /\ e \in DOMAIN AliasesIn(pid, aliases, stack, p)
               /\ AliasesIn(pid, aliases, stack, p)[e] # k
    <3>1. e \in DOMAIN AliasesIn(pid, aliases, stack, p) /\ (p = pid => e # c)
      BY <1>6 DEF AliasesIn, Without
    <3>2. CASE c \in DOMAIN aliases /\ k = aliases[c]  BY <3>1, <3>2, OneAliasLeads
    <3>3. CASE c = k /\ kprocs[k].of = pid
      <4>1. pid # None
        <5>1. pid \in GivenTo(forks) \cup {SelfPid} /\ forks \in 0..Len(ForkPids)
          BY DEF IInv, Chain, LiveIn, TypeOK
        <5> QED  BY <5>1, GivenFacts, ForkAssumption
      <4> QED  BY <4>1, <3>1, <3>3, NoAliasLeads
    <3> QED  BY <3>2, <3>3
  <2> QED  BY <2>1, <2>2, <1>1, <1>3, <1>4, <1>6, KernelLives
<1> QED  BY <1>1, <1>5, <1>6

\* One's own child is an alias's, or of this process.
LEMMA OwnWait ==
  ASSUME NEW k \in KPids, Own(k), KernelWait(k, NameOf(k))
  PROVE  \/ \E c \in DOMAIN aliases : WaitAlias(c)
         \/ kprocs[k].of = pid /\ KernelWait(k, k)
<1>1. CASE \E c \in DOMAIN aliases : aliases[c] = k
  <2>1. NameOf(k) \in DOMAIN aliases /\ aliases[NameOf(k)] = k  BY <1>1 DEF NameOf
  <2> QED  BY <2>1 DEF WaitAlias
<1>2. CASE ~ \E c \in DOMAIN aliases : aliases[c] = k
  <2>1. NameOf(k) = k /\ kprocs[k].of = pid  BY <1>2 DEF NameOf, Own
  <2> QED  BY <2>1
<1> QED  BY <1>1, <1>2

\* A wait for any child, where the kernel has no other process's, is a wait
\* for one of its own.
LEMMA AnyIsOwn ==
  ASSUME AllCareful, WaitAny
  PROVE  \/ \E c \in DOMAIN exited : WaitExited(c)
         \/ \E k \in KPids : WaitKernel(k)
<1>1. CASE \E c \in DOMAIN exited : WaitExited(c)  BY <1>1
<1>2. CASE /\ \A k \in KPids : kprocs[k] = NoProc \/ Own(k)
           /\ \E k \in KPids : KernelWait(k, NameOf(k))
  <2>1. PICK k \in KPids : KernelWait(k, NameOf(k))  BY <1>2
  <2>2. kprocs[k].st \in Statuses \cup {Running}  BY <2>1 DEF KernelWait
  <2>3. Own(k)  BY <1>2, <2>2, ForkAssumption DEF NoProc
  <2> QED  BY <2>1, <2>3 DEF WaitKernel
<1> QED  BY <1>1, <1>2 DEF WaitAny, AllCareful

LEMMA LivesNext == ASSUME AllCareful PROVE IInv /\ [Next]_vars => IInv'
<1> SUFFICES ASSUME IInv, [Next]_vars PROVE IInv'  OBVIOUS
<1> TypeOK /\ TypeOK'  BY TypeNext DEF IInv
<1>1. CASE UNCHANGED vars  BY <1>1 DEF vars, local, IInv, Reapable, Theirs, Kept
<1>2. CASE Self  BY <1>2, SelfLives
<1>3. CASE Begin  BY <1>3, BeginLives
<1>4. ASSUME NEW s \in Statuses, Exit(s) PROVE IInv'
  <2>1. UNCHANGED <<forks, kprocs>>  BY <1>4 DEF Exit
  <2>2. CASE stack # <<>>
    <3>1. Finish(s, None)  BY <1>4, <2>2 DEF Exit
    <3> QED  BY <2>1, <2>2, <3>1, FinishLives
  <2>3. CASE stack = <<>>
    BY <1>4, <2>1, <2>3 DEF Exit, local, IInv, Reapable, Theirs, Kept
  <2> QED  BY <2>2, <2>3
<1>5. ASSUME NEW s \in Statuses, ExecAndWait(s) PROVE IInv'
  <2>1. stack # <<>> /\ Finish(s, None) /\ UNCHANGED kprocs /\ forks < Len(ForkPids) /\ forks' = forks + 1
    BY <1>5 DEF ExecAndWait, RanAtOnce
  <2>2. GivenTo(forks) \subseteq GivenTo(forks')  BY <2>1, NewGiven
  <2> QED  BY <2>1, <2>2, FinishLives
<1>6. ASSUME NEW s \in Statuses, SpawnSync(s) PROVE IInv'  BY <1>6, SpawnSyncLives
<1>7. ASSUME NEW s \in Statuses, NEW k \in KPids, KernelExit(k, s) PROVE IInv'  BY <1>7, KernelExitLives
<1>8. ASSUME NEW s \in Statuses, NEW c \in Pids, Kill(c, s) PROVE IInv'
  BY <1>8, KernelExitLives DEF Kill, Signalled
<1>9. ASSUME NEW k \in KPids, Exec(k) PROVE IInv'
  <2>1. stack # <<>> /\ Finish(None, k) /\ Started(k, None) /\ UNCHANGED forks  BY <1>9 DEF Exec
  <2>2. k # None  BY ForkAssumption
  <2> QED  BY <2>1, <2>2, FinishLives
<1>10. ASSUME NEW k \in KPids, Spawn(k) PROVE IInv'  BY <1>10, SpawnLives
<1>11. ASSUME NEW k \in KPids, KernelStop(k) PROVE IInv'  BY <1>11, KernelStopLives
<1>13. ASSUME NEW c, WaitAlias(c) PROVE IInv'  BY <1>13, AliasIs, KernelWaitLives DEF WaitAlias
<1>12. ASSUME NEW k \in KPids, WaitKernel(k) PROVE IInv'
  <2>1. Own(k) /\ KernelWait(k, NameOf(k))  BY <1>12 DEF WaitKernel, AllCareful
  <2> QED  BY <2>1, <1>13, OwnWait, KernelWaitLives
<1>14. ASSUME NEW c, WaitExited(c) PROVE IInv'  BY <1>14, WaitExitedLives
<1>15. CASE WaitAny  BY <1>12, <1>13, <1>14, <1>15, AnyIsOwn
<1> QED
  BY <1>1, <1>2, <1>3, <1>4, <1>5, <1>6, <1>7, <1>8, <1>9, <1>10, <1>11, <1>12, <1>13, <1>14, <1>15
  DEF Next, Acts

-----------------------------------------------------------------------------
(* The processes that the emulation shows, and their children. *)

ProcNow(p) ==
  IF p = pid THEN [mem |-> mem, cwd |-> cwd, umask |-> umask, fds |-> fds]
  ELSE [mem |-> Snap(stack, p).mem, cwd |-> Snap(stack, p).cwd, umask |-> umask, fds |-> Snap(stack, p).fds]
KidsNow(p) ==
  KidsIn(kprocs, p, ExitedIn(pid, exited, stack, p), AliasesIn(pid, aliases, stack, p), HereIn(pid, stack, p))
Shown ==
  /\ procs = [p \in LiveIn(pid, stack) |-> ProcNow(p)]
  /\ kids = [p \in LiveIn(pid, stack) |-> KidsNow(p)]

\* A process's tables, and the child it waits for, have nothing in common, and
\* nothing in common with the kernel's pids.
LEMMA Apart ==
  ASSUME IInv, NEW p \in LiveIn(pid, stack)
  PROVE  /\ DOMAIN ExitedIn(pid, exited, stack, p) \cap DOMAIN AliasesIn(pid, aliases, stack, p) = {}
         /\ (DOMAIN ExitedIn(pid, exited, stack, p) \cup DOMAIN AliasesIn(pid, aliases, stack, p))
              \cap (HereIn(pid, stack, p) \cup KPids \cup LiveIn(pid, stack)) = {}
         /\ KPids \cap (HereIn(pid, stack, p) \cup LiveIn(pid, stack)) = {}
         /\ p # None
<1>1. Dead(pid, stack, forks, ExitedIn(pid, exited, stack, p), AliasesIn(pid, aliases, stack, p))
  BY DEF IInv, Reapable
<1>2. HereIn(pid, stack, p) \subseteq LiveIn(pid, stack)  BY HereLives DEF IInv, TypeOK
<1>3. GivenTo(forks) \cap (KPids \cup {SelfPid, None}) = {}  BY GivenFacts DEF IInv, TypeOK
<1>4. LiveIn(pid, stack) \subseteq GivenTo(forks) \cup {SelfPid}  BY DEF IInv, Chain
<1>5. SelfPid \notin KPids /\ SelfPid # None  BY ForkAssumption
<1> HIDE DEF ExitedIn, AliasesIn
<1> QED  BY <1>1, <1>2, <1>3, <1>4, <1>5 DEF Dead

LEMMA ShownIs == IInv => Shown
<1> SUFFICES ASSUME IInv PROVE Shown  OBVIOUS
<1>1. {pid} \cup Waiting = LiveIn(pid, stack)  BY DEF Waiting, LiveIn, PidsIn
<1>2. \A p : SnapOf(p) = Snap(stack, p)  BY DEF SnapOf, Snap
<1>3. procs = [p \in LiveIn(pid, stack) |-> ProcNow(p)]  BY <1>1, <1>2 DEF procs, ProcNow
<1>4. ASSUME NEW p \in LiveIn(pid, stack)
      PROVE  KidsNow(p) = IF p = pid THEN KidsOf(p, exited, aliases, {})
                          ELSE KidsOf(p, SnapOf(p).exited, SnapOf(p).aliases, {SnapOf(p).childPid})
  <2>1. KidsOf(p, ExitedIn(pid, exited, stack, p), AliasesIn(pid, aliases, stack, p), HereIn(pid, stack, p))
          = KidsNow(p)
    BY Apart, KidsOfIs DEF KidsNow
  <2> QED  BY <2>1, <1>2 DEF ExitedIn, AliasesIn, HereIn
<1>5. kids = [p \in LiveIn(pid, stack) |-> KidsNow(p)]  BY <1>1, <1>4 DEF kids
<1> QED  BY <1>3, <1>5 DEF Shown

LEMMA ShownNext == IInv' => Shown'
BY ShownIs, PTL

Simulated == Procs!Next \/ UNCHANGED <<procs, kids, got>>

LEMMA SelfSim == ASSUME AllCareful, IInv, IInv', Self PROVE Simulated
<1>1. UNCHANGED <<pid, stack, exited, aliases, kprocs, got>> /\ (umask' = umask \/ stack = <<>>)
  BY DEF Self, WriteMem, Chdir, Rmdir, Umask, CloseFd, OpenFd, AllCareful, local
<1>2. Shown /\ Shown'  BY ShownIs, ShownNext
<1>3. kids' = kids  BY <1>1 DEF kids, KidsOf, Waiting, SnapOf
<1>4. LiveIn(pid', stack') = LiveIn(pid, stack) /\ pid \in LiveIn(pid, stack)  BY <1>1 DEF LiveIn
<1>5. ASSUME NEW p \in LiveIn(pid, stack), p # pid PROVE ProcNow(p)' = ProcNow(p)
  <2>1. stack # <<>>  BY <1>5 DEF LiveIn, PidsIn
  <2> QED  BY <2>1, <1>1, <1>5 DEF ProcNow
<1>6. procs' = [procs EXCEPT ![pid] = ProcNow(pid)']  BY <1>1, <1>2, <1>4, <1>5 DEF Shown
<1>7. ProcNow(pid)' \in [mem : Mems, cwd : Dirs, umask : Masks, fds : Tables]
  BY <1>1 DEF ProcNow, IInv, TypeOK, FdTables
<1>8. DOMAIN procs = LiveIn(pid, stack)  BY <1>2 DEF Shown
<1>9. Procs!Step(pid)  BY <1>1, <1>3, <1>4, <1>6, <1>7, <1>8 DEF Procs!Step, Procs!Live
<1> QED  BY <1>9, <1>8, <1>4 DEF Simulated, Procs!Next, Procs!Live

LEMMA BeginSim == ASSUME IInv, IInv', Begin PROVE Simulated
<1>0. PICK c : c = ForkPids[forks']  OBVIOUS
<1>16. PICK me : me = pid  OBVIOUS
<1> DEFINE x == [pid |-> pid, ppid |-> ppid, childPid |-> c,
                 mem |-> mem, cwd |-> cwd, fds |-> fds, exited |-> exited, aliases |-> aliases]
           L == LiveIn(pid, stack)
<1>1. /\ stack' = Append(stack, x) /\ pid' = c /\ exited' = Empty /\ aliases' = Empty
      /\ forks' = forks + 1 /\ forks < Len(ForkPids) /\ UNCHANGED <<mem, cwd, umask, fds, kprocs, got>>
  BY <1>0 DEF Begin, local
<1>2. c \in Pids /\ x \in Snaps
  <2>1. c \in Pids  BY <1>0, <1>1, NewPid DEF IInv
  <2> QED  BY <2>1 DEF IInv, TypeOK, Snaps
<1>3. c \notin GivenTo(forks) \cup KPids \cup {SelfPid, None} /\ c \notin L  BY <1>0, <1>1, NewGiven
<1>4. /\ stack \in Seq(Snaps) /\ Distinct(stack) /\ pid \notin PidsIn(stack)
      /\ x.pid = pid /\ x.childPid = c /\ x.exited = exited /\ x.aliases = aliases
      /\ x.mem = mem /\ x.cwd = cwd /\ x.fds = fds
  BY DEF IInv, TypeOK, Chain
<1> HIDE DEF x
<1>5. /\ PidsIn(stack') = PidsIn(stack) \cup {pid} /\ Snap(stack', pid) = x
      /\ \A p \in PidsIn(stack) : Snap(stack', p) = Snap(stack, p)
  BY <1>1, <1>2, <1>4, SnapPushed
<1>6. LiveIn(pid', stack') = L \cup {c} /\ pid \in L  BY <1>1, <1>5 DEF LiveIn
<1>7. Shown /\ Shown'  BY ShownIs, ShownNext
<1>8. ASSUME NEW p \in L, p # me
      PROVE  ProcNow(p)' = ProcNow(p) /\ KidsNow(p)' = KidsNow(p)
  <2>1. Snap(stack', p) = Snap(stack, p) /\ p # c  BY <1>3, <1>5, <1>8, <1>16 DEF LiveIn
  <2> QED  BY <2>1, <1>1, <1>8, <1>16 DEF ProcNow, KidsNow, ExitedIn, AliasesIn, HereIn
<1>9. ProcNow(me)' = ProcNow(me) /\ ProcNow(c)' = ProcNow(me)
  <2>1. pid # c  BY <1>3, <1>6
  <2> QED  BY <2>1, <1>16, <1>1, <1>4, <1>5 DEF ProcNow
<1>10. KidsNow(me)' = Procs!With(KidsNow(me), c, Running)
  <2>1. /\ ExitedIn(pid', exited', stack', me) = exited /\ AliasesIn(pid', aliases', stack', me) = aliases
        /\ HereIn(pid', stack', me) = {c}
    <3>1. me # c  BY <1>3, <1>6, <1>16
    <3> QED  BY <3>1, <1>1, <1>4, <1>5, <1>16 DEF ExitedIn, AliasesIn, HereIn
  <2>2. KidsNow(me)' = KidsIn(kprocs, me, exited, aliases, {c})  BY <2>1, <1>1 DEF KidsNow
  <2>3. KidsNow(me) = KidsIn(kprocs, me, exited, aliases, {})
    BY <1>16 DEF KidsNow, ExitedIn, AliasesIn, HereIn
  <2>4. c \notin DOMAIN exited \cup DOMAIN aliases \cup KPids
    <3>1. Dead(pid, stack, forks, exited, aliases)
      BY <1>6 DEF IInv, Reapable, ExitedIn, AliasesIn
    <3> QED  BY <3>1, <1>3 DEF Dead
  <2> QED  BY <2>2, <2>3, <2>4, AddHere
<1>11. KidsNow(c)' = Procs!NoKids
  <2>1. KidsNow(c)' = KidsIn(kprocs, c, Empty, Empty, {})
    BY <1>1 DEF KidsNow, ExitedIn, AliasesIn, HereIn
  <2>2. InKernel(kprocs, c) = {}  BY <1>3 DEF IInv, Theirs, InKernel
  <2>3. DOMAIN Empty = {}  BY DEF Empty
  <2> QED  BY <2>1, <2>2, <2>3 DEF KidsIn, Procs!NoKids
<1> HIDE DEF L
<1>12. procs' = Procs!With(procs, c, procs[pid])
  BY <1>6, <1>7, <1>8, <1>9, <1>3, <1>16 DEF Shown, Procs!With, L
<1>13. kids' = Procs!With([kids EXCEPT ![pid] = Procs!With(@, c, Running)], c, Procs!NoKids)
  <2>1. kids' = [p \in L \cup {c} |-> KidsNow(p)'] /\ kids = [p \in L |-> KidsNow(p)]
    BY <1>6, <1>7 DEF Shown, L
  <2> DEFINE K == [kids EXCEPT ![pid] = Procs!With(kids[pid], c, Running)]
  <2>2. DOMAIN K = L /\ K[me] = KidsNow(me)' /\ \A p \in L : p # me => K[p] = KidsNow(p)'
    BY <2>1, <1>6, <1>8, <1>10, <1>16
  <2> HIDE DEF K
  <2>3. kids' = Procs!With(K, c, Procs!NoKids)  BY <2>1, <2>2, <1>3, <1>11, <1>16 DEF Procs!With, L
  <2> QED  BY <2>3 DEF K
<1>14. DOMAIN procs = L  BY <1>7 DEF Shown, L
<1>15. Procs!Fork(pid, c)  BY <1>1, <1>3, <1>6, <1>12, <1>13, <1>14 DEF Procs!Fork, Procs!Live, L
<1> QED  BY <1>15, <1>14, <1>6, <1>2 DEF Simulated, Procs!Next, Procs!Live

\* finish: pid leaves, and its parent runs again as it was.
LEMMA FinishSim ==
  ASSUME IInv, IInv', stack # <<>>, NEW k, NEW s, Finish(s, k), UNCHANGED umask,
         k = None => s \in Statuses /\ UNCHANGED kprocs,
         k # None => k \in KPids /\ Started(k, None)
  PROVE  Simulated
<1>1. PICK c, me : c = pid /\ me = pid'  OBVIOUS
<1> DEFINE L == LiveIn(pid, stack)
           r == IF k = None THEN s ELSE Running
<1>2. /\ Innermost \in Snaps /\ Innermost.childPid = c /\ me = Innermost.pid /\ me # c
      /\ me \in L /\ c \in L
      /\ LiveIn(pid', stack') = L \ {c}
      /\ Snap(stack, me) = Innermost
      /\ \A p \in L \ {c} : p # me => Snap(stack', p) = Snap(stack, p)
      /\ cwd' = Innermost.cwd
  BY <1>1, FinishShape DEF LiveIn
<1>3. mem' = Innermost.mem /\ fds' = Innermost.fds /\ UNCHANGED <<umask, got>>  BY DEF Finish, MemBack
<1>4. Shown /\ Shown'  BY ShownIs, ShownNext
<1>5. ASSUME NEW p \in L \ {c} PROVE ProcNow(p)' = ProcNow(p)
  BY <1>1, <1>2, <1>3, <1>5 DEF ProcNow
<1> HIDE DEF L
<1>6. procs' = Procs!Without(procs, c)  BY <1>2, <1>4, <1>5 DEF Shown, Procs!Without, L
<1>7. ASSUME NEW p \in L \ {c}
      PROVE  /\ InKernel(kprocs', p) = InKernel(kprocs, p)
             /\ \A l \in InKernel(kprocs, p) : kprocs'[l].st = kprocs[l].st
             /\ \A e \in DOMAIN AliasesIn(pid, aliases, stack, p) :
                  kprocs'[AliasesIn(pid, aliases, stack, p)[e]].st = kprocs[AliasesIn(pid, aliases, stack, p)[e]].st
  <2>1. CASE k = None  BY <2>1
  <2>2. CASE k # None
    <3>1. /\ k \in KPids /\ kprocs[k].st = None /\ kprocs[k].of = None /\ kprocs'[k].of = None
          /\ \A l \in KPids : l # k => kprocs'[l] = kprocs[l]
      BY <2>2 DEF Started, NoProc, IInv, TypeOK
    <3>2. p # None /\ p \in LiveIn(pid, stack)  BY Apart DEF L
    <3>3. \A e \in DOMAIN AliasesIn(pid, aliases, stack, p) : AliasesIn(pid, aliases, stack, p)[e] \in KPids \ {k}
      BY <3>1, <3>2, NoAliasLeads
    <3> QED  BY <3>1, <3>2, <3>3 DEF InKernel
  <2> QED  BY <2>1, <2>2
<1>8. ASSUME NEW p \in L \ {c}, p # me PROVE KidsNow(p)' = KidsNow(p)
  <2>1. /\ ExitedIn(pid', exited', stack', p) = ExitedIn(pid, exited, stack, p)
        /\ AliasesIn(pid', aliases', stack', p) = AliasesIn(pid, aliases, stack, p)
    BY <1>1, <1>2, <1>8, FinishTables
  <2>2. HereIn(pid', stack', p) = HereIn(pid, stack, p)  BY <1>1, <1>2, <1>8 DEF HereIn
  <2> QED  BY <2>1, <2>2, <1>7, SameKids DEF KidsNow
<1>9. /\ KidsNow(me)' = Ended(KidsNow(me), c, r) /\ c \in DOMAIN KidsNow(me)
  <2> DEFINE ex == ExitedIn(pid, exited, stack, me)
             al == AliasesIn(pid, aliases, stack, me)
  <2>1. /\ ExitedIn(pid', exited', stack', me) = IF k = None THEN With(ex, c, s) ELSE ex
        /\ AliasesIn(pid', aliases', stack', me) = IF k # None THEN With(al, c, k) ELSE al
    BY <1>1, <1>2, FinishTables
  <2>2. HereIn(pid', stack', me) = {} /\ HereIn(pid, stack, me) = {c}  BY <1>1, <1>2 DEF HereIn
  <2>3. c \notin DOMAIN ex \cup DOMAIN al \cup KPids  BY <1>2, Apart DEF L
  <2>4. KidsIn(kprocs', me, ex, al, {c}) = KidsIn(kprocs, me, ex, al, {c})  BY <1>2, <1>7, SameKids
  <2>5. KidsNow(me) = KidsIn(kprocs, me, ex, al, {c})  BY <2>2 DEF KidsNow
  <2>6. KidsNow(me)' = KidsIn(kprocs', me, IF k = None THEN With(ex, c, s) ELSE ex,
                              IF k # None THEN With(al, c, k) ELSE al, {})
    BY <2>1, <2>2 DEF KidsNow
  <2> HIDE DEF ex, al
  <2>7. c \in DOMAIN KidsIn(kprocs, me, ex, al, {c})  BY DEF KidsIn
  <2>8. CASE k = None
    <3>1. KidsIn(kprocs', me, With(ex, c, s), al, {}) = Ended(KidsIn(kprocs', me, ex, al, {c}), c, s)
      BY <2>3, EndHere
    <3> QED  BY <3>1, <2>4, <2>5, <2>6, <2>7, <2>8
  <2>9. CASE k # None
    <3>1. kprocs'[k].st = Running  BY <2>9 DEF Started, IInv, TypeOK
    <3>2. KidsIn(kprocs', me, ex, With(al, c, k), {}) = Ended(KidsIn(kprocs', me, ex, al, {c}), c, Running)
      BY <2>3, <2>9, <3>1, AliasHere
    <3> QED  BY <3>2, <2>4, <2>5, <2>6, <2>7, <2>9
  <2> QED  BY <2>8, <2>9
<1> HIDE DEF r
<1>10. kids' = Procs!Without([kids EXCEPT ![me][c] = r], c)
  <2>1. kids' = [p \in L \ {c} |-> KidsNow(p)'] /\ kids = [p \in L |-> KidsNow(p)]
    BY <1>2, <1>4 DEF Shown, L
  <2> DEFINE K == [kids EXCEPT ![me][c] = r]
  <2>2. DOMAIN K = L /\ K[me] = KidsNow(me)' /\ \A p \in L \ {c} : p # me => K[p] = KidsNow(p)'
    BY <2>1, <1>2, <1>8, <1>9 DEF Ended
  <2> HIDE DEF K
  <2>3. kids' = Procs!Without(K, c)  BY <2>1, <2>2 DEF Procs!Without
  <2> QED  BY <2>3 DEF K
<1>11. DOMAIN procs = L /\ kids[me] = KidsNow(me)  BY <1>2, <1>4 DEF Shown, L
<1>12. Procs!Leave(me, c, r)  BY <1>2, <1>3, <1>6, <1>9, <1>10, <1>11 DEF Procs!Leave, Procs!Live
<1>13. c \in Pids /\ (r \in Statuses \/ r = Running)  BY <1>1 DEF IInv, TypeOK, r
<1> QED  BY <1>2, <1>11, <1>12, <1>13 DEF Simulated, Procs!Next, Procs!Live

\* A step that leaves the processes as they are, all but one's children.
LEMMA KidsSim ==
  ASSUME IInv, IInv', UNCHANGED <<pid, stack, mem, cwd, umask, fds>>,
         NEW me \in LiveIn(pid, stack),
         \A p \in LiveIn(pid, stack) \ {me} : KidsNow(p)' = KidsNow(p)
  PROVE  /\ procs' = procs /\ kids' = [kids EXCEPT ![me] = KidsNow(me)']
         /\ Procs!Live = LiveIn(pid, stack) /\ kids[me] = KidsNow(me)
         /\ DOMAIN kids = LiveIn(pid, stack)
<1>1. Shown /\ Shown'  BY ShownIs, ShownNext
<1>2. procs' = procs  BY DEF procs, Waiting, SnapOf
<1> QED  BY <1>1, <1>2 DEF Shown, Procs!Live

\* The tables of the process that runs.
LEMMA RunningKids ==
  ASSUME IInv
  PROVE  /\ pid \in LiveIn(pid, stack) /\ pid \in Pids
         /\ KidsNow(pid) = KidsIn(kprocs, pid, exited, aliases, {})
         /\ DOMAIN exited \cap DOMAIN aliases = {}
         /\ (DOMAIN exited \cup DOMAIN aliases) \cap (KPids \cup LiveIn(pid, stack)) = {}
<1>1. pid \in LiveIn(pid, stack)  BY DEF LiveIn
<1>2. /\ ExitedIn(pid, exited, stack, pid) = exited /\ AliasesIn(pid, aliases, stack, pid) = aliases
      /\ HereIn(pid, stack, pid) = {}
  BY DEF ExitedIn, AliasesIn, HereIn
<1> QED  BY <1>1, <1>2, Apart DEF KidsNow, IInv, TypeOK

\* Those of a process whose tables stay, as do those of the ones that wait.
LEMMA OthersKids ==
  ASSUME IInv, UNCHANGED <<pid, stack>>, NEW p \in LiveIn(pid, stack),
         p # pid \/ UNCHANGED <<exited, aliases>>,
         InKernel(kprocs, p) = InKernel(kprocs', p),
         \A k \in InKernel(kprocs, p) : kprocs[k].st = kprocs'[k].st,
         \A c \in DOMAIN AliasesIn(pid, aliases, stack, p) :
           kprocs[AliasesIn(pid, aliases, stack, p)[c]].st = kprocs'[AliasesIn(pid, aliases, stack, p)[c]].st
  PROVE  KidsNow(p)' = KidsNow(p)
<1>1. /\ ExitedIn(pid', exited', stack', p) = ExitedIn(pid, exited, stack, p)
      /\ AliasesIn(pid', aliases', stack', p) = AliasesIn(pid, aliases, stack, p)
      /\ HereIn(pid', stack', p) = HereIn(pid, stack, p)
  BY DEF ExitedIn, AliasesIn, HereIn
<1> QED  BY <1>1, SameKids DEF KidsNow

LEMMA SpawnSyncSim ==
  ASSUME IInv, IInv', NEW s \in Statuses, SpawnSync(s)
  PROVE  Simulated
<1>1. PICK me, c : me = pid /\ c = ForkPids[forks']  OBVIOUS
<1>2. /\ forks < Len(ForkPids) /\ forks' = forks + 1 /\ exited' = With(exited, c, s)
      /\ UNCHANGED <<pid, stack, mem, cwd, umask, fds, aliases, kprocs, got>>
  BY <1>1 DEF SpawnSync, RanAtOnce, local
<1>3. c \in Pids /\ c \notin GivenTo(forks) \cup KPids  BY <1>1, <1>2, NewPid, NewGiven DEF IInv
<1>4. /\ me \in LiveIn(pid, stack)
      /\ KidsNow(me) = KidsIn(kprocs, me, exited, aliases, {})
      /\ KidsNow(me)' = KidsIn(kprocs, me, exited', aliases, {})
  BY <1>1, <1>2, RunningKids DEF KidsNow, ExitedIn, AliasesIn, HereIn
<1>5. c \notin DOMAIN exited \cup DOMAIN aliases
  BY <1>1, <1>3, <1>4 DEF IInv, Reapable, Dead, ExitedIn, AliasesIn
<1>6. KidsNow(me)' = Procs!With(KidsNow(me), c, s) /\ c \notin DOMAIN KidsNow(me)
  BY <1>2, <1>3, <1>4, <1>5, AddExited
<1>7. \A p \in LiveIn(pid, stack) \ {me} : KidsNow(p)' = KidsNow(p)  BY <1>1, <1>2, OthersKids
<1>8. /\ procs' = procs /\ kids' = [kids EXCEPT ![me] = KidsNow(me)']
      /\ Procs!Live = LiveIn(pid, stack) /\ kids[me] = KidsNow(me)
  BY <1>2, <1>4, <1>7, KidsSim
<1>9. Procs!Spawn(me, c, s)  BY <1>2, <1>4, <1>6, <1>8 DEF Procs!Spawn
<1> QED  BY <1>3, <1>4, <1>8, <1>9 DEF Simulated, Procs!Next

LEMMA SpawnSim ==
  ASSUME IInv, IInv', NEW k \in KPids, Spawn(k)
  PROVE  Simulated
<1>1. PICK me : me = pid  OBVIOUS
<1>2. UNCHANGED <<pid, stack, mem, cwd, umask, fds, exited, aliases, got>>  BY DEF Spawn, local
<1>3. /\ kprocs[k].st = None /\ kprocs[k].of = None /\ kprocs'[k].st = Running /\ kprocs'[k].of = me
      /\ \A l \in KPids \ {k} : kprocs'[l] = kprocs[l]
  BY <1>1 DEF Spawn, Started, NoProc, IInv, TypeOK
<1>4. /\ me \in LiveIn(pid, stack)
      /\ KidsNow(me) = KidsIn(kprocs, me, exited, aliases, {})
      /\ KidsNow(me)' = KidsIn(kprocs', me, exited, aliases, {})
      /\ k \notin DOMAIN exited \cup DOMAIN aliases
  BY <1>1, <1>2, RunningKids DEF KidsNow, ExitedIn, AliasesIn, HereIn
<1>5. \A e \in DOMAIN aliases : aliases[e] \in KPids \ {k}
  <2>1. AliasesIn(pid, aliases, stack, me) = aliases  BY <1>1 DEF AliasesIn
  <2> QED  BY <2>1, <1>3, <1>4, NoAliasLeads
<1>6. KidsNow(me)' = Procs!With(KidsNow(me), k, Running) /\ k \notin DOMAIN KidsNow(me)
  <2>1. k \notin DOMAIN exited \cup DOMAIN aliases \cup {}  BY <1>4
  <2>2. KidsIn(kprocs', me, exited, aliases, {})
          = Procs!With(KidsIn(kprocs, me, exited, aliases, {}), k, Running)
    <3>1. Running # None  BY ForkAssumption
    <3>2. OnlyOne(kprocs, kprocs', k) /\ Elsewhere(aliases, k)  BY <1>3, <1>5 DEF OnlyOne, Elsewhere
    <3> QED  BY <2>1, <3>1, <3>2, <1>3, KernelKidStarts
  <2>3. k \notin DOMAIN KidsIn(kprocs, me, exited, aliases, {})  BY <1>3, <1>4 DEF KidsIn, InKernel
  <2> QED  BY <2>2, <2>3, <1>4
<1>7. ASSUME NEW p \in LiveIn(pid, stack) \ {me} PROVE KidsNow(p)' = KidsNow(p)
  <2>1. InKernel(kprocs, p) = InKernel(kprocs', p) /\ k \notin InKernel(kprocs, p)
    BY <1>3 DEF InKernel
  <2>2. \A e \in DOMAIN AliasesIn(pid, aliases, stack, p) : AliasesIn(pid, aliases, stack, p)[e] \in KPids \ {k}
    BY <1>3, NoAliasLeads
  <2>3. \A l \in InKernel(kprocs, p) : l \in KPids \ {k}  BY <2>1 DEF InKernel
  <2> QED  BY <2>1, <2>2, <2>3, <1>1, <1>2, <1>3, OthersKids
<1>8. /\ procs' = procs /\ kids' = [kids EXCEPT ![me] = KidsNow(me)']
      /\ Procs!Live = LiveIn(pid, stack) /\ kids[me] = KidsNow(me)
  BY <1>2, <1>4, <1>7, KidsSim
<1>9. Procs!Spawn(me, k, Running)  BY <1>2, <1>4, <1>6, <1>8 DEF Procs!Spawn
<1>10. k \in Pids  BY DEF Pids
<1> QED  BY <1>4, <1>8, <1>9, <1>10 DEF Simulated, Procs!Next

LEMMA WaitExitedSim ==
  ASSUME IInv, IInv', NEW c, WaitExited(c)
  PROVE  Simulated
<1>1. PICK me : me = pid  OBVIOUS
<1>2. /\ c \in DOMAIN exited /\ exited' = Without(exited, c)
      /\ got' = [by |-> me, child |-> c, status |-> exited[c]]
      /\ UNCHANGED <<pid, stack, mem, cwd, umask, fds, aliases, kprocs>>
  BY <1>1 DEF WaitExited, OnlyWaited, Answer, local
<1>3. c \in Pids /\ exited[c] \in Statuses  BY <1>2, TabIs DEF IInv, TypeOK, Exits
<1>4. /\ me \in LiveIn(pid, stack)
      /\ KidsNow(me) = KidsIn(kprocs, me, exited, aliases, {})
      /\ KidsNow(me)' = KidsIn(kprocs, me, exited', aliases, {})
      /\ c \notin DOMAIN aliases \cup KPids
  BY <1>1, <1>2, RunningKids DEF KidsNow, ExitedIn, AliasesIn, HereIn
<1>5. KidsNow(me)' = Procs!Without(KidsNow(me), c)  BY <1>2, <1>4, DropExited
<1>6. c \in DOMAIN KidsNow(me) /\ KidsNow(me)[c] = exited[c]  BY <1>2, <1>4 DEF KidsIn, StatusOf
<1>7. \A p \in LiveIn(pid, stack) \ {me} : KidsNow(p)' = KidsNow(p)  BY <1>1, <1>2, OthersKids
<1>8. /\ procs' = procs /\ kids' = [kids EXCEPT ![me] = KidsNow(me)']
      /\ Procs!Live = LiveIn(pid, stack) /\ kids[me] = KidsNow(me)
  BY <1>2, <1>4, <1>7, KidsSim
<1>9. exited[c] # Running  BY <1>3, ForkAssumption
<1>10. Procs!Reap(me, c, exited[c])  BY <1>2, <1>4, <1>5, <1>6, <1>8, <1>9 DEF Procs!Reap
<1> QED  BY <1>3, <1>4, <1>8, <1>10 DEF Simulated, Procs!Next

LEMMA KernelStopSim ==
  ASSUME IInv, IInv', NEW k \in KPids, KernelStop(k)
  PROVE  UNCHANGED <<procs, kids, got>>
<1>1. PICK me : me = pid  OBVIOUS
<1>2. UNCHANGED <<pid, stack, mem, cwd, umask, fds, exited, aliases, got>>
  BY DEF KernelStop, OnlyKernel, local
<1>3. \A l \in KPids : kprocs'[l].st = kprocs[l].st /\ kprocs'[l].of = kprocs[l].of
  BY DEF KernelStop, IInv, TypeOK, KProcs
<1>4. ASSUME NEW p \in LiveIn(pid, stack) PROVE KidsNow(p)' = KidsNow(p)
  <2>1. InKernel(kprocs, p) = InKernel(kprocs', p) /\ InKernel(kprocs, p) \subseteq KPids  BY <1>3 DEF InKernel
  <2>2. \A e \in DOMAIN AliasesIn(pid, aliases, stack, p) : AliasesIn(pid, aliases, stack, p)[e] \in KPids
    BY DEF IInv, Aliased, Leads
  <2> QED  BY <2>1, <2>2, <1>2, <1>3, OthersKids
<1>5. Shown /\ Shown'  BY ShownIs, ShownNext
<1>6. me \in LiveIn(pid, stack)  BY <1>1 DEF LiveIn
<1>7. procs' = procs  BY <1>2 DEF procs, Waiting, SnapOf
<1>8. kids' = kids  BY <1>2, <1>4, <1>5 DEF Shown
<1> QED  BY <1>2, <1>7, <1>8

\* The end of a kernel process is that of one child: of the process it is a
\* child of, or of the one that has an alias for it; or of none that lives.
LEMMA KernelExitSim ==
  ASSUME IInv, IInv', NEW k \in KPids, NEW s \in Statuses, KernelExit(k, s)
  PROVE  Simulated
<1>1. UNCHANGED <<pid, stack, mem, cwd, umask, fds, exited, aliases, got>>
  BY DEF KernelExit, OnlyKernel, local
<1>2. /\ kprocs[k].st = Running /\ kprocs'[k].st = s /\ kprocs'[k].of = kprocs[k].of
      /\ OnlyOne(kprocs, kprocs', k)
  BY DEF KernelExit, IInv, TypeOK, KProcs, OnlyOne
<1>3. s # None /\ Running # None  BY ForkAssumption
<1>4. ASSUME NEW p \in LiveIn(pid, stack), kprocs[k].of # p,
             \A e \in DOMAIN AliasesIn(pid, aliases, stack, p) : AliasesIn(pid, aliases, stack, p)[e] # k
      PROVE  KidsNow(p)' = KidsNow(p)
  <2>1. InKernel(kprocs, p) = InKernel(kprocs', p) /\ InKernel(kprocs, p) \subseteq KPids \ {k}
    BY <1>2, <1>4 DEF InKernel, OnlyOne
  <2>2. \A e \in DOMAIN AliasesIn(pid, aliases, stack, p) : AliasesIn(pid, aliases, stack, p)[e] \in KPids \ {k}
    BY <1>4 DEF IInv, Aliased, Leads
  <2>3. \A l \in KPids \ {k} : kprocs'[l].st = kprocs[l].st  BY <1>2 DEF OnlyOne
  <2> QED  BY <2>1, <2>2, <2>3, <1>1, OthersKids
<1>5. ASSUME NEW me \in LiveIn(pid, stack), NEW c \in Pids \ LiveIn(pid, stack),
             c \in DOMAIN KidsNow(me), KidsNow(me)[c] = Running, KidsNow(me)' = Ended(KidsNow(me), c, s),
             \A p \in LiveIn(pid, stack) \ {me} : KidsNow(p)' = KidsNow(p)
      PROVE  Simulated
  <2>1. /\ procs' = procs /\ kids' = [kids EXCEPT ![me] = KidsNow(me)']
        /\ Procs!Live = LiveIn(pid, stack) /\ kids[me] = KidsNow(me)
    BY <1>1, <1>5, KidsSim
  <2>2. kids' = [kids EXCEPT ![me][c] = s]
    <3>1. KidsNow(me)' = [kids[me] EXCEPT ![c] = s]  BY <2>1, <1>5 DEF Ended
    <3> QED  BY <2>1, <3>1
  <2>3. Procs!ChildEnds(me, c, s)  BY <2>1, <2>2, <1>1, <1>5 DEF Procs!ChildEnds
  <2> QED  BY <2>1, <2>3, <1>5 DEF Simulated, Procs!Next
<1>6. CASE kprocs[k].of \in LiveIn(pid, stack)
  <2>1. PICK me \in LiveIn(pid, stack) : me = kprocs[k].of  BY <1>6
  <2>2. PICK ex, al, here : /\ ex = ExitedIn(pid, exited, stack, me)
                            /\ al = AliasesIn(pid, aliases, stack, me)
                            /\ here = HereIn(pid, stack, me)
    OBVIOUS
  <2>3. KidsNow(me) = KidsIn(kprocs, me, ex, al, here) /\ KidsNow(me)' = KidsIn(kprocs', me, ex, al, here)
    BY <2>2, <1>1 DEF KidsNow, ExitedIn, AliasesIn, HereIn
  <2>4. k \notin DOMAIN ex \cup DOMAIN al \cup here /\ k \notin LiveIn(pid, stack)  BY <2>2, Apart
  <2>5. ASSUME NEW p \in LiveIn(pid, stack), NEW e \in DOMAIN AliasesIn(pid, aliases, stack, p)
        PROVE  AliasesIn(pid, aliases, stack, p)[e] \in KPids \ {k}
    <3>1. kprocs[k].of # None  BY <2>1, Apart
    <3> QED  BY <3>1, NoAliasLeads
  <2>6. Elsewhere(al, k)  BY <2>2, <2>5 DEF Elsewhere
  <2>7. KidsIn(kprocs', me, ex, al, here) = Ended(KidsIn(kprocs, me, ex, al, here), k, s)
    BY <2>1, <2>4, <2>6, <1>2, <1>3, KernelKidEnds
  <2>8. k \in DOMAIN KidsNow(me) /\ KidsNow(me)[k] = Running
    BY <2>1, <2>3, <2>4, <1>2, <1>3 DEF KidsIn, StatusOf, InKernel
  <2>9. \A p \in LiveIn(pid, stack) \ {me} : KidsNow(p)' = KidsNow(p)  BY <2>1, <2>5, <1>4
  <2>10. k \in Pids  BY DEF Pids
  <2> QED  BY <2>3, <2>4, <2>7, <2>8, <2>9, <2>10, <1>5
<1>7. CASE \E p \in LiveIn(pid, stack) : \E e \in DOMAIN AliasesIn(pid, aliases, stack, p) :
             AliasesIn(pid, aliases, stack, p)[e] = k
  <2>1. PICK me \in LiveIn(pid, stack) : \E e \in DOMAIN AliasesIn(pid, aliases, stack, me) :
          AliasesIn(pid, aliases, stack, me)[e] = k
    BY <1>7
  <2>2. PICK ex, al, here : /\ ex = ExitedIn(pid, exited, stack, me)
                            /\ al = AliasesIn(pid, aliases, stack, me)
                            /\ here = HereIn(pid, stack, me)
    OBVIOUS
  <2>3. PICK c \in DOMAIN al : al[c] = k  BY <2>1, <2>2
  <2>4. KidsNow(me) = KidsIn(kprocs, me, ex, al, here) /\ KidsNow(me)' = KidsIn(kprocs', me, ex, al, here)
    BY <2>2, <1>1 DEF KidsNow, ExitedIn, AliasesIn, HereIn
  <2>5. c \notin DOMAIN ex \cup here \cup KPids /\ c \notin LiveIn(pid, stack)  BY <2>2, <2>3, Apart
  <2>6. /\ kprocs[k].of = None
        /\ \A q \in LiveIn(pid, stack) : \A e \in DOMAIN AliasesIn(pid, aliases, stack, q) :
             /\ AliasesIn(pid, aliases, stack, q)[e] \in KPids
             /\ AliasesIn(pid, aliases, stack, q)[e] = k => me = q /\ c = e
    BY <2>2, <2>3 DEF IInv, Aliased, Leads
  <2>7. \A e \in DOMAIN al : al[e] \in KPids /\ (al[e] = k => e = c)  BY <2>2, <2>6
  <2>8. \A p \in LiveIn(pid, stack) : kprocs[k].of # p  BY <2>6, Apart
  <2>9. KidsIn(kprocs', me, ex, al, here) = Ended(KidsIn(kprocs, me, ex, al, here), c, s)
    BY <2>3, <2>5, <2>7, <2>8, <1>2, AliasedKidEnds
  <2>10. c \in DOMAIN KidsNow(me) /\ KidsNow(me)[c] = Running
    BY <2>3, <2>4, <2>5, <1>2 DEF KidsIn, StatusOf
  <2>11. \A p \in LiveIn(pid, stack) \ {me} : KidsNow(p)' = KidsNow(p)  BY <2>6, <2>8, <1>4
  <2>12. c \in Pids
    <3>1. c \in GivenTo(forks) /\ forks \in 0..Len(ForkPids)
      BY <2>2, <2>3 DEF IInv, Reapable, Dead, TypeOK
    <3>2. \A n \in Nat : forks \in 0..n => 1..forks \subseteq 1..n  OBVIOUS
    <3> QED  BY <3>1, <3>2, ForkPidsIs DEF GivenTo
  <2> QED  BY <2>4, <2>5, <2>9, <2>10, <2>11, <2>12, <1>5
<1>8. CASE /\ kprocs[k].of \notin LiveIn(pid, stack)
           /\ ~ \E p \in LiveIn(pid, stack) : \E e \in DOMAIN AliasesIn(pid, aliases, stack, p) :
                  AliasesIn(pid, aliases, stack, p)[e] = k
  <2>1. \A p \in LiveIn(pid, stack) : KidsNow(p)' = KidsNow(p)  BY <1>4, <1>8
  <2>2. Shown /\ Shown'  BY ShownIs, ShownNext
  <2>3. kids' = kids  BY <2>1, <2>2, <1>1 DEF Shown
  <2>4. procs' = procs  BY <1>1 DEF procs, Waiting, SnapOf
  <2> QED  BY <2>3, <2>4, <1>1 DEF Simulated
<1> QED  BY <1>6, <1>7, <1>8

\* A wait that reaches the kernel: the child is one's own, or has an alias.
LEMMA KernelWaitSim ==
  ASSUME IInv, IInv', NEW k \in KPids, NEW c, KernelWait(k, c),
         \/ c \in DOMAIN aliases /\ k = aliases[c]
         \/ c = k /\ kprocs[k].of = pid
  PROVE  Simulated
<1>1. PICK me : me = pid  OBVIOUS
<1>2. /\ UNCHANGED <<pid, stack, mem, cwd, umask, fds, exited>>
      /\ \/ /\ kprocs[k].st \in Statuses /\ kprocs' = [kprocs EXCEPT ![k] = NoProc]
            /\ aliases' = Without(aliases, c) /\ got' = [by |-> me, child |-> c, status |-> kprocs[k].st]
         \/ /\ kprocs[k].st = Running /\ kprocs' = [kprocs EXCEPT ![k].told = TRUE]
            /\ aliases' = aliases /\ got' = [by |-> me, child |-> c, status |-> Stopped]
  BY <1>1 DEF KernelWait, OnlyWaited, AliasesAfter, Answer, local
<1>3. /\ me \in LiveIn(pid, stack)
      /\ KidsNow(me) = KidsIn(kprocs, me, exited, aliases, {})
      /\ KidsNow(me)' = KidsIn(kprocs', me, exited, aliases', {})
      /\ DOMAIN exited \cap DOMAIN aliases = {} /\ (DOMAIN exited \cup DOMAIN aliases) \cap KPids = {}
      /\ me # None
  BY <1>1, <1>2, RunningKids, Apart DEF KidsNow, ExitedIn, AliasesIn, HereIn
<1>4. kprocs \in [KPids -> KProcs] /\ aliases \in Names /\ kprocs[k].st # None
  BY <1>2, ForkAssumption DEF IInv, TypeOK
<1>5. c \in Pids
  <2>1. c \in DOMAIN aliases => c \in Pids  BY <1>4, TabIs DEF Names
  <2> QED  BY <2>1 DEF Pids
<1>6. c \in DOMAIN KidsNow(me) /\ KidsNow(me)[c] = kprocs[k].st
  <2>1. CASE c \in DOMAIN aliases /\ k = aliases[c]  BY <2>1, <1>3 DEF KidsIn, StatusOf
  <2>2. CASE c = k /\ kprocs[k].of = pid  BY <2>2, <1>1, <1>3, <1>4 DEF KidsIn, StatusOf, InKernel
  <2> QED  BY <2>1, <2>2
<1>7. CASE kprocs[k].st = Running
  <2>1. /\ kprocs' = [kprocs EXCEPT ![k].told = TRUE] /\ aliases' = aliases
        /\ got' = [by |-> me, child |-> c, status |-> Stopped]
    BY <1>2, <1>7, ForkAssumption
  <2>2. \A l \in KPids : kprocs'[l].st = kprocs[l].st /\ kprocs'[l].of = kprocs[l].of
    BY <2>1, <1>4 DEF KProcs
  <2>3. ASSUME NEW p \in LiveIn(pid, stack) PROVE KidsNow(p)' = KidsNow(p)
    <3>1. InKernel(kprocs, p) = InKernel(kprocs', p) /\ InKernel(kprocs, p) \subseteq KPids
      BY <2>2 DEF InKernel
    <3>2. \A e \in DOMAIN AliasesIn(pid, aliases, stack, p) : AliasesIn(pid, aliases, stack, p)[e] \in KPids
      BY DEF IInv, Aliased, Leads
    <3> QED  BY <3>1, <3>2, <2>1, <2>2, <1>2, OthersKids
  <2>4. /\ Shown /\ Shown'  BY ShownIs, ShownNext
  <2>5. procs' = procs /\ kids' = kids
    <3>1. procs' = procs  BY <1>2 DEF procs, Waiting, SnapOf
    <3> QED  BY <3>1, <2>3, <2>4, <1>2 DEF Shown
  <2>6. Procs!Live = LiveIn(pid, stack) /\ kids[me] = KidsNow(me)
    BY <2>4, <1>3 DEF Shown, Procs!Live
  <2>7. Procs!Report(me, c)  BY <2>1, <2>5, <2>6, <1>3, <1>6, <1>7 DEF Procs!Report
  <2> QED  BY <2>6, <2>7, <1>3, <1>5 DEF Simulated, Procs!Next
<1>8. CASE kprocs[k].st # Running
  <2>1. /\ kprocs' = [kprocs EXCEPT ![k] = NoProc] /\ aliases' = Without(aliases, c)
        /\ got' = [by |-> me, child |-> c, status |-> kprocs[k].st] /\ kprocs[k].st \in Statuses
    BY <1>2, <1>8
  <2>2. /\ kprocs'[k].st = None /\ kprocs'[k].of = None /\ OnlyOne(kprocs, kprocs', k)
    BY <2>1, <1>4 DEF NoProc, OnlyOne
  <2>3. /\ kprocs[k].of = me \/ kprocs[k].of = None
        /\ \A p \in LiveIn(pid, stack) : \A e \in DOMAIN AliasesIn(pid, aliases, stack, p) :
             /\ AliasesIn(pid, aliases, stack, p)[e] \in KPids
             /\ AliasesIn(pid, aliases, stack, p)[e] = k => p = me /\ e = c
    <3>1. CASE c \in DOMAIN aliases /\ k = aliases[c]  BY <3>1, <1>1, AliasIs, OneAliasLeads
    <3>2. CASE c = k /\ kprocs[k].of = pid  BY <3>2, <1>1, <1>3, NoAliasLeads
    <3> QED  BY <3>1, <3>2
  <2>4. ASSUME NEW p \in LiveIn(pid, stack) \ {me} PROVE KidsNow(p)' = KidsNow(p)
    <3>1. kprocs[k].of # p  BY <2>3, Apart
    <3>2. InKernel(kprocs, p) = InKernel(kprocs', p) /\ InKernel(kprocs, p) \subseteq KPids \ {k}
      BY <2>2, <3>1 DEF InKernel, OnlyOne
    <3>3. \A e \in DOMAIN AliasesIn(pid, aliases, stack, p) : AliasesIn(pid, aliases, stack, p)[e] \in KPids \ {k}
      BY <2>3
    <3>4. \A l \in KPids \ {k} : kprocs'[l].st = kprocs[l].st  BY <2>2 DEF OnlyOne
    <3> QED  BY <3>2, <3>3, <3>4, <1>1, <1>2, OthersKids
  <2>5. KidsNow(me)' = Procs!Without(KidsNow(me), c)
    <3>1. CASE c \in DOMAIN aliases /\ k = aliases[c]
      <4>1. kprocs[k].of = None  BY <3>1, AliasIs
      <4>2. KidsIn(kprocs, me, exited, Without(aliases, c), {})
              = Procs!Without(KidsIn(kprocs, me, exited, aliases, {}), c)
        <5>1. c \notin DOMAIN exited \cup {} \cup KPids  BY <3>1, <1>3
        <5> QED  BY <5>1, DropAlias
      <4>3. InKernel(kprocs, me) = InKernel(kprocs', me) /\ InKernel(kprocs, me) \subseteq KPids \ {k}
        BY <4>1, <2>2, <1>3 DEF InKernel, OnlyOne
      <4>4. \A e \in DOMAIN Without(aliases, c) : Without(aliases, c)[e] \in KPids \ {k}
        <5>1. AliasesIn(pid, aliases, stack, me) = aliases  BY <1>1 DEF AliasesIn
        <5> QED  BY <5>1, <2>3, <1>3 DEF Without
      <4>5. \A l \in KPids \ {k} : kprocs'[l].st = kprocs[l].st  BY <2>2 DEF OnlyOne
      <4>6. KidsIn(kprocs', me, exited, Without(aliases, c), {})
              = KidsIn(kprocs, me, exited, Without(aliases, c), {})
        BY <4>3, <4>4, <4>5, SameKids
      <4> QED  BY <4>2, <4>6, <2>1, <1>3
    <3>2. CASE c = k /\ kprocs[k].of = pid
      <4>1. aliases' = aliases
        <5>1. c \notin DOMAIN aliases  BY <3>2, <1>3
        <5>2. aliases = [x \in DOMAIN aliases |-> aliases[x]]  BY <1>4, TabIs DEF Names
        <5>3. DOMAIN aliases \ {c} = DOMAIN aliases  BY <5>1
        <5> QED  BY <5>2, <5>3, <2>1 DEF Without
      <4>2. Elsewhere(aliases, k)
        <5>1. AliasesIn(pid, aliases, stack, me) = aliases  BY <1>1 DEF AliasesIn
        <5> QED  BY <5>1, <3>2, <1>1, <1>3, NoAliasLeads DEF Elsewhere
      <4>3. k \notin DOMAIN exited \cup DOMAIN aliases \cup {}  BY <1>3
      <4>4. KidsIn(kprocs', me, exited, aliases, {}) = Procs!Without(KidsIn(kprocs, me, exited, aliases, {}), k)
        BY <4>2, <4>3, <2>2, KernelKidReaped
      <4> QED  BY <4>1, <4>4, <3>2, <1>3
    <3> QED  BY <3>1, <3>2
  <2>6. /\ procs' = procs /\ kids' = [kids EXCEPT ![me] = KidsNow(me)']
        /\ Procs!Live = LiveIn(pid, stack) /\ kids[me] = KidsNow(me)
    BY <2>4, <1>2, <1>3, KidsSim
  <2>7. Procs!Reap(me, c, kprocs[k].st)  BY <2>1, <2>5, <2>6, <1>3, <1>6, <1>8 DEF Procs!Reap
  <2> QED  BY <2>1, <2>6, <2>7, <1>3, <1>5 DEF Simulated, Procs!Next
<1> QED  BY <1>7, <1>8

LEMMA ShownFirst == Init => Procs!Init
<1> SUFFICES ASSUME Init PROVE Procs!Init  OBVIOUS
<1>1. Shown  BY LivesInit, ShownIs
<1>2. LiveIn(pid, stack) = {pid} /\ pid \in Pids  BY DEF Init, LiveIn, PidsIn, Pids
<1>3. KidsNow(pid) = Procs!NoKids
  <2>1. KidsNow(pid) = KidsIn(kprocs, pid, exited, aliases, {})  BY LivesInit, RunningKids
  <2>2. InKernel(kprocs, pid) = {} /\ DOMAIN exited = {} /\ DOMAIN aliases = {}
    BY DEF Init, InKernel, NoProc, Empty
  <2> QED  BY <2>1, <2>2 DEF KidsIn, Procs!NoKids
<1>4. ProcNow(pid) \in [mem : Mems, cwd : Dirs, umask : Masks, fds : Tables]
  BY TypeInit DEF ProcNow, TypeOK, FdTables
<1>5. procs = [q \in {pid} |-> ProcNow(pid)] /\ kids = [q \in {pid} |-> Procs!NoKids]
  BY <1>1, <1>2, <1>3 DEF Shown
<1>6. got = [by |-> Running, child |-> Running, status |-> Running]  BY DEF Init
<1> QED  BY <1>2, <1>4, <1>5, <1>6 DEF Procs!Init

LEMMA ShownStep ==
  ASSUME AllCareful
  PROVE  IInv /\ IInv' /\ [Next]_vars => Procs!Next \/ UNCHANGED <<procs, kids, got>>
<1> SUFFICES ASSUME IInv, IInv', [Next]_vars PROVE Simulated  BY DEF Simulated
<1>1. CASE UNCHANGED vars  BY <1>1 DEF vars, local, procs, kids, KidsOf, Waiting, SnapOf, Simulated
<1>2. CASE Self  BY <1>2, SelfSim
<1>3. CASE Begin  BY <1>3, BeginSim
<1>4. ASSUME NEW s \in Statuses, Exit(s) PROVE Simulated
  <2>1. CASE stack # <<>>
    <3>1. Finish(s, None) /\ UNCHANGED kprocs  BY <1>4, <2>1 DEF Exit
    <3> QED  BY <2>1, <3>1, FinishSim DEF Finish
  <2>2. CASE stack = <<>>
    BY <1>4, <2>2 DEF Exit, local, procs, kids, KidsOf, Waiting, SnapOf, Simulated
  <2> QED  BY <2>1, <2>2
<1>5. ASSUME NEW s \in Statuses, ExecAndWait(s) PROVE Simulated
  BY <1>5, FinishSim DEF ExecAndWait, RanAtOnce, Finish
<1>6. ASSUME NEW s \in Statuses, SpawnSync(s) PROVE Simulated  BY <1>6, SpawnSyncSim
<1>7. ASSUME NEW s \in Statuses, NEW k \in KPids, KernelExit(k, s) PROVE Simulated  BY <1>7, KernelExitSim
<1>8. ASSUME NEW s \in Statuses, NEW c \in Pids, Kill(c, s) PROVE Simulated
  BY <1>8, KernelExitSim DEF Kill, Signalled
<1>9. ASSUME NEW k \in KPids, Exec(k) PROVE Simulated
  <2>1. k # None  BY ForkAssumption
  <2> QED  BY <1>9, <2>1, FinishSim DEF Exec, Finish
<1>10. ASSUME NEW k \in KPids, Spawn(k) PROVE Simulated  BY <1>10, SpawnSim
<1>11. ASSUME NEW k \in KPids, KernelStop(k) PROVE Simulated  BY <1>11, KernelStopSim DEF Simulated
<1>13. ASSUME NEW c, WaitAlias(c) PROVE Simulated  BY <1>13, AliasIs, KernelWaitSim DEF WaitAlias
<1>12. ASSUME NEW k \in KPids, WaitKernel(k) PROVE Simulated
  <2>1. Own(k) /\ KernelWait(k, NameOf(k))  BY <1>12 DEF WaitKernel, AllCareful
  <2> QED  BY <2>1, <1>13, OwnWait, KernelWaitSim
<1>14. ASSUME NEW c, WaitExited(c) PROVE Simulated  BY <1>14, WaitExitedSim
<1>15. CASE WaitAny  BY <1>12, <1>13, <1>14, <1>15, AnyIsOwn
<1> QED
  BY <1>1, <1>2, <1>3, <1>4, <1>5, <1>6, <1>7, <1>8, <1>9, <1>10, <1>11, <1>12, <1>13, <1>14, <1>15
  DEF Next, Acts

\* Where programs do not do what the emulation has to give up (a wait for any
\* child while another process's run, or for the pid of another's, the removal
\* of the directory of a process that waits, a umask in a child), what they see
\* is a set of processes as ForkProcs describes it, whatever forks in what and
\* however deep: each has its own memory, directory and descriptors, and each
\* child's status is reaped once, by its parent, under the pid its fork gave
\* (slicc-fork.js:9-22, slicc_spawn.c:129-172).
THEOREM EmulatesProcesses == ASSUME AllCareful PROVE Spec => Processes
<1>1. Init => IInv  BY LivesInit
<1>2. IInv /\ [Next]_vars => IInv'  BY LivesNext
<1>3. Init => Procs!Init  BY ShownFirst
<1>4. IInv /\ IInv' /\ [Next]_vars => [Procs!Next]_<<procs, kids, got>>  BY ShownStep
<1> QED  BY <1>1, <1>2, <1>3, <1>4, PTL DEF Spec, Processes, Procs!Spec
=============================================================================
