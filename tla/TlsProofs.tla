------------------------------ MODULE TlsProofs ------------------------------
(***************************************************************************)
(* For any number of leaves, stores and sessions, the reference counts are *)
(* exact, no Mbed TLS configuration dangles and an open server session     *)
(* presents exactly its own leaf.                                          *)
(*                                                                         *)
(* For all client streams, buffer sizes, names and protocols: a session is *)
(* silent until it is selected for, a refusal always leaves as one alert,  *)
(* Mbed TLS negotiates only what the caller was shown and chose, the gate  *)
(* reads out of the buffer what the hello says, and so the session keeps   *)
(* the promises of TlsGate.                                                *)
(***************************************************************************)
EXTENDS TlsHandles, TlsSelect, FiniteSetTheorems, WellFoundedInduction, TLAPS

-----------------------------------------------------------------------------
(* TlsHandles                                                              *)

\* A freed session's address holds no references and configures nothing, so a
\* new session at that address starts from nothing.
FreedIsBlank ==
  \A s \in Sessions \ sessions :
    sesLeaf[s] = Null /\ sesTrust[s] = Null /\ ~ownSet[s] /\ conf[s] = {}

\* A configuration points only to the leaf of its session, or to the chain the
\* session owns.
ConfOfSession ==
  \A s \in Sessions : \A x \in conf[s] :
    (x = sesLeaf[s] /\ x # Null) \/ (x = Own /\ ownSet[s] /\ ~server[s])

\* Nothing is configured before the selection, and exactly the session's leaf
\* once the gate is open.
ConfBySelect ==
  \A s \in sessions :
    /\ selectOf[s] \in {"wait", "paused"} => conf[s] = {}
    /\ server[s] /\ selectOf[s] \in {"off", "done"} =>
         sesLeaf[s] # Null /\ conf[s] = {sesLeaf[s]}
    /\ ~server[s] => sesLeaf[s] = Null /\ selectOf[s] = "off"

\* A chain counts certificates only behind a head that matches the key, and a
\* leaf a session holds has at least one.
Chains ==
  /\ \A l \in Leaves : leafCerts[l] > 0 => leafHead[l] = "own"
  /\ \A s \in Sessions : sesLeaf[s] # Null => leafCerts[sesLeaf[s]] > 0

HandlesInv ==
  /\ TypeOK
  /\ LeafRefsExact
  /\ StoreRefsExact
  /\ FreedIsBlank
  /\ ConfOfSession
  /\ ConfBySelect
  /\ Chains

-----------------------------------------------------------------------------

\* The reference-counting discipline leaves and stores share: X the addresses,
\* f what each session holds, refs the counts, live the allocated objects,
\* handle the ones the caller holds.
Holders(f, x) == {t \in Sessions : f[t] = x}

CountOf(f, handle, x) == Cardinality(Holders(f, x)) + (IF x \in handle THEN 1 ELSE 0)

Exact(X, f, refs, live, handle) ==
  \A x \in X : refs[x] = CountOf(f, handle, x) /\ (x \in live <=> refs[x] > 0)

LEMMA ExactDefs ==
  /\ LeafRefsExact <=> Exact(Leaves, sesLeaf, leafRefs, leaves, leafHandle)
  /\ StoreRefsExact <=> Exact(Stores, sesTrust, storeRefs, stores, storeHandle)
BY DEF LeafRefsExact, StoreRefsExact, Exact, CountOf, Holders, LeafHolders, StoreHolders

LEMMA ExactDefsNext ==
  /\ LeafRefsExact' <=> Exact(Leaves, sesLeaf', leafRefs', leaves', leafHandle')
  /\ StoreRefsExact' <=> Exact(Stores, sesTrust', storeRefs', stores', storeHandle')
BY DEF LeafRefsExact, StoreRefsExact, Exact, CountOf, Holders, LeafHolders, StoreHolders

LEMMA HoldersFinite ==
  ASSUME NEW f, NEW x
  PROVE  IsFiniteSet(Holders(f, x)) /\ Cardinality(Holders(f, x)) \in Nat
BY HandlesAssumption, FS_Subset, FS_CardinalityType DEF Holders

LEMMA HolderCounts ==
  ASSUME NEW f, NEW s \in Sessions
  PROVE  Cardinality(Holders(f, f[s])) > 0
<1>1. Holders(f, f[s]) # {} BY DEF Holders
<1> QED BY <1>1, HoldersFinite, FS_EmptySet

\* An object that is held, by its caller or by a session, is allocated.
LEMMA HeldIsLive ==
  ASSUME NEW X, NEW f, NEW refs, NEW live, NEW handle,
         Exact(X, f, refs, live, handle), NEW x \in X
  PROVE  /\ x \in handle => x \in live
         /\ \A s \in Sessions : f[s] = x => x \in live
<1>1. Cardinality(Holders(f, x)) \in Nat BY HoldersFinite
<1>2. \A s \in Sessions : f[s] = x => Cardinality(Holders(f, x)) > 0 BY HolderCounts
<1> QED BY <1>1, <1>2 DEF Exact, CountOf

\* Nobody holds anything: every count is zero.
LEMMA ExactInitially ==
  ASSUME NEW X, Null \notin X
  PROVE  Exact(X, [s \in Sessions |-> Null], [x \in X |-> 0], {}, {})
<1> DEFINE f == [s \in Sessions |-> Null]
<1> SUFFICES ASSUME NEW x \in X PROVE Cardinality(Holders(f, x)) = 0
  BY DEF Exact, CountOf
<1>1. Holders(f, x) = {} BY DEF Holders
<1> QED BY <1>1, FS_EmptySet

\* A constructor: x was not allocated, so nobody held it; its caller does now.
LEMMA ExactMake ==
  ASSUME NEW X, NEW f, NEW refs \in [X -> Nat], NEW live, NEW handle, NEW x \in X,
         Exact(X, f, refs, live, handle), x \notin live
  PROVE  Exact(X, f, [refs EXCEPT ![x] = 1], live \cup {x}, handle \cup {x})
<1> SUFFICES ASSUME NEW y \in X
             PROVE  /\ [refs EXCEPT ![x] = 1][y] = CountOf(f, handle \cup {x}, y)
                    /\ y \in live \cup {x} <=> [refs EXCEPT ![x] = 1][y] > 0
  BY DEF Exact
<1>1. Cardinality(Holders(f, y)) \in Nat BY HoldersFinite
<1>2. CASE y = x BY <1>1, <1>2 DEF Exact, CountOf
<1>3. CASE y # x BY <1>1, <1>3 DEF Exact, CountOf
<1> QED BY <1>2, <1>3

\* The caller's release.
LEMMA ExactFree ==
  ASSUME NEW X, Null \notin X, NEW f, NEW refs \in [X -> Nat], NEW live, NEW handle,
         Exact(X, f, refs, live, handle), NEW x \in handle, x \in X
  PROVE  Exact(X, f, Drop(refs, x), Release(live, refs, x), handle \ {x})
<1> SUFFICES ASSUME NEW y \in X
             PROVE  /\ Drop(refs, x)[y] = CountOf(f, handle \ {x}, y)
                    /\ y \in Release(live, refs, x) <=> Drop(refs, x)[y] > 0
  BY DEF Exact
<1>1. Cardinality(Holders(f, y)) \in Nat BY HoldersFinite
<1>2. CASE y = x BY <1>1, <1>2 DEF Exact, CountOf, Drop, Release
<1>3. CASE y # x BY <1>1, <1>3 DEF Exact, CountOf, Drop, Release
<1> QED BY <1>2, <1>3

\* A session's pointer moves from what it was to x (either may be null): the
\* reference on x is taken before the old one is dropped.  This covers a new
\* session (from null), tls_server_select and session_free (to null).
LEMMA ExactMove ==
  ASSUME NEW X, Null \notin X, NEW f \in [Sessions -> X \cup {Null}],
         NEW refs \in [X -> Nat], NEW live, NEW handle,
         Exact(X, f, refs, live, handle),
         NEW s \in Sessions, NEW x \in X \cup {Null}, x # f[s], x # Null => x \in live
  PROVE  Exact(X, [f EXCEPT ![s] = x], Drop(Take(refs, x), f[s]),
               Release(live, Take(refs, x), f[s]), handle)
<1> DEFINE g == [f EXCEPT ![s] = x]
           new == Drop(Take(refs, x), f[s])
           left == Release(live, Take(refs, x), f[s])
<1> SUFFICES ASSUME NEW y \in X
             PROVE  /\ new[y] = CountOf(g, handle, y)
                    /\ y \in left <=> new[y] > 0
  BY DEF Exact
<1> HIDE DEF g
<1>0. g[s] = x /\ \A t \in Sessions : t # s => g[t] = f[t] BY DEF g
<1>1. /\ Cardinality(Holders(f, y)) \in Nat
      /\ Cardinality(Holders(g, y)) \in Nat
      /\ refs[y] = CountOf(f, handle, y)
      /\ y \in live <=> refs[y] > 0
      /\ y # Null
  BY HoldersFinite DEF Exact
<1>2. CASE f[s] = y
  <2>1. Holders(g, y) = Holders(f, y) \ {s} /\ s \in Holders(f, y) BY <1>0, <1>2 DEF Holders
  <2>2. Cardinality(Holders(g, y)) = Cardinality(Holders(f, y)) - 1
    BY <2>1, HoldersFinite, FS_RemoveElement
  <2>3. Cardinality(Holders(f, y)) > 0 BY <1>2, HolderCounts
  <2>4. new[y] = refs[y] - 1 BY <1>1, <1>2 DEF Take, Drop
  <2>5. y \in left <=> y \in live /\ refs[y] > 1 BY <1>1, <1>2 DEF Take, Release
  <2> QED BY <1>1, <2>2, <2>3, <2>4, <2>5 DEF CountOf
<1>3. CASE f[s] # y /\ x = y
  <2>1. Holders(g, y) = Holders(f, y) \cup {s} /\ s \notin Holders(f, y)
    BY <1>0, <1>3 DEF Holders
  <2>2. Cardinality(Holders(g, y)) = Cardinality(Holders(f, y)) + 1
    BY <2>1, HoldersFinite, FS_AddElement
  <2>3. new[y] = refs[y] + 1 BY <1>1, <1>3 DEF Take, Drop
  <2>4. y \in left BY <1>1, <1>3 DEF Release
  <2> QED BY <1>1, <2>2, <2>3, <2>4 DEF CountOf
<1>4. CASE f[s] # y /\ x # y
  <2>1. Holders(g, y) = Holders(f, y) BY <1>0, <1>4 DEF Holders
  <2>2. new[y] = refs[y] BY <1>4 DEF Take, Drop
  <2>3. y \in left <=> y \in live BY <1>4 DEF Release
  <2> QED BY <1>1, <2>1, <2>2, <2>3 DEF CountOf
<1> QED BY <1>2, <1>3, <1>4

\* A constructor that fails gives back what it took.
LEMMA TakeThenDrop ==
  ASSUME NEW X, Null \notin X, NEW refs \in [X -> Nat], NEW live, NEW x \in X \cup {Null},
         x # Null => refs[x] > 0
  PROVE  Drop(Take(refs, x), x) = refs /\ Release(live, Take(refs, x), x) = live
<1>1. CASE x = Null BY <1>1 DEF Take, Drop, Release
<1>2. CASE x # Null
  <2>1. Take(refs, x) \in [X -> Nat] /\ Take(refs, x)[x] = refs[x] + 1 /\ refs[x] \in Nat
    BY <1>2 DEF Take
  <2>2. Release(live, Take(refs, x), x) = live BY <2>1, <1>2 DEF Release
  <2>3. \A y \in X : Drop(Take(refs, x), x)[y] = refs[y]
    BY <1>2 DEF Take, Drop
  <2>4. Drop(Take(refs, x), x) \in [X -> Int] BY <2>1, <1>2 DEF Drop
  <2>5. Drop(Take(refs, x), x) = refs BY <2>3, <2>4
  <2> QED BY <2>2, <2>5
<1> QED BY <1>1, <1>2

-----------------------------------------------------------------------------
LEMMA InitHandles == Init => HandlesInv
<1> SUFFICES ASSUME Init PROVE HandlesInv OBVIOUS
<1>1. TypeOK
  <2>1. 0 \in 0..MaxCerts BY HandlesAssumption
  <2>2. conf \in [Sessions -> SUBSET (Leaves \cup {Own})] BY DEF Init
  <2> QED BY <2>1, <2>2 DEF Init, TypeOK, Heads, Selects
<1>2. LeafRefsExact /\ StoreRefsExact
  BY ExactDefs, ExactInitially, HandlesAssumption DEF Init
<1>3. FreedIsBlank /\ ConfOfSession /\ ConfBySelect /\ Chains
  BY DEF Init, FreedIsBlank, ConfOfSession, ConfBySelect, Chains
<1> QED BY <1>1, <1>2, <1>3 DEF HandlesInv

-----------------------------------------------------------------------------
LEMMA TakeDropType ==
  ASSUME NEW X, Null \notin X, NEW refs \in [X -> Nat], NEW x \in X \cup {Null}
  PROVE  /\ Take(refs, x) \in [X -> Nat]
         /\ x # Null => Take(refs, x)[x] > 0
         /\ \A y \in X : Take(refs, x)[y] >= refs[y]
         /\ x # Null /\ refs[x] > 0 => Drop(refs, x) \in [X -> Nat]
         /\ x = Null => Drop(refs, x) = refs /\ Take(refs, x) = refs
BY DEF Take, Drop

LEMMA ReleaseType ==
  ASSUME NEW X, NEW live \in SUBSET X, NEW refs, NEW x
  PROVE  Release(live, refs, x) \subseteq X
BY DEF Release

\* What the steps below take from the invariant: every pointer and handle is
\* to an allocated object with a positive count.
LEMMA Pointers ==
  ASSUME HandlesInv
  PROVE  /\ \A l \in leafHandle : l \in leaves /\ leafRefs[l] > 0
         /\ \A c \in storeHandle : c \in stores /\ storeRefs[c] > 0
         /\ \A s \in Sessions : sesLeaf[s] # Null => sesLeaf[s] \in leaves /\ leafRefs[sesLeaf[s]] > 0
         /\ \A s \in Sessions : sesTrust[s] # Null => sesTrust[s] \in stores /\ storeRefs[sesTrust[s]] > 0
<1>1. Exact(Leaves, sesLeaf, leafRefs, leaves, leafHandle) BY ExactDefs DEF HandlesInv
<1>2. Exact(Stores, sesTrust, storeRefs, stores, storeHandle) BY ExactDefs DEF HandlesInv
<1>3. \A l \in Leaves : l \in leaves <=> leafRefs[l] > 0 BY DEF HandlesInv, LeafRefsExact
<1>4. \A c \in Stores : c \in stores <=> storeRefs[c] > 0 BY DEF HandlesInv, StoreRefsExact
<1>5. /\ leafHandle \subseteq Leaves /\ storeHandle \subseteq Stores
      /\ sesLeaf \in [Sessions -> Leaves \cup {Null}]
      /\ sesTrust \in [Sessions -> Stores \cup {Null}]
  BY DEF HandlesInv, TypeOK
<1>6. \A l \in leafHandle : l \in leaves /\ leafRefs[l] > 0 BY <1>1, <1>3, <1>5, HeldIsLive
<1>7. \A c \in storeHandle : c \in stores /\ storeRefs[c] > 0 BY <1>2, <1>4, <1>5, HeldIsLive
<1>8. \A s \in Sessions : sesLeaf[s] # Null => sesLeaf[s] \in leaves /\ leafRefs[sesLeaf[s]] > 0
  BY <1>1, <1>3, <1>5, HeldIsLive
<1>9. \A s \in Sessions : sesTrust[s] # Null => sesTrust[s] \in stores /\ storeRefs[sesTrust[s]] > 0
  BY <1>2, <1>4, <1>5, HeldIsLive
<1> QED BY <1>6, <1>7, <1>8, <1>9

LEMMA LeafRefsUnchanged ==
  HandlesInv /\ UNCHANGED <<leaves, leafHandle, leafRefs, sesLeaf>> => LeafRefsExact'
BY DEF HandlesInv, LeafRefsExact, LeafHolders

LEMMA StoreRefsUnchanged ==
  HandlesInv /\ UNCHANGED <<stores, storeHandle, storeRefs, sesTrust>> => StoreRefsExact'
BY DEF HandlesInv, StoreRefsExact, StoreHolders

LEMMA SessionsUnchanged ==
  HandlesInv /\ UNCHANGED sesVars => FreedIsBlank' /\ ConfOfSession' /\ ConfBySelect'
BY DEF HandlesInv, sesVars, FreedIsBlank, ConfOfSession, ConfBySelect

\* A new leaf: nobody pointed to its address, so no chain in use changes.
LEMMA MakeLeafStep ==
  ASSUME HandlesInv, NEW l \in Leaves, l \notin leaves,
         NEW head \in Heads, NEW n \in 0..MaxCerts, n > 0 => head = "own",
         MakeLeaf(l, head, n), ready' \in BOOLEAN, UNCHANGED <<storeVars, sesVars>>
  PROVE  HandlesInv'
<1>1. TypeOK' BY DEF HandlesInv, TypeOK, MakeLeaf, storeVars, sesVars
<1>2. LeafRefsExact'
  <2>1. Exact(Leaves, sesLeaf, leafRefs, leaves, leafHandle) /\ leafRefs \in [Leaves -> Nat]
    BY ExactDefs DEF HandlesInv, TypeOK
  <2>2. Exact(Leaves, sesLeaf, [leafRefs EXCEPT ![l] = 1], leaves \cup {l}, leafHandle \cup {l})
    BY <2>1, ExactMake
  <2>3. Exact(Leaves, sesLeaf', leafRefs', leaves', leafHandle') BY <2>2 DEF MakeLeaf, sesVars
  <2> QED BY <2>3, ExactDefsNext
<1>3. StoreRefsExact' BY StoreRefsUnchanged DEF storeVars, sesVars
<1>4. FreedIsBlank' /\ ConfOfSession' /\ ConfBySelect' BY SessionsUnchanged
<1>5. Chains'
  <2>1. \A s \in Sessions : sesLeaf[s] # l BY Pointers, HandlesAssumption
  <2> QED BY <2>1 DEF HandlesInv, TypeOK, Chains, MakeLeaf, sesVars
<1> QED BY <1>1, <1>2, <1>3, <1>4, <1>5 DEF HandlesInv

\* Another certificate: the head of a chain that counts any stays the key's.
LEMMA LeafAddCertStep ==
  ASSUME HandlesInv, NEW l \in Leaves, NEW cert \in {"own", "other"}, LeafAddCert(l, cert)
  PROVE  HandlesInv'
<1>1. TypeOK'
  <2>1. /\ leafHead[l] \in Heads /\ cert \in Heads
        /\ leafCerts[l] \in 0..MaxCerts /\ leafCerts[l] + 1 \in 0..MaxCerts
    BY HandlesAssumption DEF HandlesInv, TypeOK, LeafAddCert, Heads
  <2> QED BY <2>1 DEF HandlesInv, TypeOK, LeafAddCert, storeVars, sesVars
<1>2. LeafRefsExact' BY LeafRefsUnchanged DEF LeafAddCert, sesVars
<1>3. StoreRefsExact' BY StoreRefsUnchanged DEF LeafAddCert, storeVars, sesVars
<1>4. FreedIsBlank' /\ ConfOfSession' /\ ConfBySelect' BY SessionsUnchanged DEF LeafAddCert
<1>5. Chains'
  <2>1. /\ leafCerts'[l] >= leafCerts[l]
        /\ leafCerts'[l] > 0 => leafHead'[l] = "own"
        /\ \A k \in Leaves : k # l => leafCerts'[k] = leafCerts[k] /\ leafHead'[k] = leafHead[k]
    BY HandlesAssumption DEF HandlesInv, TypeOK, Chains, LeafAddCert, ChecksPair, Heads
  <2>2. \A s \in Sessions : sesLeaf[s] # Null => sesLeaf[s] \in Leaves BY DEF HandlesInv, TypeOK
  <2>3. \A k \in Leaves : leafCerts[k] \in Nat /\ leafCerts'[k] \in Nat
    BY <1>1 DEF HandlesInv, TypeOK
  <2> QED BY <2>1, <2>2, <2>3 DEF HandlesInv, Chains, LeafAddCert, sesVars
<1> QED BY <1>1, <1>2, <1>3, <1>4, <1>5 DEF HandlesInv

LEMMA LeafFreeStep ==
  ASSUME HandlesInv, NEW l \in Leaves, LeafFree(l)
  PROVE  HandlesInv'
<1>0. l \in leafHandle /\ leafRefs[l] > 0 /\ Null \notin Leaves
  BY Pointers, HandlesAssumption DEF LeafFree
<1>1. TypeOK'
  <2>1. leafRefs' \in [Leaves -> Nat] /\ leaves' \subseteq Leaves
    BY <1>0, TakeDropType, ReleaseType DEF HandlesInv, TypeOK, LeafFree
  <2> QED BY <2>1 DEF HandlesInv, TypeOK, LeafFree, storeVars, sesVars
<1>2. LeafRefsExact'
  <2>1. Exact(Leaves, sesLeaf, leafRefs, leaves, leafHandle) /\ leafRefs \in [Leaves -> Nat]
    BY ExactDefs DEF HandlesInv, TypeOK
  <2>2. Exact(Leaves, sesLeaf, Drop(leafRefs, l), Release(leaves, leafRefs, l), leafHandle \ {l})
    BY <1>0, <2>1, ExactFree
  <2>3. Exact(Leaves, sesLeaf', leafRefs', leaves', leafHandle') BY <2>2 DEF LeafFree, sesVars
  <2> QED BY <2>3, ExactDefsNext
<1>3. StoreRefsExact' BY StoreRefsUnchanged DEF LeafFree, storeVars, sesVars
<1>4. FreedIsBlank' /\ ConfOfSession' /\ ConfBySelect' BY SessionsUnchanged DEF LeafFree
<1>5. Chains' BY DEF HandlesInv, Chains, LeafFree, sesVars
<1> QED BY <1>1, <1>2, <1>3, <1>4, <1>5 DEF HandlesInv

LEMMA StoreNewStep ==
  ASSUME HandlesInv, NEW c \in Stores, StoreNew(c)
  PROVE  HandlesInv'
<1>1. TypeOK' BY DEF HandlesInv, TypeOK, StoreNew, Psa, leafVars, storeVars, sesVars
<1>2. LeafRefsExact' BY LeafRefsUnchanged DEF StoreNew, leafVars, sesVars
<1>3. StoreRefsExact'
  <2>1. Exact(Stores, sesTrust, storeRefs, stores, storeHandle) /\ storeRefs \in [Stores -> Nat]
    BY ExactDefs DEF HandlesInv, TypeOK
  <2>2. Exact(Stores, sesTrust, [storeRefs EXCEPT ![c] = 1], stores \cup {c}, storeHandle \cup {c})
    BY <2>1, ExactMake DEF StoreNew
  <2>3. Exact(Stores, sesTrust', storeRefs', stores', storeHandle')
    BY <2>1, <2>2 DEF StoreNew, storeVars, sesVars
  <2> QED BY <2>3, ExactDefsNext
<1>4. FreedIsBlank' /\ ConfOfSession' /\ ConfBySelect' BY SessionsUnchanged DEF StoreNew
<1>5. Chains' BY DEF HandlesInv, Chains, StoreNew, leafVars, sesVars
<1> QED BY <1>1, <1>2, <1>3, <1>4, <1>5 DEF HandlesInv

LEMMA StoreFreeStep ==
  ASSUME HandlesInv, NEW c \in Stores, StoreFree(c)
  PROVE  HandlesInv'
<1>0. c \in storeHandle /\ storeRefs[c] > 0 /\ Null \notin Stores
  BY Pointers, HandlesAssumption DEF StoreFree
<1>1. TypeOK'
  <2>1. storeRefs' \in [Stores -> Nat] /\ stores' \subseteq Stores
    BY <1>0, TakeDropType, ReleaseType DEF HandlesInv, TypeOK, StoreFree
  <2> QED BY <2>1 DEF HandlesInv, TypeOK, StoreFree, leafVars, sesVars
<1>2. LeafRefsExact' BY LeafRefsUnchanged DEF StoreFree, leafVars, sesVars
<1>3. StoreRefsExact'
  <2>1. Exact(Stores, sesTrust, storeRefs, stores, storeHandle) /\ storeRefs \in [Stores -> Nat]
    BY ExactDefs DEF HandlesInv, TypeOK
  <2>2. Exact(Stores, sesTrust, Drop(storeRefs, c), Release(stores, storeRefs, c), storeHandle \ {c})
    BY <1>0, <2>1, ExactFree
  <2>3. Exact(Stores, sesTrust', storeRefs', stores', storeHandle') BY <2>2 DEF StoreFree, sesVars
  <2> QED BY <2>3, ExactDefsNext
<1>4. FreedIsBlank' /\ ConfOfSession' /\ ConfBySelect' BY SessionsUnchanged DEF StoreFree
<1>5. Chains' BY DEF HandlesInv, Chains, StoreFree, leafVars, sesVars
<1> QED BY <1>1, <1>2, <1>3, <1>4, <1>5 DEF HandlesInv

\* A constructor of a session that fails after taking its references gives
\* both back; one that succeeds moves the session's pointers from null.
LEMMA MakeSessionStep ==
  ASSUME HandlesInv, NEW s \in Sessions, NEW isServer \in BOOLEAN, NEW sel \in {"off", "wait"},
         NEW l \in LeafArg, NEW c \in StoreArg, NEW own,
         l # Null => leafCerts[l] > 0,
         own = IF isServer /\ sel = "off" THEN {l} ELSE {},
         isServer /\ sel = "off" => l # Null,
         ~isServer => l = Null /\ sel = "off",
         MakeSession(s, isServer, sel, l, c, own)
  PROVE  HandlesInv'
<1>0. /\ s \notin sessions
      /\ sesLeaf[s] = Null /\ sesTrust[s] = Null /\ Null \notin Leaves /\ Null \notin Stores
      /\ l \in Leaves \cup {Null} /\ c \in Stores \cup {Null}
      /\ l # Null => l \in leaves /\ leafRefs[l] > 0
      /\ c # Null => c \in stores /\ storeRefs[c] > 0
      /\ leafRefs \in [Leaves -> Nat] /\ storeRefs \in [Stores -> Nat]
      /\ own \subseteq Leaves
  BY Pointers, HandlesAssumption DEF HandlesInv, TypeOK, FreedIsBlank, MakeSession, LeafArg, StoreArg
<1>1. CASE /\ leafRefs' = Drop(Take(leafRefs, l), l)
           /\ storeRefs' = Drop(Take(storeRefs, c), c)
           /\ leaves' = Release(leaves, Take(leafRefs, l), l)
           /\ stores' = Release(stores, Take(storeRefs, c), c)
           /\ UNCHANGED sesVars
  <2>1. UNCHANGED <<leafRefs, leaves>> BY <1>0, <1>1, TakeThenDrop
  <2>2. UNCHANGED <<storeRefs, stores>> BY <1>0, <1>1, TakeThenDrop
  <2>3. UNCHANGED <<leafHandle, leafHead, leafCerts, storeHandle>> /\ ready' \in BOOLEAN
    BY DEF MakeSession, Psa, HandlesInv, TypeOK
  <2>4. TypeOK' BY <1>1, <2>1, <2>2, <2>3 DEF HandlesInv, TypeOK, sesVars
  <2>5. LeafRefsExact' BY <1>1, <2>1, <2>3, LeafRefsUnchanged DEF sesVars
  <2>6. StoreRefsExact' BY <1>1, <2>2, <2>3, StoreRefsUnchanged DEF sesVars
  <2>7. FreedIsBlank' /\ ConfOfSession' /\ ConfBySelect' BY <1>1, SessionsUnchanged
  <2>8. Chains' BY <1>1, <2>3 DEF HandlesInv, Chains, sesVars
  <2> QED BY <2>4, <2>5, <2>6, <2>7, <2>8 DEF HandlesInv
<1>2. CASE /\ leafRefs' = Take(leafRefs, l)
           /\ storeRefs' = Take(storeRefs, c)
           /\ sessions' = sessions \cup {s}
           /\ server' = [server EXCEPT ![s] = isServer]
           /\ selectOf' = [selectOf EXCEPT ![s] = sel]
           /\ started' = [started EXCEPT ![s] = FALSE]
           /\ sesLeaf' = [sesLeaf EXCEPT ![s] = l]
           /\ sesTrust' = [sesTrust EXCEPT ![s] = c]
           /\ ownSet' = [ownSet EXCEPT ![s] = FALSE]
           /\ conf' = [conf EXCEPT ![s] = own]
           /\ UNCHANGED <<leaves, stores>>
  <2>1. UNCHANGED <<leafHandle, leafHead, leafCerts, storeHandle>> /\ ready' \in BOOLEAN
    BY DEF MakeSession, Psa, HandlesInv, TypeOK
  <2>2. TypeOK'
    <3>1. leafRefs' \in [Leaves -> Nat] /\ storeRefs' \in [Stores -> Nat]
      BY <1>0, <1>2, TakeDropType
    <3>2. conf' \in [Sessions -> SUBSET (Leaves \cup {Own})] BY <1>0, <1>2 DEF HandlesInv, TypeOK
    <3>3. selectOf' \in [Sessions -> Selects] BY <1>2 DEF HandlesInv, TypeOK, Selects
    <3>4. sesLeaf' \in [Sessions -> Leaves \cup {Null}] /\ sesTrust' \in [Sessions -> Stores \cup {Null}]
      BY <1>0, <1>2 DEF HandlesInv, TypeOK
    <3> QED BY <1>2, <2>1, <3>1, <3>2, <3>3, <3>4 DEF HandlesInv, TypeOK
  <2>3. LeafRefsExact'
    <3>1. CASE l = Null
      <4>1. sesLeaf' = sesLeaf BY <1>0, <1>2, <3>1 DEF HandlesInv, TypeOK
      <4>2. leafRefs' = leafRefs BY <1>2, <3>1 DEF Take
      <4> QED BY <1>2, <2>1, <4>1, <4>2, LeafRefsUnchanged
    <3>2. CASE l # Null
      <4>1. Exact(Leaves, sesLeaf, leafRefs, leaves, leafHandle) /\ sesLeaf \in [Sessions -> Leaves \cup {Null}]
        BY ExactDefs DEF HandlesInv, TypeOK
      <4>2. Exact(Leaves, [sesLeaf EXCEPT ![s] = l], Drop(Take(leafRefs, l), sesLeaf[s]),
                  Release(leaves, Take(leafRefs, l), sesLeaf[s]), leafHandle)
        BY <1>0, <3>2, <4>1, ExactMove
      <4>3. Exact(Leaves, sesLeaf', leafRefs', leaves', leafHandle')
        BY <1>0, <1>2, <2>1, <4>2 DEF Drop, Release
      <4> QED BY <4>3, ExactDefsNext
    <3> QED BY <3>1, <3>2
  <2>4. StoreRefsExact'
    <3>1. CASE c = Null
      <4>1. sesTrust' = sesTrust BY <1>0, <1>2, <3>1 DEF HandlesInv, TypeOK
      <4>2. storeRefs' = storeRefs BY <1>2, <3>1 DEF Take
      <4> QED BY <1>2, <2>1, <4>1, <4>2, StoreRefsUnchanged
    <3>2. CASE c # Null
      <4>1. Exact(Stores, sesTrust, storeRefs, stores, storeHandle) /\ sesTrust \in [Sessions -> Stores \cup {Null}]
        BY ExactDefs DEF HandlesInv, TypeOK
      <4>2. Exact(Stores, [sesTrust EXCEPT ![s] = c], Drop(Take(storeRefs, c), sesTrust[s]),
                  Release(stores, Take(storeRefs, c), sesTrust[s]), storeHandle)
        BY <1>0, <3>2, <4>1, ExactMove
      <4>3. Exact(Stores, sesTrust', storeRefs', stores', storeHandle')
        BY <1>0, <1>2, <2>1, <4>2 DEF Drop, Release
      <4> QED BY <4>3, ExactDefsNext
    <3> QED BY <3>1, <3>2
  <2>5. FreedIsBlank' BY <1>2 DEF HandlesInv, TypeOK, FreedIsBlank
  <2>6. ConfOfSession' BY <1>0, <1>2 DEF HandlesInv, TypeOK, ConfOfSession, FreedIsBlank
  <2>7. ConfBySelect' BY <1>2 DEF HandlesInv, TypeOK, ConfBySelect
  <2>8. Chains' BY <1>2, <2>1 DEF HandlesInv, TypeOK, Chains
  <2> QED BY <2>2, <2>3, <2>4, <2>5, <2>6, <2>7, <2>8 DEF HandlesInv
<1> QED BY <1>1, <1>2 DEF MakeSession

\* tls_client_cert: the session's own chain joins its configuration together
\* with own_set.
LEMMA ClientCertStep ==
  ASSUME HandlesInv, NEW s \in Sessions, ClientCert(s)
  PROVE  HandlesInv'
<1>1. TypeOK'
  <2>1. conf' \in [Sessions -> SUBSET (Leaves \cup {Own})] BY DEF HandlesInv, TypeOK, ClientCert
  <2>2. ownSet' \in [Sessions -> BOOLEAN] BY DEF HandlesInv, TypeOK, ClientCert
  <2> QED BY <2>1, <2>2 DEF HandlesInv, TypeOK, ClientCert, leafVars, storeVars
<1>2. LeafRefsExact' BY LeafRefsUnchanged DEF ClientCert, leafVars
<1>3. StoreRefsExact' BY StoreRefsUnchanged DEF ClientCert, storeVars
<1>4. FreedIsBlank' BY DEF HandlesInv, TypeOK, FreedIsBlank, ClientCert
<1>5. ConfOfSession' BY DEF HandlesInv, TypeOK, ConfOfSession, ClientCert
<1>6. ConfBySelect' BY DEF HandlesInv, TypeOK, ConfBySelect, ClientCert
<1>7. Chains' BY DEF HandlesInv, Chains, ClientCert, leafVars
<1> QED BY <1>1, <1>2, <1>3, <1>4, <1>5, <1>6, <1>7 DEF HandlesInv

LEMMA DriveStep ==
  ASSUME HandlesInv, NEW s \in Sessions, SelectGate(s) \/ RefuseSession(s)
  PROVE  HandlesInv'
<1>1. TypeOK' BY DEF HandlesInv, TypeOK, Selects, SelectGate, RefuseSession, leafVars, storeVars
<1>2. LeafRefsExact' BY LeafRefsUnchanged DEF SelectGate, RefuseSession, leafVars
<1>3. StoreRefsExact' BY StoreRefsUnchanged DEF SelectGate, RefuseSession, storeVars
<1>4. FreedIsBlank' /\ ConfOfSession'
  BY DEF HandlesInv, FreedIsBlank, ConfOfSession, SelectGate, RefuseSession
<1>5. ConfBySelect' BY DEF HandlesInv, TypeOK, ConfBySelect, SelectGate, RefuseSession
<1>6. Chains' BY DEF HandlesInv, Chains, SelectGate, RefuseSession, leafVars
<1> QED BY <1>1, <1>2, <1>3, <1>4, <1>5, <1>6 DEF HandlesInv

\* tls_server_select: the reference moves to the chosen leaf, which is then
\* the only one configured.
LEMMA ServerSelectStep ==
  ASSUME HandlesInv, NEW s \in Sessions, NEW l \in LeafArg, SelectLeaf(s, l)
  PROVE  HandlesInv'
<1> DEFINE chosen == ChosenLeaf(s, l)
<1>0. /\ chosen \in leaves /\ chosen \in Leaves /\ chosen # Null /\ leafCerts[chosen] > 0
      /\ s \in sessions /\ selectOf[s] = "paused" /\ conf[s] = {} /\ server[s]
      /\ sesLeaf[s] # Null => sesLeaf[s] \in leaves /\ leafRefs[sesLeaf[s]] > 0
      /\ Null \notin Leaves /\ leafRefs \in [Leaves -> Nat]
      /\ sesLeaf \in [Sessions -> Leaves \cup {Null}]
  BY Pointers, HandlesAssumption
     DEF HandlesInv, TypeOK, SelectLeaf, Selectable, ChosenLeaf, LeafArg, ConfBySelect
<1>1. sesLeaf' = [sesLeaf EXCEPT ![s] = chosen] BY <1>0 DEF SelectLeaf
<1>2. \/ conf' = [conf EXCEPT ![s] = {chosen}] /\ \E r \in {"done", "refused"} : selectOf' = [selectOf EXCEPT ![s] = r]
      \/ conf' = conf /\ selectOf' = [selectOf EXCEPT ![s] = "refused"]
  BY <1>0 DEF SelectLeaf
<1>3. LeafRefsExact' /\ leafRefs' \in [Leaves -> Nat] /\ leaves' \subseteq Leaves
  <2>1. CASE chosen = sesLeaf[s]
    BY <2>1, LeafRefsUnchanged DEF SelectLeaf, HandlesInv, TypeOK
  <2>2. CASE chosen # sesLeaf[s]
    <3>1. /\ leafRefs' = Drop(Take(leafRefs, chosen), sesLeaf[s])
          /\ leaves' = Release(leaves, Take(leafRefs, chosen), sesLeaf[s])
          /\ leafHandle' = leafHandle
      BY <2>2 DEF SelectLeaf
    <3>2. Exact(Leaves, sesLeaf, leafRefs, leaves, leafHandle) BY ExactDefs DEF HandlesInv
    <3>3. Exact(Leaves, [sesLeaf EXCEPT ![s] = chosen], Drop(Take(leafRefs, chosen), sesLeaf[s]),
                Release(leaves, Take(leafRefs, chosen), sesLeaf[s]), leafHandle)
      BY <1>0, <2>2, <3>2, ExactMove
    <3>4. LeafRefsExact' BY <1>1, <3>1, <3>3, ExactDefsNext
    <3>5. leafRefs' \in [Leaves -> Nat]
      <4>1. Take(leafRefs, chosen) \in [Leaves -> Nat] BY <1>0, TakeDropType
      <4>2. sesLeaf[s] # Null => Take(leafRefs, chosen)[sesLeaf[s]] > 0
        BY <1>0, <2>2 DEF Take
      <4> QED BY <1>0, <3>1, <4>1, <4>2, TakeDropType
    <3>6. leaves' \subseteq Leaves BY <3>1 DEF Release, HandlesInv, TypeOK
    <3> QED BY <3>4, <3>5, <3>6
  <2> QED BY <2>1, <2>2
<1>4. TypeOK'
  <2>1. conf' \in [Sessions -> SUBSET (Leaves \cup {Own})] BY <1>0, <1>2 DEF HandlesInv, TypeOK
  <2>2. selectOf' \in [Sessions -> Selects] BY <1>2 DEF HandlesInv, TypeOK, Selects
  <2>3. sesLeaf' \in [Sessions -> Leaves \cup {Null}] BY <1>0, <1>1
  <2> QED BY <1>3, <2>1, <2>2, <2>3 DEF HandlesInv, TypeOK, SelectLeaf, storeVars
<1>5. StoreRefsExact' BY StoreRefsUnchanged DEF SelectLeaf, storeVars
<1>6. FreedIsBlank' BY <1>0, <1>1, <1>2 DEF HandlesInv, TypeOK, FreedIsBlank, SelectLeaf
<1>7. ConfOfSession' BY <1>0, <1>1, <1>2 DEF HandlesInv, TypeOK, ConfOfSession, SelectLeaf
<1>8. ConfBySelect' BY <1>0, <1>1, <1>2 DEF HandlesInv, TypeOK, ConfBySelect, SelectLeaf
<1>9. Chains' BY <1>0, <1>1 DEF HandlesInv, TypeOK, Chains, SelectLeaf
<1> QED BY <1>3, <1>4, <1>5, <1>6, <1>7, <1>8, <1>9 DEF HandlesInv

\* tls_session_free: both references move back to null.
LEMMA SessionFreeStep ==
  ASSUME HandlesInv, NEW s \in Sessions, SessionFree(s)
  PROVE  HandlesInv'
<1>0. /\ sesLeaf \in [Sessions -> Leaves \cup {Null}] /\ sesTrust \in [Sessions -> Stores \cup {Null}]
      /\ sesLeaf[s] # Null => leafRefs[sesLeaf[s]] > 0
      /\ sesTrust[s] # Null => storeRefs[sesTrust[s]] > 0
      /\ Null \notin Leaves /\ Null \notin Stores
      /\ leafRefs \in [Leaves -> Nat] /\ storeRefs \in [Stores -> Nat]
  BY Pointers, HandlesAssumption DEF HandlesInv, TypeOK
<1>1. /\ sesLeaf' = [sesLeaf EXCEPT ![s] = Null] /\ leafRefs' = Drop(leafRefs, sesLeaf[s])
      /\ leaves' = Release(leaves, leafRefs, sesLeaf[s]) /\ leafHandle' = leafHandle
      /\ sesTrust' = [sesTrust EXCEPT ![s] = Null] /\ storeRefs' = Drop(storeRefs, sesTrust[s])
      /\ stores' = Release(stores, storeRefs, sesTrust[s]) /\ storeHandle' = storeHandle
  BY DEF SessionFree
<1>2. LeafRefsExact'
  <2>1. CASE sesLeaf[s] = Null
    <3>1. UNCHANGED <<leaves, leafHandle, leafRefs, sesLeaf>>
      BY <1>0, <1>1, <2>1 DEF Drop, Release
    <3> QED BY <3>1, LeafRefsUnchanged
  <2>2. CASE sesLeaf[s] # Null
    <3>1. Exact(Leaves, sesLeaf, leafRefs, leaves, leafHandle) BY ExactDefs DEF HandlesInv
    <3>2. Exact(Leaves, [sesLeaf EXCEPT ![s] = Null], Drop(Take(leafRefs, Null), sesLeaf[s]),
                Release(leaves, Take(leafRefs, Null), sesLeaf[s]), leafHandle)
      BY <1>0, <2>2, <3>1, ExactMove
    <3>3. Take(leafRefs, Null) = leafRefs BY DEF Take
    <3> QED BY <1>1, <3>2, <3>3, ExactDefsNext
  <2> QED BY <2>1, <2>2
<1>3. StoreRefsExact'
  <2>1. CASE sesTrust[s] = Null
    <3>1. UNCHANGED <<stores, storeHandle, storeRefs, sesTrust>>
      BY <1>0, <1>1, <2>1 DEF Drop, Release
    <3> QED BY <3>1, StoreRefsUnchanged
  <2>2. CASE sesTrust[s] # Null
    <3>1. Exact(Stores, sesTrust, storeRefs, stores, storeHandle) BY ExactDefs DEF HandlesInv
    <3>2. Exact(Stores, [sesTrust EXCEPT ![s] = Null], Drop(Take(storeRefs, Null), sesTrust[s]),
                Release(stores, Take(storeRefs, Null), sesTrust[s]), storeHandle)
      BY <1>0, <2>2, <3>1, ExactMove
    <3>3. Take(storeRefs, Null) = storeRefs BY DEF Take
    <3> QED BY <1>1, <3>2, <3>3, ExactDefsNext
  <2> QED BY <2>1, <2>2
<1>4. TypeOK'
  <2>1. leafRefs' \in [Leaves -> Nat] /\ storeRefs' \in [Stores -> Nat]
    BY <1>0, <1>1, TakeDropType
  <2>2. leaves' \subseteq Leaves /\ stores' \subseteq Stores
    BY <1>1 DEF Release, HandlesInv, TypeOK
  <2>3. sesLeaf' \in [Sessions -> Leaves \cup {Null}] /\ sesTrust' \in [Sessions -> Stores \cup {Null}]
    BY <1>0, <1>1
  <2> QED BY <2>1, <2>2, <2>3 DEF HandlesInv, TypeOK, SessionFree
<1>5. FreedIsBlank' BY DEF HandlesInv, TypeOK, FreedIsBlank, SessionFree
<1>6. ConfOfSession' BY DEF HandlesInv, TypeOK, ConfOfSession, SessionFree
<1>7. ConfBySelect' BY DEF HandlesInv, TypeOK, ConfBySelect, SessionFree
<1>8. Chains' BY DEF HandlesInv, TypeOK, Chains, SessionFree
<1> QED BY <1>2, <1>3, <1>4, <1>5, <1>6, <1>7, <1>8 DEF HandlesInv
-----------------------------------------------------------------------------
LEMMA NextHandles == HandlesInv /\ [Next]_vars => HandlesInv'
<1> SUFFICES ASSUME HandlesInv, [Next]_vars PROVE HandlesInv' OBVIOUS
<1>1. CASE PsaFails
  <2>1. UNCHANGED <<leafVars, storeVars, sesVars>> /\ ready' \in BOOLEAN
    BY <1>1 DEF PsaFails, Psa, HandlesInv, TypeOK
  <2>2. TypeOK' BY <2>1 DEF HandlesInv, TypeOK, leafVars, storeVars, sesVars
  <2>3. LeafRefsExact' BY <2>1, LeafRefsUnchanged DEF leafVars, sesVars
  <2>4. StoreRefsExact' BY <2>1, StoreRefsUnchanged DEF storeVars, sesVars
  <2>5. FreedIsBlank' /\ ConfOfSession' /\ ConfBySelect' BY <2>1, SessionsUnchanged
  <2>6. Chains' BY <2>1 DEF HandlesInv, Chains, leafVars, sesVars
  <2> QED BY <2>2, <2>3, <2>4, <2>5, <2>6 DEF HandlesInv
<1>2. CASE UNCHANGED vars
  <2>1. TypeOK' BY <1>2 DEF HandlesInv, TypeOK, vars, leafVars, storeVars, sesVars
  <2>2. LeafRefsExact' BY <1>2, LeafRefsUnchanged DEF vars, leafVars, sesVars
  <2>3. StoreRefsExact' BY <1>2, StoreRefsUnchanged DEF vars, storeVars, sesVars
  <2>4. FreedIsBlank' /\ ConfOfSession' /\ ConfBySelect' BY <1>2, SessionsUnchanged DEF vars
  <2>5. Chains' BY <1>2 DEF HandlesInv, Chains, vars, leafVars, sesVars
  <2> QED BY <2>1, <2>2, <2>3, <2>4, <2>5 DEF HandlesInv
<1>3. ASSUME NEW l \in Leaves, LeafNew(l) \/ LeafImport(l) PROVE HandlesInv'
  <2>1. l \notin leaves /\ ready' \in BOOLEAN /\ UNCHANGED <<storeVars, sesVars>>
    BY <1>3 DEF LeafNew, LeafImport, Psa, HandlesInv, TypeOK
  <2>2. CASE MakeLeaf(l, "empty", 0)
    <3>1. "empty" \in Heads /\ 0 \in 0..MaxCerts BY HandlesAssumption DEF Heads
    <3>2. ~(0 > 0) OBVIOUS
    <3> QED BY <2>1, <2>2, <3>1, <3>2, MakeLeafStep
  <2>3. ASSUME NEW n \in 1..MaxCerts, MakeLeaf(l, "own", n) PROVE HandlesInv'
    <3>1. "own" \in Heads /\ n \in 0..MaxCerts BY HandlesAssumption DEF Heads
    <3> QED BY <2>1, <2>3, <3>1, MakeLeafStep
  <2>4. CASE UNCHANGED leafVars
    <3>1. TypeOK' BY <2>1, <2>4 DEF HandlesInv, TypeOK, leafVars, storeVars, sesVars
    <3>2. LeafRefsExact' BY <2>1, <2>4, LeafRefsUnchanged DEF leafVars, sesVars
    <3>3. StoreRefsExact' BY <2>1, StoreRefsUnchanged DEF storeVars, sesVars
    <3>4. FreedIsBlank' /\ ConfOfSession' /\ ConfBySelect' BY <2>1, SessionsUnchanged
    <3>5. Chains' BY <2>1, <2>4 DEF HandlesInv, Chains, leafVars, sesVars
    <3> QED BY <3>1, <3>2, <3>3, <3>4, <3>5 DEF HandlesInv
  <2> QED BY <1>3, <2>2, <2>3, <2>4 DEF LeafNew, LeafImport
<1>4. ASSUME NEW s \in Sessions, NEW l \in Leaves, SessionNew(s, l) PROVE HandlesInv'
  <2>1. l \in LeafArg /\ Null \in StoreArg /\ leafCerts[l] > 0 /\ l # Null
    BY <1>4, HandlesAssumption DEF SessionNew, LeafArg, StoreArg
  <2>2. MakeSession(s, TRUE, "off", l, Null, {l}) BY <1>4 DEF SessionNew
  <2> QED BY <2>1, <2>2, MakeSessionStep
<1>5. ASSUME NEW s \in Sessions, NEW l \in LeafArg, NEW c \in StoreArg, NEW sel \in BOOLEAN,
             ServerNew(s, l, c, sel)
      PROVE  HandlesInv'
  <2>1. CASE sel
    <3>1. MakeSession(s, TRUE, "wait", l, c, {}) BY <1>5, <2>1 DEF ServerNew
    <3> QED BY <1>5, <3>1, MakeSessionStep DEF ServerNew
  <2>2. CASE ~sel
    <3>1. MakeSession(s, TRUE, "off", l, c, {l}) BY <1>5, <2>2 DEF ServerNew
    <3>2. l # Null /\ leafCerts[l] > 0 BY <1>5, <2>2 DEF ServerNew
    <3> QED BY <3>1, <3>2, MakeSessionStep
  <2> QED BY <2>1, <2>2
<1>6. ASSUME NEW s \in Sessions, NEW c \in StoreArg, ClientNew(s, c) PROVE HandlesInv'
  <2>1. Null \in LeafArg BY DEF LeafArg
  <2>2. MakeSession(s, FALSE, "off", Null, c, {}) BY <1>6 DEF ClientNew
  <2> QED BY <2>1, <2>2, MakeSessionStep
<1> QED BY <1>1, <1>2, <1>3, <1>4, <1>5, <1>6, LeafAddCertStep, LeafFreeStep, StoreNewStep,
           StoreFreeStep, ClientCertStep, DriveStep, ServerSelectStep, SessionFreeStep DEF Next

\* The inductive invariant holds in every reachable state.
THEOREM HandlesInductive == Spec => []HandlesInv
BY InitHandles, NextHandles, PTL DEF Spec

\* Type correctness: in particular no count ever goes below zero, however
\* often sessions are made, selected for and freed.
THEOREM TypeCorrect == Spec => []TypeOK
<1>1. HandlesInv => TypeOK BY DEF HandlesInv
<1> QED BY <1>1, HandlesInductive, PTL

\* leaf_release and ca_release free an object exactly when its caller and
\* every session have let go of it, for any number of leaves, stores and
\* sessions.
THEOREM CountsExact == Spec => []RefsExact
<1>1. HandlesInv => RefsExact BY DEF HandlesInv, RefsExact
<1> QED BY <1>1, HandlesInductive, PTL

\* No Mbed TLS configuration ever points to a freed chain.
THEOREM NoUseAfterFree == Spec => []NoDanglingChain
<1>1. HandlesInv => NoDanglingChain
  BY Pointers DEF HandlesInv, ConfOfSession, NoDanglingChain
<1> QED BY <1>1, HandlesInductive, PTL

\* An open server session presents the chain of the leaf it holds, and only
\* that one.
THEOREM PresentsItsLeaf == Spec => []ServerPresentsItsLeaf
<1>1. HandlesInv => ServerPresentsItsLeaf
  <2> SUFFICES ASSUME HandlesInv, NEW s \in sessions, server[s], selectOf[s] \in {"off", "done"}
               PROVE  /\ conf[s] = {sesLeaf[s]} /\ sesLeaf[s] \in leaves
                      /\ leafCerts[sesLeaf[s]] > 0 /\ leafHead[sesLeaf[s]] = "own"
    BY DEF ServerPresentsItsLeaf
  <2>1. s \in Sessions /\ sesLeaf[s] # Null /\ conf[s] = {sesLeaf[s]}
    BY DEF HandlesInv, TypeOK, ConfBySelect
  <2>2. sesLeaf[s] \in leaves /\ sesLeaf[s] \in Leaves
    BY <2>1, Pointers DEF HandlesInv, TypeOK
  <2> QED BY <2>1, <2>2 DEF HandlesInv, Chains
<1> QED BY <1>1, HandlesInductive, PTL

\* The chain a session presents is never replaced, by a late
\* tls_client_cert or by a second selection.
THEOREM ChainStable == Spec => PresentedChainStable
<1>1. HandlesInv /\ [Next]_vars =>
        [\A s \in sessions \cap sessions' :
           conf[s] # {} \/ (started[s] /\ ~server[s]) => conf'[s] = conf[s]]_vars
  <2> SUFFICES ASSUME HandlesInv, Next, NEW s \in sessions, s \in sessions',
                      conf[s] # {} \/ (started[s] /\ ~server[s])
               PROVE  conf'[s] = conf[s]
    OBVIOUS
  <2>0. s \in Sessions /\ sessions \subseteq Sessions
        /\ conf \in [Sessions -> SUBSET (Leaves \cup {Own})]
        /\ ownSet \in [Sessions -> BOOLEAN]
    BY DEF HandlesInv, TypeOK
  <2>1. ASSUME NEW t \in Sessions, ClientCert(t) PROVE conf'[s] = conf[s]
    <3>1. CASE t # s BY <2>0, <2>1, <3>1 DEF ClientCert
    <3>2. CASE t = s
      <4>1. ownSet[s] \/ server[s] \/ started[s]
        BY <2>0 DEF HandlesInv, TypeOK, ConfOfSession, ConfBySelect
      <4> QED BY <2>0, <2>1, <3>2, <4>1 DEF ClientCert
    <3> QED BY <3>1, <3>2
  <2>2. ASSUME NEW t \in Sessions, NEW l \in LeafArg, SelectLeaf(t, l) PROVE conf'[s] = conf[s]
    <3>1. t # s BY <2>2 DEF HandlesInv, ConfBySelect, SelectLeaf, Selectable
    <3> QED BY <2>0, <2>2, <3>1 DEF SelectLeaf
  <2>3. ASSUME NEW t \in Sessions, SessionFree(t) PROVE conf'[s] = conf[s]
    BY <2>0, <2>3 DEF SessionFree
  <2>4. ASSUME NEW t \in Sessions, SelectGate(t) \/ RefuseSession(t) PROVE conf'[s] = conf[s]
    BY <2>4 DEF SelectGate, RefuseSession
  <2>5. ASSUME NEW t \in Sessions, NEW l, SessionNew(t, l) PROVE conf'[s] = conf[s]
    BY <2>0, <2>5 DEF SessionNew, MakeSession, sesVars
  <2>6. ASSUME NEW t \in Sessions, NEW l, NEW c, NEW sel, ServerNew(t, l, c, sel)
        PROVE  conf'[s] = conf[s]
    BY <2>0, <2>6 DEF ServerNew, MakeSession, sesVars
  <2>7. ASSUME NEW t \in Sessions, NEW c, ClientNew(t, c) PROVE conf'[s] = conf[s]
    BY <2>0, <2>7 DEF ClientNew, MakeSession, sesVars
  <2>8. CASE UNCHANGED sesVars BY <2>8 DEF sesVars
  <2> QED BY <2>1, <2>2, <2>3, <2>4, <2>5, <2>6, <2>7, <2>8
          DEF Next, PsaFails, LeafNew, LeafImport, LeafFree, LeafAddCert, StoreNew, StoreFree
<1> QED BY <1>1, HandlesInductive, PTL DEF Spec, PresentedChainStable

-----------------------------------------------------------------------------
(* TlsSelect                                                               *)

\* The gate is shut: Mbed TLS has neither taken nor given nor kept a byte.
Shut ==
  /\ inLen = fed /\ hs = "hello" /\ agreed = None
  /\ ~mbedSent /\ ~mbedPend
  /\ select # "refused" => outLen = 0

\* What the caller chose is one of the protocols it was shown.
Chosen == alpn # None => alpn \in clientAlpn

SelectInv ==
  /\ select \in {"wait", "paused", "done", "refused"}
  /\ mbedSent \in BOOLEAN /\ mbedPend \in BOOLEAN
  /\ hs \in {"hello", "reply", "over", "failed"}
  /\ select # "done" => Shut
  /\ select = "done" => Chosen
  /\ select \in {"wait", "paused"} => alpn = None
  /\ select = "wait" => sni = None /\ clientAlpn = {}
  /\ hs = "hello" => agreed = None
  /\ hs \in {"reply", "over"} => agreed = [sni |-> sni, alpn |-> alpn]
  /\ RefusalSent

LEMMA InitSelectInv == SelectInit => SelectInv
BY DEF SelectInit, SelectInv, Shut, Chosen, RefusalSent

\* refuse() before a selection: the output buffer is empty, so the alert fits.
LEMMA RefuseStep ==
  ASSUME SelectInv, select \in {"wait", "paused"}, NEW x \in Alerts, Refuse(x)
  PROVE  /\ select' = "refused" /\ alerts' = <<x>> /\ refused' = AlertError(x)
         /\ RefusalSent'
<1>1. outLen = 0 /\ alerts = <<>> BY DEF SelectInv, Shut, RefusalSent
<1>2. OutCap - outLen >= AlertLen BY <1>1, SelectAssumption
<1>3. alerts' = <<x>> /\ select' = "refused" /\ refused' = AlertError(x)
  BY <1>1, <1>2 DEF Refuse
<1> QED BY <1>3 DEF RefusalSent

LEMMA NextSelectInv == SelectInv /\ [SelectNext]_selectVars => SelectInv'
<1> SUFFICES ASSUME SelectInv, [SelectNext]_selectVars PROVE SelectInv' OBVIOUS
<1> USE DEF SelectInv, Shut, Chosen
<1>1. ASSUME NEW n \in 1..Total, Feed(n) PROVE SelectInv'
  BY <1>1 DEF Feed, gateVars, mbedVars, RefusalSent
<1>2. CASE FeedEof
  BY <1>2 DEF FeedEof, gateVars, mbedVars, RefusalSent
<1>3. ASSUME NEW n \in 1..OutCap, OutTake(n) PROVE SelectInv'
  BY <1>3 DEF OutTake, gateVars, mbedVars, RefusalSent
<1>4. ASSUME NEW call \in Calls, Drive(call) PROVE SelectInv'
  <2>1. CASE GateOpen /\ Mbed(call) /\ UNCHANGED gateVars
    <3>1. select = "done" /\ UNCHANGED <<gateVars, alpn>> BY <1>4, <2>1 DEF GateOpen, Drive
    <3>2. /\ hs' \in {"hello", "reply", "over", "failed"}
          /\ mbedSent' \in BOOLEAN /\ mbedPend' \in BOOLEAN
      BY <2>1 DEF Mbed, MbedWants, MbedSends, MbedTakes, MbedFails, mbedVars
    <3>3. hs' \in {"reply", "over"} => agreed' = [sni |-> sni, alpn |-> alpn]
      <4>1. CASE MbedTakes
        <5>1. ASSUME NEW v \in Views, OnSelected(v) PROVE [sni |-> v.sni, alpn |-> Agreed(v)] = [sni |-> sni, alpn |-> alpn]
          BY <5>1 DEF OnSelected
        <5> QED BY <4>1, <5>1 DEF MbedTakes
      <4> QED BY <2>1, <4>1 DEF Mbed, MbedWants, MbedSends, MbedFails, mbedVars
    <3>4. hs' = "hello" => agreed' = None
      BY <2>1 DEF Mbed, MbedWants, MbedSends, MbedTakes, MbedFails, mbedVars
    <3> QED BY <3>1, <3>2, <3>3, <3>4 DEF gateVars, RefusalSent
  <2>2. CASE GateMore(call) /\ UNCHANGED <<inLen, mbedVars>>
    BY <1>4, <2>2 DEF GateMore, Drive, gateVars, mbedVars, RefusalSent
  <2>3. CASE GatePauses(call) /\ UNCHANGED <<inLen, mbedVars>>
    BY <1>4, <2>3 DEF GatePauses, Drive, mbedVars, RefusalSent
  <2>4. CASE GateRefuses /\ UNCHANGED <<inLen, mbedVars>>
    <3>1. PICK x \in Alerts : Refuse(x) BY <2>4 DEF GateRefuses
    <3>2. select = "wait" BY <2>4 DEF GateRefuses
    <3>3. select' = "refused" /\ RefusalSent' BY <3>1, <3>2, RefuseStep
    <3> QED BY <1>4, <2>4, <3>2, <3>3 DEF Drive, mbedVars
  <2>5. CASE GateHolds(call) /\ UNCHANGED <<inLen, mbedVars>>
    BY <1>4, <2>5 DEF GateHolds, Drive, gateVars, mbedVars, RefusalSent
  <2> QED BY <1>4, <2>1, <2>2, <2>3, <2>4, <2>5 DEF Drive
<1>5. ASSUME NEW l \in {"null", "chain", "bare"}, NEW p \in Protos \cup {None}, ServerSelect(l, p)
      PROVE  SelectInv'
  <2>1. CASE select = "paused" /\ Offered(p) /\ select' = "done" /\ alpn' = p
             /\ UNCHANGED <<outLen, refused, alerts, sni, clientAlpn>>
    BY <1>5, <2>1 DEF ServerSelect, Offered, mbedVars, RefusalSent
  <2>2. CASE select = "paused" /\ Refuse("internal_error")
    <3>1. "internal_error" \in Alerts BY DEF Alerts
    <3>2. select' = "refused" /\ RefusalSent' BY <2>2, <3>1, RefuseStep
    <3> QED BY <1>5, <2>2, <3>2 DEF ServerSelect, mbedVars
  <2>3. CASE UNCHANGED <<outLen, gateVars, alpn>>
    BY <1>5, <2>3 DEF ServerSelect, gateVars, mbedVars, RefusalSent
  <2> QED BY <1>5, <2>1, <2>2, <2>3 DEF ServerSelect
<1>6. ASSUME NEW x \in Alerts, ServerRefuse(x) PROVE SelectInv'
  <2>1. CASE select = "paused" /\ Refuse(x)
    <3>1. select' = "refused" /\ RefusalSent' BY <2>1, RefuseStep
    <3> QED BY <1>6, <2>1, <3>1 DEF ServerRefuse, mbedVars
  <2>2. CASE UNCHANGED <<outLen, gateVars>>
    BY <1>6, <2>2 DEF ServerRefuse, gateVars, mbedVars, RefusalSent
  <2> QED BY <1>6, <2>1, <2>2 DEF ServerRefuse
<1>7. CASE Close
  BY <1>7 DEF Close, gateVars, RefusalSent
<1>8. CASE UNCHANGED selectVars
  BY <1>8 DEF selectVars, gateVars, mbedVars, RefusalSent
<1> QED BY <1>1, <1>2, <1>3, <1>4, <1>5, <1>6, <1>7, <1>8 DEF SelectNext

THEOREM SelectInductive == SelectSpec => []SelectInv
BY InitSelectInv, NextSelectInv, PTL DEF SelectSpec

\* No byte goes out, and none reaches Mbed TLS, before tls_server_select.
THEOREM Silent == SelectSpec => []SilentUntilSelected
<1>1. SelectInv => SilentUntilSelected BY DEF SelectInv, Shut, SilentUntilSelected
<1> QED BY <1>1, SelectInductive, PTL

\* refuse()'s "when there is room" never loses an alert.
THEOREM RefusalsAreHeard == SelectSpec => []RefusalSent
<1>1. SelectInv => RefusalSent BY DEF SelectInv
<1> QED BY <1>1, SelectInductive, PTL

\* Whatever Mbed TLS reads in the first or a second hello, the handshake only
\* goes on with the selector's name and protocol.
THEOREM Negotiated == SelectSpec => []NegotiatedAsSelected
<1>1. SelectInv => NegotiatedAsSelected BY DEF SelectInv, Shut, Chosen, NegotiatedAsSelected
<1> QED BY <1>1, SelectInductive, PTL

-----------------------------------------------------------------------------
(* Recursive functions over 0..n: they exist, and upward induction reaches *)
(* every argument.                                                         *)

LEMMA HasLeast ==
  ASSUME NEW T \in SUBSET Nat, T # {}
  PROVE  \E n \in T : \A m \in T : ~(m < n)
<1>1. \E n \in T : \A m \in T : ~(<<m, n>> \in OpToRel(<, Nat))
  BY WFMin, NatLessThanWellFounded
<1> QED  BY <1>1 DEF OpToRel

\* Induction, with the property as a set.
LEMMA Upward ==
  ASSUME NEW n \in Nat, NEW S, 0 \in S, \A i \in 1..n : i - 1 \in S => i \in S
  PROVE  0..n \subseteq S
<1> DEFINE T == (0..n) \ S
<1> SUFFICES ASSUME T # {} PROVE FALSE
  OBVIOUS
<1>1. T \in SUBSET Nat
  OBVIOUS
<1>2. PICK m \in T : \A l \in T : ~(l < m)
  <2> HIDE DEF T
  <2> QED BY <1>1, HasLeast
<1>3. m \in 1..n /\ m \notin S
  <2>1. m \in 0..n /\ m \notin S
    OBVIOUS
  <2>2. m # 0
    BY <2>1
  <2> QED BY <2>1, <2>2
<1>4. m - 1 \in 0..n /\ m - 1 < m
  BY <1>3
<1>5. m - 1 \in S
  BY <1>2, <1>4
<1> QED BY <1>3, <1>5

\* f is the recursive function of n steps from base.
Follows(f, n, A, base, step) ==
  f \in [0..n -> A] /\ f[0] = base /\ \A j \in 1..n : f[j] = step[<<j, f[j - 1]>>]

LEMMA Recursion ==
  ASSUME NEW n \in Nat, NEW A, NEW base \in A, NEW step \in [(1..n) \X A -> A]
  PROVE  \E f : Follows(f, n, A, base, step)
<1> DEFINE Upto(m) == \E f \in [0..m -> A] : f[0] = base /\ \A j \in 1..m : f[j] = step[<<j, f[j - 1]>>]
<1> DEFINE S == {m \in 0..n : Upto(m)}
<1>1. Upto(0)
  <2>1. PICK f : f = [i \in 0..0 |-> base]
    OBVIOUS
  <2>2. f \in [0..0 -> A] /\ f[0] = base
    BY <2>1
  <2>3. \A j \in 1..0 : FALSE
    OBVIOUS
  <2> QED BY <2>2, <2>3
<1>2. ASSUME NEW m \in 1..n, Upto(m - 1) PROVE Upto(m)
  <2>1. PICK f \in [0..m - 1 -> A] : f[0] = base /\ \A j \in 1..m - 1 : f[j] = step[<<j, f[j - 1]>>]
    BY <1>2
  <2>2. f[m - 1] \in A /\ step[<<m, f[m - 1]>>] \in A
    <3>1. m - 1 \in 0..m - 1
      OBVIOUS
    <3>2. f[m - 1] \in A
      BY <3>1
    <3>3. <<m, f[m - 1]>> \in (1..n) \X A
      BY <3>2
    <3> QED BY <3>2, <3>3
  <2> DEFINE g == [i \in 0..m |-> IF i = m THEN step[<<m, f[m - 1]>>] ELSE f[i]]
  <2>3. \A i \in 0..m : i # m => i \in 0..m - 1 /\ f[i] \in A
    BY <2>1
  <2>4. g \in [0..m -> A]
    BY <2>2, <2>3
  <2>5. g[0] = base
    BY <2>1
  <2>6. ASSUME NEW j \in 1..m PROVE g[j] = step[<<j, g[j - 1]>>]
    <3>1. j - 1 \in 0..m /\ j - 1 # m /\ g[j - 1] = f[j - 1]
      OBVIOUS
    <3>2. CASE j = m
      <4>1. g[m] = step[<<m, f[m - 1]>>]
        OBVIOUS
      <4> QED BY <3>1, <3>2, <4>1
    <3>3. CASE j # m
      <4>1. j \in 1..m - 1 /\ g[j] = f[j]
        BY <3>3
      <4> QED BY <2>1, <3>1, <4>1
    <3> QED BY <3>2, <3>3
  <2> HIDE DEF g
  <2> QED BY <2>4, <2>5, <2>6
<1>3. 0 \in S
  BY <1>1
<1>4. \A i \in 1..n : i - 1 \in S => i \in S
  <2> SUFFICES ASSUME NEW i \in 1..n, i - 1 \in S PROVE i \in S
    OBVIOUS
  <2>1. i \in 0..n /\ Upto(i - 1)
    OBVIOUS
  <2> QED BY <1>2, <2>1
<1>5. n \in S
  <2> HIDE DEF S
  <2>1. 0..n \subseteq S
    BY <1>3, <1>4, Upward
  <2> QED BY <2>1
<1> QED BY <1>5 DEF Follows

-----------------------------------------------------------------------------
(* hello_assemble: what the gate reads of the records is what they carry.  *)

\* Bodies is what its equation says.
LEMMA BodiesIs ==
  ASSUME NEW recs \in Seq(Record)
  PROVE  /\ Bodies(recs) \in [0..Len(recs) -> Nat] /\ Bodies(recs)[0] = 0
         /\ \A i \in 1..Len(recs) : Bodies(recs)[i] = Bodies(recs)[i - 1] + recs[i].body
<1>1. PICK n \in Nat : n = Len(recs)
  OBVIOUS
<1>0. \A i \in 1..n : recs[i].body \in Nat
  <2>1. \A i \in 1..n : recs[i] \in Record
    BY <1>1
  <2> QED BY <2>1 DEF Record
<1>2. PICK step : step = [w \in (1..n) \X Nat |-> w[2] + recs[w[1]].body]
  OBVIOUS
<1>3. PICK f : Follows(f, n, Nat, 0, step)
  <2>1. step \in [(1..n) \X Nat -> Nat]
    <3>1. \A w \in (1..n) \X Nat : w[2] + recs[w[1]].body \in Nat
      BY <1>0
    <3> QED BY <1>2, <3>1
  <2> QED BY <2>1, Recursion
<1>4. ASSUME NEW j \in 1..n PROVE j - 1 \in 0..n /\ f[j] = f[j - 1] + recs[j].body
  <2>1. j - 1 \in 0..n
    OBVIOUS
  <2>2. <<j, f[j - 1]>> \in (1..n) \X Nat
    BY <1>3, <2>1 DEF Follows
  <2>3. step[<<j, f[j - 1]>>] = f[j - 1] + recs[j].body
    BY <1>2, <2>2
  <2> QED BY <1>3, <2>1, <2>3 DEF Follows
<1>5. f = [i \in 0..n |-> IF i = 0 THEN 0 ELSE f[i - 1] + recs[i].body]
  <2>1. \A i \in 0..n : i # 0 => i \in 1..n
    OBVIOUS
  <2>2. \A i \in 0..n : f[i] = IF i = 0 THEN 0 ELSE f[i - 1] + recs[i].body
    BY <1>3, <1>4, <2>1 DEF Follows
  <2>3. f = [i \in 0..n |-> f[i]]
    BY <1>3 DEF Follows
  <2> QED BY <2>2, <2>3
<1>6. PICK g : g = Bodies(recs) /\ g = [i \in 0..n |-> IF i = 0 THEN 0 ELSE g[i - 1] + recs[i].body]
  <2>1. \E h : h = [i \in 0..Len(recs) |-> IF i = 0 THEN 0 ELSE h[i - 1] + recs[i].body]
    BY <1>1, <1>5
  <2>2. Bodies(recs) = CHOOSE h : h = [i \in 0..Len(recs) |-> IF i = 0 THEN 0 ELSE h[i - 1] + recs[i].body]
    BY DEF Bodies
  <2> QED BY <1>1, <2>1, <2>2
<1>7. g[0] = 0 /\ \A i \in 1..n : i \in 0..n /\ i # 0 /\ g[i] = g[i - 1] + recs[i].body
  BY <1>6
<1>8. \A i \in 0..n : g[i] \in Nat
  <2> DEFINE S == {i \in 0..n : g[i] \in Nat}
  <2>1. 0 \in S
    BY <1>7
  <2>2. ASSUME NEW i \in 1..n, i - 1 \in S PROVE i \in S
    <3>1. g[i - 1] \in Nat /\ recs[i].body \in Nat
      BY <1>0, <2>2
    <3> QED BY <1>7, <3>1
  <2>3. 0..n \subseteq S
    <3> HIDE DEF S
    <3> QED BY <2>1, <2>2, Upward
  <2> QED BY <2>3
<1>9. g \in [0..n -> Nat]
  BY <1>6, <1>8
<1> QED BY <1>1, <1>6, <1>7, <1>9

\* What the loop sees after i records.
Looked(x, n, i) == IF MessageAt(x, i) # "next" THEN MessageAt(x, i) ELSE RecordAt(x, n, i)

\* Bytes before each record, and that they only grow.
LEMMA Bytes ==
  ASSUME NEW x \in Streams, NEW n \in Nat, n = Len(x.recs)
  PROVE  /\ \A i \in 0..n : BodyOf(x.recs, i) \in Nat /\ WireOf(x.recs, i) \in Nat
         /\ BodyOf(x.recs, 0) = 0
         /\ \A i \in 1..n : /\ x.recs[i].body \in Nat
                            /\ BodyOf(x.recs, i) = BodyOf(x.recs, i - 1) + x.recs[i].body
                            /\ WireOf(x.recs, i) = WireOf(x.recs, i - 1) + RecHdr + x.recs[i].body
<1>1. x.recs \in Seq(Record) /\ RecHdr \in Nat
  BY SelectAssumption
<1>2. \A i \in 1..n : x.recs[i].body \in Nat
  <2>1. \A i \in 1..n : x.recs[i] \in Record
    BY <1>1
  <2> QED BY <2>1 DEF Record
<1>3. /\ \A i \in 0..n : BodyOf(x.recs, i) \in Nat
      /\ BodyOf(x.recs, 0) = 0
      /\ \A i \in 1..n : BodyOf(x.recs, i) = BodyOf(x.recs, i - 1) + x.recs[i].body
  <2>1. /\ Bodies(x.recs) \in [0..n -> Nat] /\ Bodies(x.recs)[0] = 0
        /\ \A i \in 1..n : Bodies(x.recs)[i] = Bodies(x.recs)[i - 1] + x.recs[i].body
    BY <1>1, BodiesIs
  <2> QED BY <2>1 DEF BodyOf
<1>4. ASSUME NEW i \in 0..n PROVE WireOf(x.recs, i) \in Nat
  <2>1. RecHdr * i \in Nat /\ BodyOf(x.recs, i) \in Nat
    BY <1>1, <1>3
  <2> QED BY <2>1 DEF WireOf
<1>5. ASSUME NEW i \in 1..n PROVE WireOf(x.recs, i) = WireOf(x.recs, i - 1) + RecHdr + x.recs[i].body
  <2>1. RecHdr * i = RecHdr * (i - 1) + RecHdr /\ RecHdr * (i - 1) \in Nat
    BY <1>1
  <2>2. i - 1 \in 0..n /\ BodyOf(x.recs, i - 1) \in Nat /\ x.recs[i].body \in Nat
    BY <1>2, <1>3
  <2>3. BodyOf(x.recs, i) = BodyOf(x.recs, i - 1) + x.recs[i].body
    BY <1>3
  <2> QED BY <1>1, <2>1, <2>2, <2>3 DEF WireOf
<1> QED BY <1>2, <1>3, <1>4, <1>5

LEMMA BytesGrow ==
  ASSUME NEW x \in Streams, NEW i \in 0..Len(x.recs), NEW j \in i..Len(x.recs)
  PROVE  /\ BodyOf(x.recs, i) <= BodyOf(x.recs, j)
         /\ WireOf(x.recs, i) <= WireOf(x.recs, j)
<1>1. PICK n \in Nat : n = Len(x.recs)
  BY SelectAssumption
<1> DEFINE S == {k \in 0..n : i <= k => /\ BodyOf(x.recs, i) <= BodyOf(x.recs, k)
                                        /\ WireOf(x.recs, i) <= WireOf(x.recs, k)}
<1>2. BodyOf(x.recs, i) \in Nat /\ WireOf(x.recs, i) \in Nat /\ i \in 0..n
  BY <1>1, Bytes
<1>3. 0 \in S
  <2>1. i <= 0 => i = 0
    BY <1>2
  <2> QED BY <1>2, <2>1
<1>4. ASSUME NEW k \in 1..n, k - 1 \in S PROVE k \in S
  <2>1. CASE k <= i
    BY <1>2, <2>1
  <2>2. CASE i <= k - 1
    <3>1. BodyOf(x.recs, i) <= BodyOf(x.recs, k - 1) /\ WireOf(x.recs, i) <= WireOf(x.recs, k - 1)
      BY <1>4, <2>2
    <3>2. /\ BodyOf(x.recs, k) = BodyOf(x.recs, k - 1) + x.recs[k].body /\ x.recs[k].body \in Nat
          /\ WireOf(x.recs, k) = WireOf(x.recs, k - 1) + RecHdr + x.recs[k].body
      BY <1>1, Bytes
    <3>3. k - 1 \in 0..n /\ BodyOf(x.recs, k - 1) \in Nat /\ WireOf(x.recs, k - 1) \in Nat /\ RecHdr \in Nat
      BY <1>1, Bytes, SelectAssumption
    <3>4. BodyOf(x.recs, i) <= BodyOf(x.recs, k) /\ WireOf(x.recs, i) <= WireOf(x.recs, k)
      BY <1>2, <3>1, <3>2, <3>3
    <3> QED BY <3>4
  <2>3. k <= i \/ i <= k - 1
    BY <1>2
  <2> QED BY <2>1, <2>2, <2>3
<1>5. j \in S
  <2>1. 0..n \subseteq S
    <3> HIDE DEF S
    <3> QED BY <1>3, <1>4, Upward
  <2> QED BY <1>1, <1>2, <2>1
<1> QED BY <1>5

LEMMA LookedKinds ==
  ASSUME NEW x, NEW n, NEW i
  PROVE  /\ MessageAt(x, i) # "next" => Looked(x, n, i) = MessageAt(x, i)
         /\ MessageAt(x, i) = "next" => Looked(x, n, i) = RecordAt(x, n, i)
         /\ RecordAt(x, n, i) # "whole"
<1>1. RecordAt(x, n, i) # "whole"
  BY DEF RecordAt
<1> QED BY <1>1 DEF Looked

\* Scan is what the loop sees at the first record that decides, and one does.
LEMMA ScanIs ==
  ASSUME NEW x \in Streams, NEW n, NEW i \in 0..Len(x.recs),
         Looked(x, n, i) # "next", \A j \in 0..i - 1 : Looked(x, n, j) = "next"
  PROVE  Scan(x, n) = Looked(x, n, i)
<1>1. PICK l : l = CHOOSE k \in 0..Len(x.recs) :
                     Looked(x, n, k) # "next" /\ \A j \in 0..k - 1 : Looked(x, n, j) = "next"
  OBVIOUS
<1>2. /\ l \in 0..Len(x.recs) /\ Looked(x, n, l) # "next"
      /\ \A j \in 0..l - 1 : Looked(x, n, j) = "next"
  BY <1>1
<1>3. ~(l < i) /\ ~(i < l)
  <2>1. Len(x.recs) \in Nat
    BY SelectAssumption
  <2>2. l < i => l \in 0..i - 1
    BY <1>2, <2>1
  <2>3. i < l => i \in 0..l - 1
    BY <1>2, <2>1
  <2> QED BY <1>2, <2>2, <2>3
<1>4. l = i
  <2>1. Len(x.recs) \in Nat
    BY SelectAssumption
  <2> QED BY <1>2, <1>3, <2>1
<1>5. Scan(x, n) = Looked(x, n, l)
  BY <1>1 DEF Scan, Looked
<1> QED BY <1>4, <1>5

LEMMA ScanStops ==
  ASSUME NEW x \in Streams, NEW n
  PROVE  \E i \in 0..Len(x.recs) : /\ Looked(x, n, i) # "next"
                                   /\ \A j \in 0..i - 1 : Looked(x, n, j) = "next"
                                   /\ Scan(x, n) = Looked(x, n, i)
<1> DEFINE T == {i \in 0..Len(x.recs) : Looked(x, n, i) # "next"}
<1>1. Len(x.recs) \in Nat
  BY SelectAssumption
<1>2. Len(x.recs) \in T
  BY <1>1 DEF Looked, RecordAt
<1>3. PICK i \in T : \A m \in T : ~(m < i)
  <2>1. T \in SUBSET Nat
    BY <1>1
  <2> HIDE DEF T
  <2> QED BY <1>2, <2>1, HasLeast
<1>4. \A j \in 0..i - 1 : Looked(x, n, j) = "next"
  <2>1. \A j \in 0..i - 1 : j \in 0..Len(x.recs) /\ j < i
    BY <1>1
  <2> QED BY <1>3, <2>1
<1>5. Scan(x, n) = Looked(x, n, i)
  BY <1>3, <1>4, ScanIs
<1> QED BY <1>3, <1>4, <1>5

\* The records carry a hello the engine can take.
Framed(x) ==
  /\ x.msg.type = "client_hello" /\ x.msg.len <= HelloMax
  /\ \E k \in DOMAIN x.recs :
       /\ BodyOf(x.recs, k) >= x.msg.len
       /\ \A j \in 1..k - 1 : BodyOf(x.recs, j) < x.msg.len
       /\ \A i \in 1..k : /\ x.recs[i].type = "handshake" /\ x.recs[i].tls
                          /\ x.recs[i].body \in 1..BodyMax
       /\ BodyOf(x.recs, k) <= HelloMax /\ WireOf(x.recs, k) <= InCap

\* A message found whole is carried by records that are well formed and fit.
LEMMA WholeIsFramed ==
  ASSUME NEW x \in Streams, NEW n \in 0..InCap, Scan(x, n) = "whole"
  PROVE  Framed(x)
<1>1. PICK i \in 0..Len(x.recs) : /\ \A j \in 0..i - 1 : Looked(x, n, j) = "next"
                                  /\ Looked(x, n, i) = "whole"
  BY ScanStops
<1>2. PICK L \in Nat : L = Len(x.recs)
  BY SelectAssumption
<1>3. /\ x.msg.len \in Nat /\ MsgHdr \in Nat /\ 0 < MsgHdr /\ MsgHdr <= x.msg.len
      /\ BodyMax \in Nat /\ HelloMax \in Nat /\ InCap \in Nat /\ RecHdr \in Nat
  BY SelectAssumption
<1>4. /\ BodyOf(x.recs, i) >= x.msg.len
      /\ x.msg.type = "client_hello" /\ x.msg.len <= HelloMax
  <2>1. MessageAt(x, i) = "whole"
    BY <1>1, LookedKinds
  <2> QED BY <1>3, <2>1 DEF MessageAt
<1>5. i \in 1..L
  <2>1. BodyOf(x.recs, 0) = 0
    BY <1>2, Bytes
  <2>2. i # 0
    BY <1>3, <1>4, <2>1
  <2> QED BY <1>2, <2>2
<1>6. ASSUME NEW j \in 0..i - 1
      PROVE  /\ BodyOf(x.recs, j) < x.msg.len
             /\ x.recs[j + 1].type = "handshake" /\ x.recs[j + 1].tls
             /\ x.recs[j + 1].body \in 1..BodyMax
             /\ BodyOf(x.recs, j + 1) <= HelloMax /\ WireOf(x.recs, j + 1) <= InCap
  <2>1. MessageAt(x, j) = "next" /\ RecordAt(x, n, j) = "next"
    BY <1>1, LookedKinds
  <2>2. /\ BodyOf(x.recs, j) \in Nat /\ WireOf(x.recs, j) \in Nat
        /\ j + 1 \in 1..L /\ j \in 0..L
    <3>1. j + 1 \in 1..L /\ j \in 0..L
      BY <1>5
    <3> QED BY <1>2, <3>1, Bytes
  <2>3. /\ x.recs[j + 1].body \in Nat
        /\ BodyOf(x.recs, j + 1) = BodyOf(x.recs, j) + x.recs[j + 1].body
        /\ WireOf(x.recs, j + 1) = WireOf(x.recs, j) + RecHdr + x.recs[j + 1].body
    <3>1. PICK m \in 1..L : m = j + 1 /\ m - 1 = j
      BY <2>2
    <3> QED BY <1>2, <3>1, Bytes
  <2>4. BodyOf(x.recs, j) < x.msg.len
    BY <1>3, <2>1, <2>2 DEF MessageAt
  <2>5. /\ x.recs[j + 1].type = "handshake" /\ x.recs[j + 1].tls
        /\ x.recs[j + 1].body # 0 /\ ~(x.recs[j + 1].body > BodyMax)
        /\ ~((n - WireOf(x.recs, j)) - RecHdr < x.recs[j + 1].body)
        /\ ~(BodyOf(x.recs, j) + x.recs[j + 1].body > HelloMax)
    BY <2>1 DEF RecordAt
  <2>6. PICK b \in Nat, w \in Nat, h \in Nat :
             b = x.recs[j + 1].body /\ w = WireOf(x.recs, j) /\ h = BodyOf(x.recs, j)
    BY <2>2, <2>3
  <2>7. b # 0 /\ ~(b > BodyMax) /\ ~((n - w) - RecHdr < b) /\ ~(h + b > HelloMax)
    BY <2>5, <2>6
  <2>8. b \in 1..BodyMax /\ h + b <= HelloMax /\ w + RecHdr + b <= InCap
    BY <1>3, <2>7
  <2> QED BY <2>3, <2>4, <2>5, <2>6, <2>8
<1>7. \A j \in 1..i - 1 : BodyOf(x.recs, j) < x.msg.len
  BY <1>6
<1>8. ASSUME NEW m \in 1..i
      PROVE  /\ x.recs[m].type = "handshake" /\ x.recs[m].tls /\ x.recs[m].body \in 1..BodyMax
             /\ BodyOf(x.recs, m) <= HelloMax /\ WireOf(x.recs, m) <= InCap
  <2>1. PICK j \in 0..i - 1 : j + 1 = m
    <3>1. m - 1 \in 0..i - 1 /\ (m - 1) + 1 = m
      BY <1>5
    <3> QED BY <3>1
  <2> QED BY <1>6, <2>1
<1>9. i \in DOMAIN x.recs /\ i \in 1..i
  <2>1. DOMAIN x.recs = 1..L
    BY <1>2, SelectAssumption
  <2> QED BY <1>5, <2>1
<1> QED BY <1>4, <1>7, <1>8, <1>9 DEF Framed

\* Such records are never refused: at most more bytes are asked for.
LEMMA FramedIsRead ==
  ASSUME NEW x \in Streams, NEW n \in 0..InCap, Framed(x)
  PROVE  Assemble(x, n) \in {"more", "whole"}
<1>1. PICK k \in DOMAIN x.recs :
           /\ BodyOf(x.recs, k) >= x.msg.len
           /\ \A j \in 1..k - 1 : BodyOf(x.recs, j) < x.msg.len
           /\ \A i \in 1..k : /\ x.recs[i].type = "handshake" /\ x.recs[i].tls
                              /\ x.recs[i].body \in 1..BodyMax
           /\ BodyOf(x.recs, k) <= HelloMax /\ WireOf(x.recs, k) <= InCap
  BY DEF Framed
<1>2. PICK L \in Nat : L = Len(x.recs) /\ DOMAIN x.recs = 1..L
  BY SelectAssumption
<1>3. /\ x.msg.len \in Nat /\ MsgHdr \in Nat /\ 0 < MsgHdr /\ MsgHdr <= x.msg.len
      /\ BodyMax \in Nat /\ HelloMax \in Nat /\ InCap \in Nat /\ RecHdr \in Nat
  BY SelectAssumption
<1>4. x.msg.type = "client_hello" /\ x.msg.len <= HelloMax
  BY DEF Framed
<1>5. Looked(x, n, k) = "whole"
  <2>1. BodyOf(x.recs, k) \in Nat
    BY <1>2, Bytes
  <2>2. MessageAt(x, k) = "whole"
    BY <1>1, <1>3, <1>4, <2>1 DEF MessageAt
  <2> QED BY <2>2 DEF Looked
<1>6. PICK i \in 0..L : /\ Looked(x, n, i) # "next"
                        /\ \A j \in 0..i - 1 : Looked(x, n, j) = "next"
                        /\ Scan(x, n) = Looked(x, n, i)
  BY <1>2, ScanStops
<1>7. CASE i = k
  <2>1. Scan(x, n) = "whole"
    BY <1>5, <1>6, <1>7
  <2> QED BY <2>1 DEF Assemble
<1>8. CASE i # k
  <2>1. i \in 0..k - 1 /\ i + 1 \in 1..k
    <3>1. ~(k < i)
      <4>1. k < i => k \in 0..i - 1
        BY <1>2
      <4> QED BY <1>5, <1>6, <4>1
    <3> QED BY <1>2, <1>8, <3>1
  <2>2. BodyOf(x.recs, i) < x.msg.len /\ BodyOf(x.recs, i) \in Nat /\ WireOf(x.recs, i) \in Nat
    <3>1. BodyOf(x.recs, i) \in Nat /\ WireOf(x.recs, i) \in Nat /\ BodyOf(x.recs, 0) = 0
      BY <1>2, Bytes
    <3>2. i # 0 => i \in 1..k - 1
      BY <2>1
    <3> QED BY <1>1, <1>3, <3>1, <3>2
  <2>3. MessageAt(x, i) = "next"
    BY <1>3, <1>4, <2>2 DEF MessageAt
  <2>4. /\ x.recs[i + 1].body \in Nat /\ x.recs[i + 1].body \in 1..BodyMax
        /\ x.recs[i + 1].type = "handshake" /\ x.recs[i + 1].tls
        /\ BodyOf(x.recs, i + 1) = BodyOf(x.recs, i) + x.recs[i + 1].body
        /\ WireOf(x.recs, i + 1) = WireOf(x.recs, i) + RecHdr + x.recs[i + 1].body
    <3>1. PICK m \in 1..L : m = i + 1 /\ m - 1 = i /\ m \in 1..k
      BY <1>2, <2>1
    <3> QED BY <1>1, <1>2, <3>1, Bytes
  <2>5. BodyOf(x.recs, i + 1) <= BodyOf(x.recs, k) /\ WireOf(x.recs, i + 1) <= WireOf(x.recs, k)
    <3>1. i + 1 \in 0..Len(x.recs) /\ k \in i + 1..Len(x.recs)
      BY <1>2, <2>1
    <3> QED BY <3>1, BytesGrow
  <2>6. BodyOf(x.recs, k) \in Nat /\ WireOf(x.recs, k) \in Nat
    BY <1>2, Bytes
  <2>7. BodyOf(x.recs, i) + x.recs[i + 1].body <= HelloMax
        /\ WireOf(x.recs, i) + RecHdr + x.recs[i + 1].body <= InCap
    BY <1>1, <1>3, <2>2, <2>4, <2>5, <2>6
  <2>8. RecordAt(x, n, i) = "more" /\ n # InCap
    <3>1. RecordAt(x, n, i) # "next"
      BY <1>6, <2>3 DEF Looked
    <3>2. /\ ~(BodyOf(x.recs, i) + x.recs[i + 1].body > HelloMax)
          /\ x.recs[i + 1].body # 0 /\ ~(x.recs[i + 1].body > BodyMax)
      BY <1>3, <2>2, <2>4, <2>7
    <3>3. i # Len(x.recs)
      BY <1>2, <2>1
    <3>4. /\ RecordAt(x, n, i) = "more"
          /\ \/ n - WireOf(x.recs, i) < RecHdr
             \/ (n - WireOf(x.recs, i)) - RecHdr < x.recs[i + 1].body
      BY <2>4, <3>1, <3>2, <3>3 DEF RecordAt
    <3> QED BY <1>3, <2>2, <2>4, <2>7, <3>4
  <2>9. Scan(x, n) = "more"
    BY <1>6, <2>3, <2>8, LookedKinds
  <2> QED BY <2>8, <2>9 DEF Assemble
<1> QED BY <1>7, <1>8

-----------------------------------------------------------------------------
(* hello_parse: what is stored of the extensions is what they say.         *)

ParseState == [sni : Names \cup {None}, alpn : SUBSET Protos, seen : SUBSET {"sni", "alpn"},
               bad : Alerts \cup {None}]

LEMMA ExtSays ==
  ASSUME NEW e \in Ext
  PROVE  /\ e.type \in {"sni", "alpn", "other", "overrun", "bad_sni", "long_sni", "bad_alpn"}
         /\ e.type = "sni" => e.name \in Names \cup {None}
         /\ e.type = "alpn" => e.protos \in SUBSET Protos
BY DEF Ext

LEMMA ExtErrorType ==
  ASSUME NEW p, NEW e, NEW mem
  PROVE  ExtError(p, e, mem) \in Alerts \cup {None}
BY DEF ExtError, Alerts

LEMMA ParseExtType ==
  ASSUME NEW p \in ParseState, NEW e \in Ext, NEW mem
  PROVE  ParseExt(p, e, mem) \in ParseState
<1>1. ASSUME NEW a \in Alerts \cup {None} PROVE [p EXCEPT !.bad = a] \in ParseState
  BY DEF ParseState
<1>2. ASSUME e.type = "sni" PROVE [p EXCEPT !.sni = e.name, !.seen = @ \cup {"sni"}] \in ParseState
  BY <1>2, ExtSays DEF ParseState
<1>3. ASSUME e.type = "alpn" PROVE [p EXCEPT !.alpn = e.protos, !.seen = @ \cup {"alpn"}] \in ParseState
  <2>1. e.protos \in SUBSET Protos
    BY <1>3, ExtSays
  <2> QED BY <2>1 DEF ParseState
<1> QED BY <1>1, <1>2, <1>3, ExtErrorType DEF ParseExt

LEMMA BlankType == Blank \in ParseState
BY DEF Blank, ParseState

\* Parses is what its equation says.
LEMMA ParsesIs ==
  ASSUME NEW exts \in Seq(Ext), NEW mem
  PROVE  /\ Parses(exts, mem) \in [0..Len(exts) -> ParseState] /\ Parses(exts, mem)[0] = Blank
         /\ \A i \in 1..Len(exts) : Parses(exts, mem)[i] = ParseExt(Parses(exts, mem)[i - 1], exts[i], mem)
<1>1. PICK n \in Nat : n = Len(exts)
  OBVIOUS
<1>0. \A i \in 1..n : exts[i] \in Ext
  BY <1>1
<1>2. PICK step : step = [w \in (1..n) \X ParseState |-> ParseExt(w[2], exts[w[1]], mem)]
  OBVIOUS
<1>3. PICK f : Follows(f, n, ParseState, Blank, step)
  <2>1. step \in [(1..n) \X ParseState -> ParseState]
    <3>1. ASSUME NEW w \in (1..n) \X ParseState PROVE ParseExt(w[2], exts[w[1]], mem) \in ParseState
      <4>1. w[2] \in ParseState /\ exts[w[1]] \in Ext
        BY <1>0
      <4> QED BY <4>1, ParseExtType
    <3> QED BY <1>2, <3>1
  <2> QED BY <2>1, BlankType, Recursion
<1>4. ASSUME NEW j \in 1..n PROVE f[j] = ParseExt(f[j - 1], exts[j], mem)
  <2>1. j - 1 \in 0..n
    OBVIOUS
  <2>2. <<j, f[j - 1]>> \in (1..n) \X ParseState
    BY <1>3, <2>1 DEF Follows
  <2>3. step[<<j, f[j - 1]>>] = ParseExt(f[j - 1], exts[j], mem)
    BY <1>2, <2>2
  <2> QED BY <1>3, <2>1, <2>3 DEF Follows
<1>5. f = [i \in 0..n |-> IF i = 0 THEN Blank ELSE ParseExt(f[i - 1], exts[i], mem)]
  <2>1. \A i \in 0..n : i # 0 => i \in 1..n
    OBVIOUS
  <2>2. \A i \in 0..n : f[i] = IF i = 0 THEN Blank ELSE ParseExt(f[i - 1], exts[i], mem)
    BY <1>3, <1>4, <2>1 DEF Follows
  <2>3. f = [i \in 0..n |-> f[i]]
    BY <1>3 DEF Follows
  <2> QED BY <2>2, <2>3
<1>6. PICK g : /\ g = Parses(exts, mem)
               /\ g = [i \in 0..n |-> IF i = 0 THEN Blank ELSE ParseExt(g[i - 1], exts[i], mem)]
  <2>1. \E h : h = [i \in 0..Len(exts) |-> IF i = 0 THEN Blank ELSE ParseExt(h[i - 1], exts[i], mem)]
    BY <1>1, <1>5
  <2>2. Parses(exts, mem)
        = CHOOSE h : h = [i \in 0..Len(exts) |-> IF i = 0 THEN Blank ELSE ParseExt(h[i - 1], exts[i], mem)]
    BY DEF Parses
  <2> QED BY <1>1, <2>1, <2>2
<1>7. g[0] = Blank /\ \A i \in 1..n : i \in 0..n /\ i # 0 /\ g[i] = ParseExt(g[i - 1], exts[i], mem)
  BY <1>6
<1>8. \A i \in 0..n : g[i] \in ParseState
  <2> DEFINE S == {i \in 0..n : g[i] \in ParseState}
  <2>1. 0 \in S
    BY <1>7, BlankType
  <2>2. ASSUME NEW i \in 1..n, i - 1 \in S PROVE i \in S
    <3>1. g[i - 1] \in ParseState /\ exts[i] \in Ext
      BY <1>0, <2>2
    <3>2. ParseExt(g[i - 1], exts[i], mem) \in ParseState
      BY <3>1, ParseExtType
    <3> QED BY <1>7, <3>2
  <2>3. 0..n \subseteq S
    <3> HIDE DEF S
    <3> QED BY <2>1, <2>2, Upward
  <2> QED BY <2>3
<1>9. g \in [0..n -> ParseState]
  BY <1>6, <1>8
<1> QED BY <1>1, <1>6, <1>7, <1>9

\* The first i extensions are none of the wrong ones; at most one is of a type.
Sound(exts, i) == \A j \in 1..i : exts[j].type \in {"sni", "alpn", "other"}
Once(exts, i, t) == \A j, l \in 1..i : exts[j].type = t /\ exts[l].type = t => j = l
Plain(exts) == /\ Sound(exts, Len(exts))
               /\ Once(exts, Len(exts), "sni") /\ Once(exts, Len(exts), "alpn")

Has(exts, i, t) == \E j \in 1..i : exts[j].type = t

\* What hello_parse has stored of them.
StoredSni(exts, i, p) ==
  /\ "sni" \in p.seen <=> Has(exts, i, "sni")
  /\ \A j \in 1..i : exts[j].type = "sni" => p.sni = exts[j].name
  /\ "sni" \notin p.seen => p.sni = None
StoredAlpn(exts, i, p) ==
  /\ "alpn" \in p.seen <=> Has(exts, i, "alpn")
  /\ \A j \in 1..i : exts[j].type = "alpn" => p.alpn = exts[j].protos
  /\ "alpn" \notin p.seen => p.alpn = {}
Stored(exts, i, p) ==
  /\ Sound(exts, i) /\ Once(exts, i, "sni") /\ Once(exts, i, "alpn")
  /\ StoredSni(exts, i, p) /\ StoredAlpn(exts, i, p)
Stopped(exts, p) == p.bad \in Alerts /\ (p.bad = "internal_error" \/ ~Plain(exts))

ReadUpto(exts, i, p) == IF p.bad = None THEN Stored(exts, i, p) ELSE Stopped(exts, p)

\* An extension that stops the parse is wrong or repeated, or memory is short.
LEMMA StopStep ==
  ASSUME NEW exts \in Seq(Ext), NEW i \in 1..Len(exts), NEW p \in ParseState, NEW mem \in BOOLEAN,
         Stored(exts, i - 1, p), ExtError(p, exts[i], mem) # None
  PROVE  /\ ExtError(p, exts[i], mem) \in Alerts
         /\ ExtError(p, exts[i], mem) = "internal_error" \/ ~Plain(exts)
<1>1. PICK n \in Nat : n = Len(exts)
  OBVIOUS
<1>2. i \in 1..n /\ \A j \in 1..i - 1 : j \in 1..n /\ j # i
  BY <1>1
<1>3. ExtError(p, exts[i], mem) \in Alerts
  BY ExtErrorType
<1>4. PICK t : t = exts[i].type
  OBVIOUS
<1>5. CASE t \in {"overrun", "bad_sni", "long_sni", "bad_alpn"}
  <2>1. ~Sound(exts, n)
    <3>1. t \notin {"sni", "alpn", "other"}
      BY <1>5
    <3> QED BY <1>2, <1>4, <3>1 DEF Sound
  <2> QED BY <1>1, <1>3, <2>1 DEF Plain
<1>6. CASE t = "sni"
  <2>1. "sni" \in p.seen
    BY <1>4, <1>6 DEF ExtError
  <2>2. PICK j \in 1..i - 1 : exts[j].type = "sni"
    BY <2>1 DEF Stored, StoredSni, Has
  <2>3. ~Once(exts, n, "sni")
    BY <1>2, <1>4, <1>6, <2>2 DEF Once
  <2> QED BY <1>1, <1>3, <2>3 DEF Plain
<1>7. CASE t = "alpn"
  <2>1. "alpn" \in p.seen \/ ExtError(p, exts[i], mem) = "internal_error"
    BY <1>4, <1>7 DEF ExtError
  <2>2. CASE "alpn" \in p.seen
    <3>1. PICK j \in 1..i - 1 : exts[j].type = "alpn"
      BY <2>2 DEF Stored, StoredAlpn, Has
    <3>2. ~Once(exts, n, "alpn")
      BY <1>2, <1>4, <1>7, <3>1 DEF Once
    <3> QED BY <1>1, <1>3, <3>2 DEF Plain
  <2> QED BY <1>3, <2>1, <2>2
<1>8. CASE t = "other"
  BY <1>4, <1>8 DEF ExtError
<1>9. exts[i] \in Ext
  BY <1>1, <1>2
<1> QED BY <1>4, <1>5, <1>6, <1>7, <1>8, <1>9, ExtSays

\* One that does not is stored, and repeats none before it.
LEMMA StoreStep ==
  ASSUME NEW exts \in Seq(Ext), NEW i \in 1..Len(exts), NEW p \in ParseState, NEW mem \in BOOLEAN,
         p.bad = None, Stored(exts, i - 1, p), ExtError(p, exts[i], mem) = None
  PROVE  /\ ParseExt(p, exts[i], mem).bad = None
         /\ Stored(exts, i, ParseExt(p, exts[i], mem))
<1>1. PICK n \in Nat : n = Len(exts)
  OBVIOUS
<1>2. /\ i \in 1..i /\ \A j \in 1..i - 1 : j \in 1..i
      /\ \A j \in 1..i : j = i \/ j \in 1..i - 1
  BY <1>1
<1>3. PICK q : q = ParseExt(p, exts[i], mem)
  OBVIOUS
<1>4. None \notin Alerts
  BY SelectAssumption
<1>5. PICK t : t = exts[i].type
  OBVIOUS
<1>6. t \in {"sni", "alpn", "other"}
  <2>1. t \in {"sni", "alpn", "other", "overrun", "bad_sni", "long_sni", "bad_alpn"}
    BY <1>1, <1>5, ExtSays
  <2>2. ASSUME t \in {"overrun", "bad_sni", "long_sni", "bad_alpn"} PROVE FALSE
    <3>1. ExtError(p, exts[i], mem) \in {"decode_error", "illegal_parameter", "unrecognized_name"}
      BY <1>5, <2>2 DEF ExtError
    <3> QED BY <1>4, <3>1 DEF Alerts
  <2> QED BY <2>1, <2>2
<1>7. Sound(exts, i)
  BY <1>2, <1>5, <1>6 DEF Sound, Stored
<1>8. t = "sni" => "sni" \notin p.seen
  <2>1. t = "sni" /\ "sni" \in p.seen => ExtError(p, exts[i], mem) = "illegal_parameter"
    BY <1>5 DEF ExtError
  <2> QED BY <1>4, <2>1 DEF Alerts
<1>9. t = "alpn" => "alpn" \notin p.seen
  <2>1. t = "alpn" /\ "alpn" \in p.seen => ExtError(p, exts[i], mem) = "illegal_parameter"
    BY <1>5 DEF ExtError
  <2> QED BY <1>4, <2>1 DEF Alerts
<1>10. Once(exts, i, "sni")
  <2>1. t = "sni" => \A j \in 1..i - 1 : exts[j].type # "sni"
    BY <1>8 DEF Stored, StoredSni, Has
  <2>2. Once(exts, i - 1, "sni")
    BY DEF Stored
  <2> QED BY <1>2, <1>5, <2>1, <2>2 DEF Once
<1>11. Once(exts, i, "alpn")
  <2>1. t = "alpn" => \A j \in 1..i - 1 : exts[j].type # "alpn"
    BY <1>9 DEF Stored, StoredAlpn, Has
  <2>2. Once(exts, i - 1, "alpn")
    BY DEF Stored
  <2> QED BY <1>2, <1>5, <2>1, <2>2 DEF Once
<1>12. StoredSni(exts, i - 1, p) /\ StoredAlpn(exts, i - 1, p)
  BY DEF Stored
<1>13. q.bad = None /\ StoredSni(exts, i, q)
  <2>1. CASE t = "sni"
    <3>1. q.sni = exts[i].name /\ q.seen = p.seen \cup {"sni"} /\ q.bad = None
      BY <1>3, <1>5, <2>1 DEF ParseExt, ParseState
    <3>2. \A j \in 1..i - 1 : exts[j].type # "sni"
      BY <1>8, <1>12, <2>1 DEF StoredSni, Has
    <3> QED BY <1>2, <1>5, <2>1, <3>1, <3>2 DEF StoredSni, Has
  <2>2. CASE t # "sni"
    <3>1. q.sni = p.sni /\ ("sni" \in q.seen <=> "sni" \in p.seen) /\ q.bad = None
      BY <1>3, <1>5, <2>2 DEF ParseExt, ParseState
    <3> QED BY <1>2, <1>5, <1>12, <2>2, <3>1 DEF StoredSni, Has
  <2> QED BY <2>1, <2>2
<1>14. StoredAlpn(exts, i, q)
  <2>1. CASE t = "alpn"
    <3>1. q.alpn = exts[i].protos /\ q.seen = p.seen \cup {"alpn"}
      BY <1>3, <1>5, <2>1 DEF ParseExt, ParseState
    <3>2. \A j \in 1..i - 1 : exts[j].type # "alpn"
      BY <1>9, <1>12, <2>1 DEF StoredAlpn, Has
    <3> QED BY <1>2, <1>5, <2>1, <3>1, <3>2 DEF StoredAlpn, Has
  <2>2. CASE t # "alpn"
    <3>1. q.alpn = p.alpn /\ ("alpn" \in q.seen <=> "alpn" \in p.seen)
      BY <1>3, <1>5, <2>2 DEF ParseExt, ParseState
    <3> QED BY <1>2, <1>5, <1>12, <2>2, <3>1 DEF StoredAlpn, Has
  <2> QED BY <2>1, <2>2
<1> QED BY <1>3, <1>7, <1>10, <1>11, <1>13, <1>14 DEF Stored

LEMMA ReadStep ==
  ASSUME NEW exts \in Seq(Ext), NEW i \in 1..Len(exts), NEW p \in ParseState, NEW mem \in BOOLEAN,
         ReadUpto(exts, i - 1, p)
  PROVE  ReadUpto(exts, i, ParseExt(p, exts[i], mem))
<1>1. CASE p.bad # None
  <2>1. ParseExt(p, exts[i], mem) = p
    BY <1>1 DEF ParseExt
  <2> QED BY <1>1, <2>1 DEF ReadUpto
<1>2. CASE p.bad = None /\ ExtError(p, exts[i], mem) # None
  <2>1. Stored(exts, i - 1, p)
    BY <1>2 DEF ReadUpto
  <2>2. /\ ExtError(p, exts[i], mem) \in Alerts
        /\ ExtError(p, exts[i], mem) = "internal_error" \/ ~Plain(exts)
    BY <1>2, <2>1, StopStep
  <2>3. PICK q : q = ParseExt(p, exts[i], mem)
    OBVIOUS
  <2>4. q.bad = ExtError(p, exts[i], mem)
    BY <1>2, <2>3 DEF ParseExt, ParseState
  <2> QED BY <1>2, <2>2, <2>3, <2>4 DEF ReadUpto, Stopped
<1>3. CASE p.bad = None /\ ExtError(p, exts[i], mem) = None
  <2>1. Stored(exts, i - 1, p)
    BY <1>3 DEF ReadUpto
  <2>2. ParseExt(p, exts[i], mem).bad = None /\ Stored(exts, i, ParseExt(p, exts[i], mem))
    BY <1>3, <2>1, StoreStep
  <2> QED BY <2>2 DEF ReadUpto
<1> QED BY <1>1, <1>2, <1>3

LEMMA ReadAll ==
  ASSUME NEW exts \in Seq(Ext), NEW mem \in BOOLEAN
  PROVE  ReadUpto(exts, Len(exts), Parses(exts, mem)[Len(exts)])
<1>1. PICK n \in Nat : n = Len(exts)
  OBVIOUS
<1>2. PICK g : g = Parses(exts, mem)
  OBVIOUS
<1>3. /\ g \in [0..n -> ParseState] /\ g[0] = Blank
      /\ \A i \in 1..n : g[i] = ParseExt(g[i - 1], exts[i], mem)
  BY <1>1, <1>2, ParsesIs
<1> DEFINE S == {i \in 0..n : ReadUpto(exts, i, g[i])}
<1>4. 0 \in S
  <2>1. \A j \in 1..0 : FALSE
    OBVIOUS
  <2>2. ReadUpto(exts, 0, Blank)
    BY <2>1 DEF ReadUpto, Blank, Stored, StoredSni, StoredAlpn, Sound, Once, Has
  <2> QED BY <1>3, <2>2
<1>5. ASSUME NEW i \in 1..n, i - 1 \in S PROVE i \in S
  <2>1. g[i - 1] \in ParseState /\ ReadUpto(exts, i - 1, g[i - 1])
    BY <1>3, <1>5
  <2>2. i \in 1..Len(exts)
    BY <1>1
  <2>3. ReadUpto(exts, i, ParseExt(g[i - 1], exts[i], mem))
    BY <2>1, <2>2, ReadStep
  <2>4. ReadUpto(exts, i, g[i])
    BY <1>3, <2>3
  <2> QED BY <2>4
<1>6. n \in S
  <2>1. 0..n \subseteq S
    <3> HIDE DEF S
    <3> QED BY <1>4, <1>5, Upward
  <2> QED BY <2>1
<1> QED BY <1>1, <1>2, <1>6

-----------------------------------------------------------------------------
(* Readable and ClientHello, in the terms of the algorithm.                *)

LEMMA AtMostOne ==
  ASSUME NEW S, IsFiniteSet(S)
  PROVE  Cardinality(S) <= 1 <=> \A a, b \in S : a = b
<1>1. Cardinality(S) \in Nat
  BY FS_CardinalityType
<1>2. ASSUME Cardinality(S) <= 1 PROVE \A a, b \in S : a = b
  <2>1. Cardinality(S) = 0 \/ Cardinality(S) = 1
    BY <1>1, <1>2
  <2>2. S = {} \/ \E x : S = {x}
    BY <2>1, FS_EmptySet, FS_Singleton
  <2> QED BY <2>2
<1>3. ASSUME \A a, b \in S : a = b PROVE Cardinality(S) <= 1
  <2>1. CASE S = {}
    <3>1. Cardinality(S) = 0
      BY <2>1, FS_EmptySet
    <3> QED BY <3>1
  <2>2. CASE S # {}
    <3>1. \E x : S = {x}
      BY <1>3, <2>2
    <3>2. Cardinality(S) = 1
      BY <3>1, FS_Singleton
    <3> QED BY <3>2
  <2> QED BY <2>1, <2>2
<1> QED BY <1>2, <1>3

LEMMA LeastIs ==
  ASSUME NEW S \in SUBSET Nat, NEW k \in S, \A j \in S : ~(j < k)
  PROVE  Min(S) = k
<1>1. \A j \in S : k <= j
  <2>1. \A j \in S : j \in Nat /\ k \in Nat /\ ~(j < k)
    OBVIOUS
  <2> QED BY <2>1
<1>2. PICK m : m = Min(S)
  OBVIOUS
<1>3. m \in S /\ \A j \in S : m <= j
  BY <1>1, <1>2 DEF Min
<1>4. m <= k /\ k <= m /\ m \in Nat /\ k \in Nat
  BY <1>1, <1>3
<1> QED BY <1>2, <1>4

LEMMA FramedAtMin ==
  ASSUME NEW x \in Streams
  PROVE  Framed(x) <=>
           /\ x.msg.type = "client_hello" /\ x.msg.len <= HelloMax
           /\ Carriers(x) # {}
           /\ \A i \in 1..Min(Carriers(x)) : /\ x.recs[i].type = "handshake" /\ x.recs[i].tls
                                             /\ x.recs[i].body \in 1..BodyMax
           /\ BodyOf(x.recs, Min(Carriers(x))) <= HelloMax
           /\ WireOf(x.recs, Min(Carriers(x))) <= InCap
<1>1. PICK L \in Nat : L = Len(x.recs) /\ DOMAIN x.recs = 1..L
  BY SelectAssumption
<1>2. x.msg.len \in Nat /\ \A j \in 1..L : BodyOf(x.recs, j) \in Nat
  <2>1. \A j \in 1..L : j \in 0..L
    OBVIOUS
  <2> QED BY <1>1, <2>1, Bytes, SelectAssumption
<1>3. PICK C : C = Carriers(x)
  OBVIOUS
<1>4. C \in SUBSET Nat /\ C = {k \in 1..L : BodyOf(x.recs, k) >= x.msg.len}
  BY <1>1, <1>3 DEF Carriers
<1>5. ASSUME NEW k \in DOMAIN x.recs
      PROVE  /\ BodyOf(x.recs, k) >= x.msg.len
             /\ \A j \in 1..k - 1 : BodyOf(x.recs, j) < x.msg.len
             <=> C # {} /\ k = Min(C)
  <2>1. ASSUME BodyOf(x.recs, k) >= x.msg.len, \A j \in 1..k - 1 : BodyOf(x.recs, j) < x.msg.len
        PROVE  C # {} /\ k = Min(C)
    <3>1. k \in C
      BY <1>1, <1>4, <2>1
    <3>2. ASSUME NEW j \in C, j < k PROVE FALSE
      <4>1. j \in 1..k - 1 /\ j \in 1..L /\ BodyOf(x.recs, j) >= x.msg.len
        BY <1>1, <1>4, <3>2
      <4>2. BodyOf(x.recs, j) < x.msg.len /\ BodyOf(x.recs, j) \in Nat
        BY <1>2, <2>1, <4>1
      <4> QED BY <1>2, <4>1, <4>2
    <3> QED BY <1>4, <3>1, <3>2, LeastIs
  <2>2. ASSUME C # {}, k = Min(C)
        PROVE  BodyOf(x.recs, k) >= x.msg.len /\ \A j \in 1..k - 1 : BodyOf(x.recs, j) < x.msg.len
    <3>1. PICK m \in C : \A j \in C : ~(j < m)
      BY <1>4, <2>2, HasLeast
    <3>2. m = k
      BY <1>4, <2>2, <3>1, LeastIs
    <3>3. ASSUME NEW j \in 1..k - 1 PROVE BodyOf(x.recs, j) < x.msg.len
      <4>1. j \in 1..L /\ j < k
        BY <1>1
      <4>2. j \notin C
        BY <3>1, <3>2, <4>1
      <4> QED BY <1>2, <1>4, <4>1, <4>2
    <3> QED BY <1>4, <3>1, <3>2, <3>3
  <2> QED BY <2>1, <2>2
<1>6. C # {} => Min(C) \in DOMAIN x.recs
  <2> SUFFICES ASSUME C # {} PROVE Min(C) \in DOMAIN x.recs
    OBVIOUS
  <2>1. PICK m \in C : \A j \in C : ~(j < m)
    BY <1>4, HasLeast
  <2>2. m = Min(C)
    BY <1>4, <2>1, LeastIs
  <2> QED BY <1>1, <1>4, <2>1, <2>2
<1> QED BY <1>3, <1>5, <1>6 DEF Framed

LEMMA ReadableIs ==
  ASSUME NEW x \in Streams
  PROVE  Readable(x) <=> Framed(x) /\ x.msg.fields /\ Plain(x.msg.exts)
<1>0. x.msg.exts \in Seq(Ext)
  BY SelectAssumption
<1>1. PICK n \in Nat : n = Len(x.msg.exts) /\ DOMAIN x.msg.exts = 1..n
  BY <1>0
<1>2. PICK E : E = x.msg.exts
  OBVIOUS
<1> DEFINE At(types) == {i \in 1..n : E[i].type \in types}
<1>3. \A i \in 1..n : E[i].type \in {"sni", "alpn", "other", "overrun", "bad_sni", "long_sni", "bad_alpn"}
  <2>1. \A i \in 1..n : E[i] \in Ext
    BY <1>1, <1>2, SelectAssumption
  <2> QED BY <2>1, ExtSays
<1>4. At({"overrun", "bad_sni", "long_sni", "bad_alpn"}) = {} <=> Sound(E, n)
  BY <1>3 DEF Sound
<1>5. ASSUME NEW t PROVE Cardinality(At({t})) <= 1 <=> Once(E, n, t)
  <2>1. IsFiniteSet(At({t}))
    <3>1. IsFiniteSet(1..n)
      BY FS_Interval
    <3>2. At({t}) \in SUBSET (1..n)
      OBVIOUS
    <3> HIDE DEF At
    <3> QED BY <3>1, <3>2, FS_Subset
  <2>2. Cardinality(At({t})) <= 1 <=> \A a, b \in At({t}) : a = b
    <3> HIDE DEF At
    <3> QED BY <2>1, AtMostOne
  <2>3. (\A a, b \in At({t}) : a = b) <=> Once(E, n, t)
    BY DEF Once
  <2> QED BY <2>2, <2>3
<1>6. Plain(E) <=> /\ At({"overrun", "bad_sni", "long_sni", "bad_alpn"}) = {}
                   /\ Cardinality(At({"sni"})) <= 1 /\ Cardinality(At({"alpn"})) <= 1
  <2> HIDE DEF At
  <2> QED BY <1>1, <1>2, <1>4, <1>5 DEF Plain
<1>7. Readable(x) <=> /\ Framed(x) /\ x.msg.fields
                      /\ At({"overrun", "bad_sni", "long_sni", "bad_alpn"}) = {}
                      /\ Cardinality(At({"sni"})) <= 1 /\ Cardinality(At({"alpn"})) <= 1
  BY <1>1, <1>2, FramedAtMin DEF Readable
<1> HIDE DEF At
<1> QED BY <1>2, <1>6, <1>7

LEMMA HelloIs ==
  ASSUME NEW x \in Streams, NEW p, Stored(x.msg.exts, Len(x.msg.exts), p)
  PROVE  ClientHello(x) = [sni |-> p.sni, alpn |-> p.alpn]
<1>0. x.msg.exts \in Seq(Ext)
  BY SelectAssumption
<1>1. PICK n \in Nat : n = Len(x.msg.exts) /\ DOMAIN x.msg.exts = 1..n
  BY <1>0
<1>2. PICK E : E = x.msg.exts
  OBVIOUS
<1>3. StoredSni(E, n, p) /\ StoredAlpn(E, n, p)
  BY <1>1, <1>2 DEF Stored
<1>4. \A e : e \in ToSet(E) <=> \E i \in 1..n : e = E[i]
  BY <1>1, <1>2 DEF ToSet
<1>5. (IF \E i \in 1..n : E[i].type = "sni"
       THEN (CHOOSE e \in ToSet(E) : e.type = "sni").name ELSE None) = p.sni
  <2>1. CASE \E i \in 1..n : E[i].type = "sni"
    <3>1. PICK e : e = (CHOOSE d \in ToSet(E) : d.type = "sni")
      OBVIOUS
    <3>2. e \in ToSet(E) /\ e.type = "sni"
      BY <1>4, <2>1, <3>1
    <3>3. e.name = p.sni
      BY <1>3, <1>4, <3>2 DEF StoredSni
    <3> QED BY <2>1, <3>1, <3>3
  <2>2. CASE ~\E i \in 1..n : E[i].type = "sni"
    BY <1>3, <2>2 DEF StoredSni, Has
  <2> QED BY <2>1, <2>2
<1>6. UNION {e.protos : e \in {d \in ToSet(E) : d.type = "alpn"}} = p.alpn
  <2>1. \A e \in ToSet(E) : e.type = "alpn" => e.protos = p.alpn
    BY <1>3, <1>4 DEF StoredAlpn
  <2>2. CASE \E e \in ToSet(E) : e.type = "alpn"
    BY <2>1, <2>2
  <2>3. CASE ~\E e \in ToSet(E) : e.type = "alpn"
    <3>1. p.alpn = {}
      BY <1>3, <1>4, <2>3 DEF StoredAlpn, Has
    <3> QED BY <2>3, <3>1
  <2> QED BY <2>2, <2>3
<1> QED BY <1>1, <1>2, <1>5, <1>6 DEF ClientHello

-----------------------------------------------------------------------------
(* SelectorSeesHello.                                                      *)

LEMMA ScanKinds ==
  ASSUME NEW x, NEW n, NEW i
  PROVE  Looked(x, n, i) \in Alerts \cup {"more", "whole", "next"}
BY DEF Looked, MessageAt, RecordAt, Alerts

LEMMA AssembleKinds ==
  ASSUME NEW x \in Streams, NEW n
  PROVE  Assemble(x, n) \in Alerts \cup {"more", "whole"}
<1>1. PICK i : Looked(x, n, i) # "next" /\ Scan(x, n) = Looked(x, n, i)
  BY ScanStops
<1>2. Scan(x, n) \in Alerts \cup {"more", "whole"}
  BY <1>1, ScanKinds
<1> QED BY <1>2 DEF Assemble, Alerts

LEMMA ParsedOnce ==
  ASSUME NEW x \in Streams, NEW mem \in BOOLEAN
  PROVE  /\ Parse(x.msg, mem).bad \in Alerts \cup {None}
         /\ Parse(x.msg, mem).bad = None =>
              /\ x.msg.fields /\ Plain(x.msg.exts)
              /\ ClientHello(x) = [sni |-> Parse(x.msg, mem).sni, alpn |-> Parse(x.msg, mem).alpn]
         /\ x.msg.fields /\ Plain(x.msg.exts) => Parse(x.msg, mem).bad \in {None, "internal_error"}
<1>1. x.msg.exts \in Seq(Ext) /\ None \notin Alerts
  BY SelectAssumption
<1>2. PICK p : p = Parse(x.msg, mem)
  OBVIOUS
<1>3. CASE ~x.msg.fields
  <2>1. p.bad = "decode_error"
    BY <1>2, <1>3 DEF Parse, Blank
  <2> QED BY <1>1, <1>2, <1>3, <2>1 DEF Alerts
<1>4. CASE x.msg.fields
  <2>1. ReadUpto(x.msg.exts, Len(x.msg.exts), p)
    BY <1>1, <1>2, <1>4, ReadAll DEF Parse
  <2>2. CASE p.bad = None
    <3>1. Stored(x.msg.exts, Len(x.msg.exts), p)
      BY <2>1, <2>2 DEF ReadUpto
    <3>2. ClientHello(x) = [sni |-> p.sni, alpn |-> p.alpn]
      BY <3>1, HelloIs
    <3>3. Plain(x.msg.exts)
      BY <3>1 DEF Stored, Plain
    <3> QED BY <1>2, <1>4, <2>2, <3>2, <3>3
  <2>3. CASE p.bad # None
    <3>1. Stopped(x.msg.exts, p)
      BY <2>1, <2>3 DEF ReadUpto
    <3> QED BY <1>2, <1>4, <2>3, <3>1 DEF Stopped
  <2> QED BY <2>2, <2>3
<1> QED BY <1>3, <1>4

\* The gate only ever asks about a hello that can be read, and shows what it says.
LEMMA SelectIsRight ==
  ASSUME stream \in Streams, inLen \in 0..InCap, NEW mem \in BOOLEAN, Verdict(mem) = "select"
  PROVE  Says[stream] = [readable |-> TRUE,
                         hello |-> [sni |-> Parse(stream.msg, mem).sni, alpn |-> Parse(stream.msg, mem).alpn]]
<1>1. PICK x \in Streams, n \in 0..InCap : x = stream /\ n = inLen
  OBVIOUS
<1>2. PICK p : p = Parse(x.msg, mem)
  OBVIOUS
<1>3. Assemble(x, n) = "whole" /\ p.bad = None
  <2>1. p.bad \in Alerts \cup {None}
    BY <1>2, ParsedOnce
  <2>2. "select" \notin Alerts
    BY DEF Alerts
  <2> QED BY <1>1, <1>2, <2>1, <2>2, AssembleKinds DEF Verdict
<1>4. Framed(x)
  <2>1. Scan(x, n) = "whole"
    BY <1>3 DEF Assemble
  <2> QED BY <2>1, WholeIsFramed
<1>5. x.msg.fields /\ Plain(x.msg.exts) /\ ClientHello(x) = [sni |-> p.sni, alpn |-> p.alpn]
  BY <1>2, <1>3, ParsedOnce
<1>6. Readable(x) = TRUE
  <2>1. Readable(x)
    BY <1>4, <1>5, ReadableIs
  <2>2. Readable(x) \in BOOLEAN
    BY DEF Readable
  <2> QED BY <2>1, <2>2
<1>7. Says[x] = [readable |-> Readable(x), hello |-> ClientHello(x)]
  BY DEF Says
<1> QED BY <1>1, <1>2, <1>5, <1>6, <1>7

\* A hello that can be read is not refused but for memory.
LEMMA ReadableIsHeard ==
  ASSUME stream \in Streams, inLen \in 0..InCap, Says[stream].readable, NEW mem \in BOOLEAN
  PROVE  Verdict(mem) \in {"more", "select", "internal_error"}
<1>1. PICK x \in Streams, n \in 0..InCap : x = stream /\ n = inLen
  OBVIOUS
<1>2. Readable(x)
  BY <1>1 DEF Says
<1>3. Assemble(x, n) \in {"more", "whole"}
  BY <1>2, ReadableIs, FramedIsRead
<1>4. Parse(x.msg, mem).bad \in {None, "internal_error"}
  BY <1>2, ReadableIs, ParsedOnce
<1>5. None # "internal_error"
  BY SelectAssumption DEF Alerts
<1> QED BY <1>1, <1>3, <1>4, <1>5 DEF Verdict

\* What the gate reads from, and what the caller was shown.
HeardInv ==
  /\ stream \in Streams /\ inLen \in 0..InCap
  /\ select \in {"paused", "done"} =>
       Says[stream] = [readable |-> TRUE, hello |-> [sni |-> sni, alpn |-> clientAlpn]]

\* What the clients say does not change.
LEMMA SaysRigid == Says' = Says
BY DEF Says, Readable, ClientHello, Carriers, BodyOf, WireOf, Bodies

LEMMA InitHeard == SelectInit => HeardInv
<1>1. 0 \in 0..InCap
  BY SelectAssumption
<1> QED BY <1>1 DEF SelectInit, HeardInv

LEMMA InputFits == HeardInv /\ [SelectNext]_selectVars => stream' = stream /\ inLen' \in 0..InCap
<1> SUFFICES ASSUME HeardInv, [SelectNext]_selectVars PROVE stream' = stream /\ inLen' \in 0..InCap
  OBVIOUS
<1>0. InCap \in Nat /\ inLen \in 0..InCap
  BY SelectAssumption DEF HeardInv
<1>1. ASSUME NEW n \in 1..Total, Feed(n) PROVE stream' = stream /\ inLen' \in 0..InCap
  <2>1. n \in Int /\ 1 <= n
    OBVIOUS
  <2>2. inLen + Taken(n) \in 0..InCap
    BY <1>0, <2>1 DEF Taken
  <2> QED BY <1>1, <2>2 DEF Feed
<1>2. ASSUME NEW call \in Calls, Drive(call) PROVE stream' = stream /\ inLen' \in 0..InCap
  <2>1. ASSUME Mbed(call) PROVE inLen' \in 0..InCap
    <3>1. inLen' = inLen \/ \E n \in 0..inLen : inLen' = inLen - n
      BY <1>0, <2>1 DEF Mbed, MbedWants, MbedSends, MbedTakes, MbedFails
    <3> QED BY <1>0, <3>1
  <2> QED BY <1>0, <1>2, <2>1 DEF Drive
<1>3. ASSUME UNCHANGED <<stream, inLen>> PROVE stream' = stream /\ inLen' \in 0..InCap
  BY <1>0, <1>3
<1> QED BY <1>1, <1>2, <1>3
        DEF SelectNext, FeedEof, OutTake, ServerSelect, ServerRefuse, Close, selectVars

LEMMA NextHeard == SelectInv /\ HeardInv /\ [SelectNext]_selectVars => HeardInv'
<1> SUFFICES ASSUME SelectInv, HeardInv, [SelectNext]_selectVars PROVE HeardInv'
  OBVIOUS
<1>1. stream' = stream /\ inLen' \in 0..InCap
  BY InputFits
<1>2. stream \in Streams /\ inLen \in 0..InCap
  BY DEF HeardInv
<1>3. SUFFICES ASSUME select' \in {"paused", "done"}
               PROVE  Says[stream] = [readable |-> TRUE, hello |-> [sni |-> sni', alpn |-> clientAlpn']]
  BY <1>1, <1>2, SaysRigid DEF HeardInv
<1>4. CASE select \in {"paused", "done"} /\ UNCHANGED <<sni, clientAlpn>>
  BY <1>4 DEF HeardInv
<1>5. ASSUME NEW call \in Calls, GatePauses(call)
      PROVE  Says[stream] = [readable |-> TRUE, hello |-> [sni |-> sni', alpn |-> clientAlpn']]
  <2>1. PICK mem \in BOOLEAN : /\ Verdict(mem) = "select"
                               /\ sni' = Parse(stream.msg, mem).sni
                               /\ clientAlpn' = Parse(stream.msg, mem).alpn
    BY <1>5 DEF GatePauses
  <2> QED BY <1>2, <2>1, SelectIsRight
<1>6. ASSUME NEW call \in Calls, Drive(call), ~GatePauses(call)
      PROVE  select \in {"paused", "done"} /\ UNCHANGED <<sni, clientAlpn>>
  <2>1. ~GateRefuses
    BY <1>3 DEF GateRefuses, Refuse
  <2>2. UNCHANGED gateVars
    BY <1>6, <2>1 DEF Drive, GateMore, GateHolds
  <2> QED BY <1>3, <2>2 DEF gateVars
<1>7. ASSUME UNCHANGED gateVars PROVE select \in {"paused", "done"} /\ UNCHANGED <<sni, clientAlpn>>
  BY <1>3, <1>7 DEF gateVars
<1>8. ASSUME NEW l \in {"null", "chain", "bare"}, NEW p \in Protos \cup {None}, ServerSelect(l, p)
      PROVE  select \in {"paused", "done"} /\ UNCHANGED <<sni, clientAlpn>>
  BY <1>3, <1>8 DEF ServerSelect, gateVars
<1>9. ASSUME NEW a \in Alerts, ServerRefuse(a) PROVE select \in {"paused", "done"} /\ UNCHANGED <<sni, clientAlpn>>
  BY <1>3, <1>9 DEF ServerRefuse, Refuse, gateVars
<1>10. \/ UNCHANGED gateVars
       \/ \E call \in Calls : Drive(call)
       \/ \E l \in {"null", "chain", "bare"}, p \in Protos \cup {None} : ServerSelect(l, p)
       \/ \E a \in Alerts : ServerRefuse(a)
  BY DEF SelectNext, Feed, FeedEof, OutTake, Close, selectVars
<1> QED BY <1>4, <1>5, <1>6, <1>7, <1>8, <1>9, <1>10

LEMMA HeardRight == HeardInv => SelectorSeesHello
BY ReadableIsHeard DEF HeardInv, SelectorSeesHello

\* For every stream of records and every list of extensions, however the bytes
\* arrive: tls_server_select is asked for only on a readable hello, with its very
\* name and protocols, and the gate refuses no readable hello but for memory.
THEOREM SeesHello == SelectSpec => []SelectorSeesHello
BY InitHeard, NextHeard, HeardRight, SelectInductive, PTL DEF SelectSpec

-----------------------------------------------------------------------------
(* The session implements the gate of its caller (TlsGate).                *)

\* What the gate's caller sees of a session.
GateVars == <<stream, select, sni, clientAlpn, alpn, agreed, alerts, mbedSent>>

LEMMA Unseen ==
  ASSUME UNCHANGED GateVars
  PROVE  UNCHANGED Gate!vars
BY DEF GateVars, Gate!vars

\* What a hello says can be shown.
LEMMA Hello ==
  ASSUME NEW x \in Streams
  PROVE  Says[x] \in [readable : BOOLEAN, hello : Views]
<1> DEFINE E == x.msg.exts
<1>1. \A i \in DOMAIN E : E[i] \in Ext
  BY SelectAssumption
<1>2. ToSet(E) \subseteq Ext
  BY <1>1 DEF ToSet
<1>3. ASSUME NEW i \in DOMAIN E, E[i].type = "sni"
      PROVE  (CHOOSE e \in ToSet(E) : e.type = "sni").name \in Names \cup {None}
  <2>1. \E e \in ToSet(E) : e.type = "sni"
    BY <1>3 DEF ToSet
  <2>2. PICK e : e = (CHOOSE d \in ToSet(E) : d.type = "sni")
    OBVIOUS
  <2>3. e \in Ext /\ e.type = "sni"
    BY <1>2, <2>1, <2>2
  <2> QED BY <2>2, <2>3 DEF Ext
<1>4. ASSUME NEW e \in ToSet(E), e.type = "alpn" PROVE e.protos \subseteq Protos
  BY <1>2, <1>4 DEF Ext
<1>5. ClientHello(x) \in Views
  <2>1. (IF \E i \in DOMAIN E : E[i].type = "sni"
         THEN (CHOOSE e \in ToSet(E) : e.type = "sni").name ELSE None) \in Names \cup {None}
    BY <1>3
  <2>2. UNION {e.protos : e \in {d \in ToSet(E) : d.type = "alpn"}} \in SUBSET Protos
    BY <1>4
  <2> QED BY <2>1, <2>2 DEF ClientHello, Views
<1>6. Readable(x) \in BOOLEAN
  BY DEF Readable
<1> QED BY <1>5, <1>6 DEF Says

LEMMA InitGate == SelectInit => Gate!Init
<1> SUFFICES ASSUME SelectInit PROVE Gate!Init
  OBVIOUS
<1>1. /\ stream \in Streams /\ select = "wait" /\ sni = None /\ clientAlpn = {}
      /\ agreed = None /\ alerts = <<>> /\ mbedSent = FALSE
  BY DEF SelectInit
<1>2. Says[stream] \in [readable : BOOLEAN, hello : Views]
  BY <1>1, Hello
<1>3. alerts \o (IF mbedSent THEN <<"tls">> ELSE <<>>) = <<>>
  BY <1>1
<1> QED BY <1>1, <1>2, <1>3 DEF Gate!Init

\* Mbed TLS's bytes.
LEMMA SpeakStep ==
  ASSUME SelectInv, select = "done", mbedSent', UNCHANGED <<stream, select, sni, clientAlpn, alpn, agreed, alerts>>
  PROVE  Gate!Speak
<1>1. alerts' = <<>>
  BY DEF SelectInv, RefusalSent
<1>2. (alerts \o (IF mbedSent THEN <<"tls">> ELSE <<>>))' = <<"tls">>
  BY <1>1
<1> QED BY <1>2 DEF Gate!Speak

\* A refusal, by the gate or by the caller.
LEMMA GateRefusal ==
  ASSUME SelectInv, select \in {"wait", "paused"}, NEW a \in Alerts, Refuse(a),
         select = "wait" => ~Says[stream].readable \/ a = "internal_error",
         UNCHANGED <<stream, sni, clientAlpn, agreed, mbedSent>>
  PROVE  Gate!Refuse(a)
<1>1. select' = "refused" /\ alerts' = <<a>>
  BY RefuseStep
<1>2. ~mbedSent /\ ~mbedSent'
  BY DEF SelectInv, Shut
<1>3. (alerts \o (IF mbedSent THEN <<"tls">> ELSE <<>>))' = <<a>>
  BY <1>1, <1>2
<1> QED BY <1>1, <1>3 DEF Gate!Refuse

LEMMA StepGate == SelectInv /\ SelectorSeesHello /\ SelectorSeesHello' /\ [SelectNext]_selectVars => [Gate!Next]_Gate!vars
<1> SUFFICES ASSUME SelectInv, SelectorSeesHello, SelectorSeesHello', [SelectNext]_selectVars
             PROVE  Gate!Next \/ UNCHANGED Gate!vars
  OBVIOUS
<1>1. CASE UNCHANGED GateVars
  BY <1>1, Unseen
<1>2. ASSUME NEW n \in 1..Total, Feed(n) PROVE UNCHANGED GateVars
  BY <1>2 DEF Feed, gateVars, mbedVars, GateVars
<1>3. CASE FeedEof
  <2>1. UNCHANGED GateVars
    BY <1>3 DEF FeedEof, gateVars, mbedVars, GateVars
  <2> QED BY <1>1, <2>1
<1>4. ASSUME NEW n \in 1..OutCap, OutTake(n) PROVE UNCHANGED GateVars
  BY <1>4 DEF OutTake, gateVars, mbedVars, GateVars
<1>5. ASSUME NEW call \in Calls, Drive(call) PROVE Gate!Next \/ UNCHANGED Gate!vars
  <2>0. UNCHANGED <<stream, alpn>>
    BY <1>5 DEF Drive
  <2>1. CASE GateOpen /\ Mbed(call) /\ UNCHANGED gateVars
    <3>1. select = "done" /\ UNCHANGED <<stream, select, sni, clientAlpn, alpn, alerts>>
      BY <2>0, <2>1 DEF GateOpen, gateVars
    <3>2. CASE UNCHANGED <<mbedSent, agreed>>
      BY <3>1, <3>2, <1>1 DEF GateVars
    <3>3. CASE MbedSends
      <4>1. mbedSent' /\ UNCHANGED agreed
        BY <3>3 DEF MbedSends
      <4> QED BY <3>1, <4>1, SpeakStep DEF Gate!Next
    <3>4. CASE MbedTakes /\ ~UNCHANGED agreed
      <4>1. UNCHANGED mbedSent /\ hs = "hello" /\ \E v \in Views : OnSelected(v) /\ agreed' = [sni |-> v.sni, alpn |-> Agreed(v)]
        BY <3>4 DEF MbedTakes
      <4>2. agreed = None /\ agreed' = [sni |-> sni, alpn |-> alpn]
        BY <4>1 DEF SelectInv, OnSelected
      <4>3. Gate!Agree
        BY <3>1, <4>1, <4>2 DEF Gate!Agree
      <4> QED BY <4>3 DEF Gate!Next
    <3>5. UNCHANGED <<mbedSent, agreed>> \/ MbedSends \/ (MbedTakes /\ ~UNCHANGED agreed)
      BY <2>1 DEF Mbed, MbedWants, MbedTakes, MbedFails, mbedVars
    <3> QED BY <3>2, <3>3, <3>4, <3>5
  <2>2. CASE (GateMore(call) \/ GateHolds(call)) /\ UNCHANGED <<inLen, mbedVars>>
    <3>1. UNCHANGED GateVars
      BY <2>0, <2>2 DEF GateMore, GateHolds, gateVars, mbedVars, GateVars
    <3> QED BY <1>1, <3>1
  <2>3. CASE GatePauses(call) /\ UNCHANGED <<inLen, mbedVars>>
    <3>1. select = "wait" /\ select' = "paused" /\ UNCHANGED <<stream, alerts, mbedSent, agreed>>
      BY <2>0, <2>3 DEF GatePauses, mbedVars
    <3>2. Says'[stream'] = [readable |-> TRUE, hello |-> [sni |-> sni', alpn |-> clientAlpn']]
      BY <3>1 DEF SelectorSeesHello
    <3>3. Says' = Says
      BY SaysRigid
    <3>4. Gate!Show
      BY <3>1, <3>2, <3>3 DEF Gate!Show
    <3> QED BY <3>4 DEF Gate!Next
  <2>4. CASE GateRefuses /\ UNCHANGED <<inLen, mbedVars>>
    <3>1. select = "wait" /\ UNCHANGED <<stream, mbedSent, agreed>>
      BY <2>0, <2>4 DEF GateRefuses, mbedVars
    <3>2. PICK mem \in BOOLEAN : Verdict(mem) \in Alerts /\ Refuse(Verdict(mem))
      BY <2>4 DEF GateRefuses
    <3>3. PICK a \in Alerts : a = Verdict(mem)
      BY <3>2
    <3>4. ~Says[stream].readable \/ a = "internal_error"
      BY <3>1, <3>3 DEF SelectorSeesHello, Alerts
    <3>5. UNCHANGED <<sni, clientAlpn>>
      BY <2>4, <3>1 DEF GateRefuses, SelectInv
    <3>6. Gate!Refuse(a)
      BY <3>1, <3>2, <3>3, <3>4, <3>5, GateRefusal
    <3> QED BY <3>6 DEF Gate!Next
  <2> QED BY <1>5, <2>1, <2>2, <2>3, <2>4 DEF Drive
<1>6. ASSUME NEW l \in {"null", "chain", "bare"}, NEW p \in Protos \cup {None}, ServerSelect(l, p)
      PROVE  Gate!Next \/ UNCHANGED Gate!vars
  <2>0. UNCHANGED <<stream, sni, clientAlpn, mbedSent, agreed>>
    BY <1>6 DEF ServerSelect, gateVars, mbedVars
  <2>1. CASE select = "paused" /\ Offered(p) /\ select' = "done" /\ alpn' = p /\ alerts' = alerts
    <3>1. p \in clientAlpn \cup {None}
      BY <2>1 DEF Offered
    <3>2. Gate!Answer(p)
      BY <2>0, <2>1, <3>1 DEF Gate!Answer
    <3> QED BY <3>2 DEF Gate!Next
  <2>2. CASE select = "paused" /\ Refuse("internal_error")
    <3>1. "internal_error" \in Alerts
      BY DEF Alerts
    <3>2. PICK a \in Alerts : a = "internal_error"
      BY <3>1
    <3>3. select \in {"wait", "paused"} /\ (select = "wait" => a = "internal_error") /\ Refuse(a)
      BY <2>2, <3>2
    <3>4. Gate!Refuse(a)
      BY <2>0, <3>3, GateRefusal
    <3> QED BY <3>4 DEF Gate!Next
  <2>3. CASE UNCHANGED <<outLen, gateVars, leaf, alpn>>
    <3>1. UNCHANGED GateVars
      BY <2>0, <2>3 DEF gateVars, GateVars
    <3> QED BY <1>1, <3>1
  <2> QED BY <1>6, <2>1, <2>2, <2>3 DEF ServerSelect
<1>7. ASSUME NEW a \in Alerts, ServerRefuse(a) PROVE Gate!Next \/ UNCHANGED Gate!vars
  <2>1. CASE select = "paused" /\ Refuse(a) /\ UNCHANGED <<sni, clientAlpn>>
    <3>1. Gate!Refuse(a)
      BY <1>7, <2>1, GateRefusal DEF ServerRefuse, mbedVars
    <3> QED BY <3>1 DEF Gate!Next
  <2>2. CASE UNCHANGED <<outLen, gateVars>>
    <3>1. UNCHANGED GateVars
      BY <1>7, <2>2 DEF ServerRefuse, gateVars, mbedVars, GateVars
    <3> QED BY <1>1, <3>1
  <2> QED BY <1>7, <2>1, <2>2 DEF ServerRefuse
<1>8. CASE Close
  <2>1. UNCHANGED <<stream, select, sni, clientAlpn, alpn, agreed, alerts>>
    BY <1>8 DEF Close, gateVars
  <2>2. CASE UNCHANGED mbedSent
    BY <2>1, <2>2, <1>1 DEF GateVars
  <2>3. CASE ~UNCHANGED mbedSent
    <3>1. (mbedPend \/ hs = "over") /\ mbedSent'
      BY <1>8, <2>3 DEF Close
    <3>2. select = "done"
      BY <3>1 DEF SelectInv, Shut
    <3> QED BY <2>1, <3>1, <3>2, SpeakStep DEF Gate!Next
  <2> QED BY <2>2, <2>3
<1>9. CASE UNCHANGED selectVars
  <2>1. UNCHANGED GateVars
    BY <1>9 DEF selectVars, gateVars, mbedVars, GateVars
  <2> QED BY <1>1, <2>1
<1> QED BY <1>1, <1>2, <1>3, <1>4, <1>5, <1>6, <1>7, <1>8, <1>9 DEF SelectNext

\* A session keeps the promises of TlsGate: it shows the hello once, sends nothing
\* before the answer, refuses for good with one alert, and agrees on what was shown
\* and answered.
THEOREM GateKept == SelectSpec => ImplementsGate
BY InitGate, StepGate, SelectInductive, SeesHello, PTL DEF SelectSpec, ImplementsGate, Gate!Spec
==============================================================================
