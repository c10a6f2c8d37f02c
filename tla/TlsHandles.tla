----------------------------- MODULE TlsHandles -----------------------------
(***************************************************************************)
(* The object lifetimes of packages/tls-engine/src/slicc_tls_engine.c:     *)
(* leaves (a key pair and the chain signed for it), trust stores and TLS   *)
(* sessions, all living in the wasm heap and handed to JavaScript as bare  *)
(* addresses.  Leaves and stores are reference counted: the caller holds   *)
(* one reference until tls_leaf_free / tls_ca_free, every session that     *)
(* uses one holds another.  The engine is single threaded and no call      *)
(* re-enters it, so each exported function is one action.                  *)
(*                                                                         *)
(* An address is an element of Leaves, Stores or Sessions; malloc may hand *)
(* out a freed address again.  Mbed TLS is external: a call into it may    *)
(* fail (\E ok), and its configuration keeps raw pointers to the chains it *)
(* was given by mbedtls_ssl_conf_own_cert (variable conf).                 *)
(***************************************************************************)
EXTENDS Naturals, FiniteSets

CONSTANTS Leaves,    \* addresses a leaf may have
          Stores,    \* addresses a trust store (ca) may have
          Sessions,  \* addresses a session may have
          Null,      \* the null pointer
          Own,       \* the chain a client session owns itself (own_chain)
          MaxCerts   \* bound on the certificates added to one leaf

ASSUME HandlesAssumption ==
  /\ IsFiniteSet(Sessions)
  /\ Null \notin Leaves \cup Stores
  /\ Own \notin Leaves \cup {Null}
  /\ MaxCerts \in Nat \ {0}

VARIABLES
  ready,       \* psa_crypto_init succeeded
  leaves,      \* the allocated leaves
  leafHandle,  \* the leaves the caller may still pass in
  leafRefs,    \* leaf.refs
  leafHead,    \* the first certificate of leaf.chain: none, matching the key, or not
  leafCerts,   \* leaf.certs
  stores,      \* the allocated trust stores
  storeHandle, \* the stores the caller may still pass in
  storeRefs,   \* ca.refs
  sessions,    \* the allocated sessions
  server,      \* session.server
  selectOf,    \* session.select
  started,     \* session.started
  sesLeaf,     \* session.leaf
  sesTrust,    \* session.trust
  ownSet,      \* session.own_set
  conf         \* the chains session.config points to

leafVars  == <<leaves, leafHandle, leafRefs, leafHead, leafCerts>>
storeVars == <<stores, storeHandle, storeRefs>>
sesVars   == <<sessions, server, selectOf, started, sesLeaf, sesTrust, ownSet, conf>>
vars      == <<ready, leafVars, storeVars, sesVars>>

Heads   == {"empty", "own", "other"}
Selects == {"off", "wait", "paused", "done", "refused"}

TypeOK ==
  /\ ready \in BOOLEAN
  /\ leaves \subseteq Leaves /\ leafHandle \subseteq Leaves
  /\ leafRefs \in [Leaves -> Nat]
  /\ leafHead \in [Leaves -> Heads]
  /\ leafCerts \in [Leaves -> 0..MaxCerts]
  /\ stores \subseteq Stores /\ storeHandle \subseteq Stores
  /\ storeRefs \in [Stores -> Nat]
  /\ sessions \subseteq Sessions
  /\ server \in [Sessions -> BOOLEAN]
  /\ selectOf \in [Sessions -> Selects]
  /\ started \in [Sessions -> BOOLEAN]
  /\ sesLeaf \in [Sessions -> Leaves \cup {Null}]
  /\ sesTrust \in [Sessions -> Stores \cup {Null}]
  /\ ownSet \in [Sessions -> BOOLEAN]
  /\ conf \in [Sessions -> SUBSET (Leaves \cup {Own})]

Init ==
  /\ ready = FALSE
  /\ leaves = {} /\ leafHandle = {}
  /\ leafRefs = [l \in Leaves |-> 0]
  /\ leafHead = [l \in Leaves |-> "empty"]
  /\ leafCerts = [l \in Leaves |-> 0]
  /\ stores = {} /\ storeHandle = {}
  /\ storeRefs = [c \in Stores |-> 0]
  /\ sessions = {}
  /\ server = [s \in Sessions |-> FALSE]
  /\ selectOf = [s \in Sessions |-> "off"]
  /\ started = [s \in Sessions |-> FALSE]
  /\ sesLeaf = [s \in Sessions |-> Null]
  /\ sesTrust = [s \in Sessions |-> Null]
  /\ ownSet = [s \in Sessions |-> FALSE]
  /\ conf = [s \in Sessions |-> {}]

-----------------------------------------------------------------------------
\* refs++ and --refs on the object at x, when there is one.
Take(refs, x) == IF x = Null THEN refs ELSE [refs EXCEPT ![x] = @ + 1]
Drop(refs, x) == IF x = Null THEN refs ELSE [refs EXCEPT ![x] = @ - 1]

\* leaf_release / ca_release, given the counts before it: the object at x is
\* freed when this was its last reference.  (Mutants: freed at the first
\* release; never freed.)
ReleaseAtOnce(live, refs, x) == live \ {x}
ReleaseNever(live, refs, x) == live
Release(live, refs, x) ==
  IF x # Null /\ refs[x] <= 1 THEN live \ {x} ELSE live

\* init(): every constructor starts PSA when it is not running yet.  A call
\* whose init fails returns at once; a later call tries again.
Psa(ok) == /\ ok \/ ~ready
           /\ ready' = (ready \/ ok)

PsaFails == Psa(FALSE) /\ UNCHANGED <<leafVars, storeVars, sesVars>>

-----------------------------------------------------------------------------
\* A leaf at l, with the caller's reference and a chain of n certificates.
MakeLeaf(l, head, n) ==
  /\ leaves' = leaves \cup {l}
  /\ leafHandle' = leafHandle \cup {l}
  /\ leafRefs' = [leafRefs EXCEPT ![l] = 1]
  /\ leafHead' = [leafHead EXCEPT ![l] = head]
  /\ leafCerts' = [leafCerts EXCEPT ![l] = n]

\* tls_leaf_new: a generated key pair and no chain.  A failure to generate or
\* copy the key releases the leaf's only reference before returning.
LeafNew(l) ==
  /\ l \notin leaves
  /\ Psa(TRUE)
  /\ \/ MakeLeaf(l, "empty", 0)
     \/ UNCHANGED leafVars
  /\ UNCHANGED <<storeVars, sesVars>>

\* tls_leaf_import: load_own parses the chain and the key and refuses a key
\* that does not match the first certificate; any failure releases the leaf.
LeafImport(l) ==
  /\ l \notin leaves
  /\ Psa(TRUE)
  /\ \/ \E n \in 1..MaxCerts : MakeLeaf(l, "own", n)
     \/ UNCHANGED leafVars
  /\ UNCHANGED <<storeVars, sesVars>>

\* mbedtls_pk_check_pair(&l->chain.pk, &l->key): the chain's head against the
\* key.  (Mutant: the certificate just added.)
ChecksNewest(head, cert) == cert = "own"
ChecksPair(head, cert) == head = "own"

\* tls_leaf_add_cert: the certificate joins the chain BEFORE it is compared
\* with the key, and the comparison is with the chain's head: a first
\* certificate for another key stays there, and certs stays 0.
LeafAddCert(l, cert) ==
  /\ l \in leafHandle
  /\ leafCerts[l] < MaxCerts
  /\ LET head == IF leafHead[l] = "empty" THEN cert ELSE leafHead[l]
     IN  /\ leafHead' = [leafHead EXCEPT ![l] = head]
         /\ leafCerts' = [leafCerts EXCEPT ![l] =
                            IF @ = 0 /\ ~ChecksPair(head, cert) THEN @ ELSE @ + 1]
  /\ UNCHANGED <<ready, leaves, leafHandle, leafRefs, storeVars, sesVars>>

\* tls_leaf_free: the caller gives its reference back.
LeafFree(l) ==
  /\ l \in leafHandle
  /\ leafHandle' = leafHandle \ {l}
  /\ leafRefs' = Drop(leafRefs, l)
  /\ leaves' = Release(leaves, leafRefs, l)
  /\ UNCHANGED <<ready, leafHead, leafCerts, storeVars, sesVars>>

\* tls_ca_new and tls_ca_free.
StoreNew(c) ==
  /\ c \notin stores
  /\ Psa(TRUE)
  /\ \/ /\ stores' = stores \cup {c}
        /\ storeHandle' = storeHandle \cup {c}
        /\ storeRefs' = [storeRefs EXCEPT ![c] = 1]
     \/ UNCHANGED storeVars
  /\ UNCHANGED <<leafVars, sesVars>>

StoreFree(c) ==
  /\ c \in storeHandle
  /\ storeHandle' = storeHandle \ {c}
  /\ storeRefs' = Drop(storeRefs, c)
  /\ stores' = Release(stores, storeRefs, c)
  /\ UNCHANGED <<ready, leafVars, sesVars>>

-----------------------------------------------------------------------------
\* A leaf or a store as the caller may pass it: a handle it has not freed,
\* or the null pointer.
LeafArg  == leafHandle \cup {Null}
StoreArg == storeHandle \cup {Null}

\* The tail every session constructor shares: the new session takes a
\* reference on its leaf and its store; when a later step of Mbed TLS's set-up
\* fails, session_free gives both back.
MakeSession(s, isServer, sel, l, c, own) ==
  /\ s \notin sessions
  /\ Psa(TRUE)
  /\ \E ok \in BOOLEAN :
       IF ok
       THEN /\ leafRefs' = Take(leafRefs, l)
            /\ storeRefs' = Take(storeRefs, c)
            /\ sessions' = sessions \cup {s}
            /\ server' = [server EXCEPT ![s] = isServer]
            /\ selectOf' = [selectOf EXCEPT ![s] = sel]
            /\ started' = [started EXCEPT ![s] = FALSE]
            /\ sesLeaf' = [sesLeaf EXCEPT ![s] = l]
            /\ sesTrust' = [sesTrust EXCEPT ![s] = c]
            /\ ownSet' = [ownSet EXCEPT ![s] = FALSE]
            /\ conf' = [conf EXCEPT ![s] = own]
            /\ UNCHANGED <<leaves, stores>>
       ELSE /\ leafRefs' = Drop(Take(leafRefs, l), l)
            /\ storeRefs' = Drop(Take(storeRefs, c), c)
            /\ leaves' = Release(leaves, Take(leafRefs, l), l)
            /\ stores' = Release(stores, Take(storeRefs, c), c)
            /\ UNCHANGED sesVars
  /\ UNCHANGED <<leafHandle, leafHead, leafCerts, storeHandle>>

\* tls_session_new: the HTTP proxy's server session, whose leaf has a chain.
SessionNew(s, l) ==
  /\ l \in leafHandle /\ leafCerts[l] > 0
  /\ MakeSession(s, TRUE, "off", l, Null, {l})

\* tls_server_new: without TLS_SERVER_SELECT a leaf is required and
\* configured at once; with it the leaf may be null and the configuration
\* stays empty until tls_server_select.  The store is kept only when a client
\* certificate is asked for (c # Null).
ServerNew(s, l, c, sel) ==
  /\ l = Null => sel
  /\ l # Null => leafCerts[l] > 0
  /\ MakeSession(s, TRUE, IF sel THEN "wait" ELSE "off", l, c,
                 IF sel THEN {} ELSE {l})

\* tls_client_new_name: a store unless verification is skipped.
ClientNew(s, c) == MakeSession(s, FALSE, "off", Null, c, {})

\* tls_client_cert: refused (and nothing freed) for a server session, once
\* the handshake has started, or when the session already owns a chain.
\* Otherwise the chain is loaded into the session; on a failure the session's
\* own copy is freed again.
ClientCert(s) ==
  /\ s \in sessions
  /\ LET mine == ~ownSet[s] /\ ~server[s] /\ ~started[s]
     IN  \E ok \in BOOLEAN :
           /\ ownSet' = [ownSet EXCEPT ![s] = IF mine THEN ok ELSE @]
           /\ conf' = [conf EXCEPT ![s] = IF mine /\ ok THEN @ \cup {Own} ELSE @]
  /\ UNCHANGED <<ready, leafVars, storeVars, sessions, server, selectOf, started,
                 sesLeaf, sesTrust>>

\* tls_handshake, tls_read and tls_write first set started and pass
\* select_gate: a waiting session may find the ClientHello whole (paused) or
\* unreadable (refused).  TlsSelect models the gate in detail.
SelectGate(s) ==
  /\ s \in sessions
  /\ started' = [started EXCEPT ![s] = TRUE]
  /\ \/ UNCHANGED selectOf
     \/ /\ selectOf[s] = "wait"
        /\ \E r \in {"paused", "refused"} : selectOf' = [selectOf EXCEPT ![s] = r]
  /\ UNCHANGED <<ready, leafVars, storeVars, sessions, server, sesLeaf, sesTrust,
                 ownSet, conf>>

\* The leaf tls_server_select uses: the caller's, or the session's own for 0.
ChosenLeaf(s, l) == IF l = Null THEN sesLeaf[s] ELSE l

\* Only a paused session can be selected for.  (Mutant: also a selected one.)
SelectableAgain(s) == selectOf[s] \in {"paused", "done"}
Selectable(s) == selectOf[s] = "paused"

\* tls_server_select: the session takes a reference on the chosen leaf before
\* it releases the one it had, then configures it.  A failure of Mbed TLS
\* refuses the session, which keeps the chosen leaf.  The ALPN checks are
\* TlsSelect's.
SelectLeaf(s, l) ==
  /\ s \in sessions
  /\ Selectable(s)
  /\ LET chosen == ChosenLeaf(s, l)
         taken  == Take(leafRefs, chosen)
     IN  /\ chosen # Null
         /\ leafCerts[chosen] > 0
         /\ IF chosen = sesLeaf[s]
            THEN UNCHANGED <<leaves, leafRefs, sesLeaf>>
            ELSE /\ leafRefs' = Drop(taken, sesLeaf[s])
                 /\ leaves' = Release(leaves, taken, sesLeaf[s])
                 /\ sesLeaf' = [sesLeaf EXCEPT ![s] = chosen]
         /\ \/ /\ conf' = [conf EXCEPT ![s] = @ \cup {chosen}]
               /\ \E r \in {"done", "refused"} : selectOf' = [selectOf EXCEPT ![s] = r]
            \/ /\ selectOf' = [selectOf EXCEPT ![s] = "refused"]
               /\ UNCHANGED conf
  /\ UNCHANGED <<ready, leafHandle, leafHead, leafCerts, storeVars, sessions,
                 server, started, sesTrust, ownSet>>

\* tls_server_refuse on a paused session.
RefuseSession(s) ==
  /\ s \in sessions
  /\ selectOf[s] = "paused"
  /\ selectOf' = [selectOf EXCEPT ![s] = "refused"]
  /\ UNCHANGED <<ready, leafVars, storeVars, sessions, server, started, sesLeaf,
                 sesTrust, ownSet, conf>>

\* tls_session_free: the configuration goes first, then the session's own
\* chain, then its references.
SessionFree(s) ==
  /\ s \in sessions
  /\ sessions' = sessions \ {s}
  /\ leafRefs' = Drop(leafRefs, sesLeaf[s])
  /\ leaves' = Release(leaves, leafRefs, sesLeaf[s])
  /\ storeRefs' = Drop(storeRefs, sesTrust[s])
  /\ stores' = Release(stores, storeRefs, sesTrust[s])
  /\ sesLeaf' = [sesLeaf EXCEPT ![s] = Null]
  /\ sesTrust' = [sesTrust EXCEPT ![s] = Null]
  /\ ownSet' = [ownSet EXCEPT ![s] = FALSE]
  /\ conf' = [conf EXCEPT ![s] = {}]
  /\ UNCHANGED <<ready, leafHandle, leafHead, leafCerts, storeHandle, server,
                 selectOf, started>>

Next ==
  \/ PsaFails
  \/ \E l \in Leaves :
       \/ LeafNew(l) \/ LeafImport(l) \/ LeafFree(l)
       \/ \E cert \in {"own", "other"} : LeafAddCert(l, cert)
  \/ \E c \in Stores : StoreNew(c) \/ StoreFree(c)
  \/ \E s \in Sessions :
       \/ \E l \in Leaves : SessionNew(s, l)
       \/ \E l \in LeafArg, c \in StoreArg, sel \in BOOLEAN : ServerNew(s, l, c, sel)
       \/ \E c \in StoreArg : ClientNew(s, c)
       \/ \E l \in LeafArg : SelectLeaf(s, l)
       \/ ClientCert(s) \/ SelectGate(s) \/ RefuseSession(s) \/ SessionFree(s)

Spec == Init /\ [][Next]_vars

-----------------------------------------------------------------------------
LeafHolders(l)  == {s \in Sessions : sesLeaf[s] = l}
StoreHolders(c) == {s \in Sessions : sesTrust[s] = c}

\* A leaf's count is its caller's reference plus one per session holding it,
\* and the leaf is allocated exactly while that is positive: leaf_release
\* neither frees one in use nor leaks one nobody can reach any more.
LeafRefsExact ==
  \A l \in Leaves :
    /\ leafRefs[l] = Cardinality(LeafHolders(l)) + (IF l \in leafHandle THEN 1 ELSE 0)
    /\ l \in leaves <=> leafRefs[l] > 0

\* The same for trust stores and ca_release; both as one property.
StoreRefsExact ==
  \A c \in Stores :
    /\ storeRefs[c] = Cardinality(StoreHolders(c)) + (IF c \in storeHandle THEN 1 ELSE 0)
    /\ c \in stores <=> storeRefs[c] > 0

RefsExact == LeafRefsExact /\ StoreRefsExact

\* No configuration of Mbed TLS points to freed memory: a chain in it is the
\* session's own one while own_set holds, or an allocated leaf's, whatever the
\* caller freed and whatever step of a call failed.
NoDanglingChain ==
  \A s \in Sessions : \A x \in conf[s] :
    \/ x = Own /\ ownSet[s]
    \/ x \in leaves

\* A server session whose gate is open presents exactly one chain, that of the
\* leaf it holds, and its first certificate is for the leaf's key.  (A refused
\* or waiting session presents nothing yet, or is never driven on.)
ServerPresentsItsLeaf ==
  \A s \in sessions :
    server[s] /\ selectOf[s] \in {"off", "done"} =>
      /\ conf[s] = {sesLeaf[s]}
      /\ sesLeaf[s] \in leaves
      /\ leafCerts[sesLeaf[s]] > 0
      /\ leafHead[sesLeaf[s]] = "own"

\* What a session presents never changes once configured, and for a client not
\* once its handshake has started: neither a second or late tls_client_cert
\* nor a second tls_server_select replaces it.
PresentedChainStable ==
  [][\A s \in sessions \cap sessions' :
       conf[s] # {} \/ (started[s] /\ ~server[s]) => conf'[s] = conf[s]]_vars
=============================================================================
