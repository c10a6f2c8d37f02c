--------------------------- MODULE WasixNetProofs ---------------------------
(***************************************************************************)
(* For all callers, servers, answers and bounds of WasixNet: a response is *)
(* the answer to its own request, a server acts on a request again only    *)
(* after a loss, and credentials stay with their host.                     *)
(***************************************************************************)
EXTENDS WasixNet, SequenceTheorems, TLAPS

-----------------------------------------------------------------------------
(* The inductive invariant *)

Heads == Answers \cup {NoHead}
Places == Servers \cup {"none"}
MaybeConns == Conns \cup {0}
Verbs == Methods \cup {"none", "GET"}
Names == {Host[s] : s \in Servers} \cup {"none"}
Pcs == {"ready", "take", "connect", "send", "head", "body", "drain", "follow", "whole", "cut",
        "dropped", "broken", "refused", "redirects", "timeout", "protocol"}
Parts == {"interim", "head", "data", "end"}
Items == [part : Parts, of : Nat, n : Nat, head : Heads]
Unread == Seq(Items)
Requests == [id : Nat, method : Verbs, auth : BOOLEAN, origin : Names]
Asked == Requests \cup {Nobody}
Connections == [server : Places, up : BOOLEAN, asked : Asked, unread : Unread]
Reads == Seq(Nat \X Nat)
Calls == [pc : Pcs, id : Nat, method : Verbs, server : Places, auth : BOOLEAN,
          origin : Names, followed : Nat, conn : MaybeConns, reused : BOOLEAN, head : Heads,
          of : Nat, read : Reads]
Entries == [acts : Nat, lost : Nat]
TypeOK ==
  /\ pool \in Seq(Conns) /\ made \in 0..MaxConns
  /\ conns \in [Conns -> Connections]
  /\ call \in [Callers -> Calls]
  /\ log \in Seq(Entries)

\* A connection is in the pool once, or with one call, or with nobody.
Apart(p) == \A i, j \in 1..Len(p) : p[i] = p[j] => i = j
OneOwner ==
  /\ Apart(pool)
  /\ \A i \in 1..Len(pool) : pool[i] <= made /\ \A t \in Callers : pool[i] # call[t].conn
  /\ \A t \in Callers : call[t].conn <= made
  /\ \A t, u \in Callers : t # u /\ call[t].conn # 0 => call[t].conn # call[u].conn

\* Nothing is on its way on an idle connection.
Clean(k) == k.asked = Nobody /\ k.unread = <<>>
PoolClean == \A i \in 1..Len(pool) : Clean(conns[pool[i]])

\* What is unread is the answer a to request id, from its part j on.
From(unread, method, id, a, j) ==
  \A i \in 1..Len(unread) :
    j + i - 1 <= LastPart(method, a) /\ unread[i] = Part(id, a, j + i - 1)

\* A call, and the connection it has, if any.
Numbered(c) == c.read = [n \in 1..Len(c.read) |-> <<c.id, n>>]
Bodiless(c) == c.method = "HEAD" \/ (c.head.framing = "length" /\ c.head.len = 0)
Good(c, k) ==
  /\ c.conn # 0 <=> c.pc \in {"send", "head", "body", "drain"}
  /\ c.pc \in {"take", "connect", "send", "head", "body", "drain", "follow"}
       => c.server \in Servers /\ (c.auth => Host[c.server] = c.origin)
  /\ c.conn # 0 => k.server = c.server
  /\ c.pc # "protocol"
  /\ c.pc \in {"take", "connect", "send", "head"} => c.read = <<>>
  /\ c.pc = "send" => Clean(k)
  /\ c.pc = "head" =>
       \/ k.unread = <<>> /\ (k.asked # Nobody => k.asked.id = c.id /\ k.asked.method = c.method)
       \/ k.asked = Nobody /\ \E a \in Answers, j \in {0, 1} : From(k.unread, c.method, c.id, a, j)
  /\ c.pc \in {"body", "drain", "follow", "whole", "cut", "dropped"} =>
       c.head \in Answers /\ c.of = c.id /\ Numbered(c)
  /\ c.pc \in {"drain", "follow"} => c.head.redirect # "none"
  /\ c.pc \in {"body", "drain"} =>
       /\ k.asked = Nobody /\ ~Bodiless(c)
       /\ From(k.unread, c.method, c.id, c.head, Len(c.read) + 2)
  /\ c.pc = "whole" /\ c.head.framing # "eof" /\ c.method # "HEAD"
       => Len(c.read) = c.head.len
Holding(c, cs) == IF c.conn = 0 THEN Unmade ELSE cs[c.conn]
Honest(k) == k.asked # Nobody /\ k.asked.auth => Host[k.server] = k.asked.origin

IInv ==
  /\ TypeOK /\ OneOwner /\ PoolClean
  /\ \A t \in Callers : Good(call[t], Holding(call[t], conns))
  /\ \A c \in Conns : Honest(conns[c])

-----------------------------------------------------------------------------
(* What is on its way, and the pool *)

LEMMA Values ==
  /\ "none" \in Places /\ Servers \subseteq Places /\ 0 \in MaybeConns /\ Conns \subseteq MaybeConns
  /\ NoHead \in Heads /\ Answers \subseteq Heads /\ Nobody \in Asked /\ Requests \subseteq Asked
  /\ <<>> \in Reads /\ <<>> \in Unread /\ 0 \in Nat /\ Methods \subseteq Verbs
  /\ "none" \in Verbs /\ "GET" \in Verbs /\ "none" \in Names
  /\ \A s \in Servers : Host[s] \in Names
<1>1. <<>> \in Reads /\ <<>> \in Unread /\ 0 \in Nat  BY SMT DEF Reads, Unread
<1> QED  BY <1>1 DEF Places, MaybeConns, Heads, Asked, Verbs, Names

LEMMA FromTail ==
  ASSUME NEW u \in Seq(Items), u # <<>>, NEW m, NEW id, NEW a, NEW j \in Nat,
         From(u, m, id, a, j)
  PROVE  /\ Head(u) \in Items /\ Tail(u) \in Seq(Items)
         /\ Head(u) = Part(id, a, j) /\ j <= LastPart(m, a)
         /\ From(Tail(u), m, id, a, j + 1)
<1>1. Len(u) \in Nat /\ Len(u) >= 1  BY EmptySeq, LenProperties, SMT
<1>2. Head(u) = u[1] /\ 1 \in 1..Len(u)  BY <1>1, SMT
<1>3. Head(u) = Part(id, a, j) /\ j <= LastPart(m, a)
  <2>1. j + 1 - 1 = j  BY SMT
  <2> QED  BY <1>2, <2>1 DEF From
<1>4. From(Tail(u), m, id, a, j + 1)
  <2> SUFFICES ASSUME NEW i \in 1..Len(Tail(u))
               PROVE  (j + 1) + i - 1 <= LastPart(m, a) /\ Tail(u)[i] = Part(id, a, (j + 1) + i - 1)
    BY DEF From
  <2>1. Tail(u)[i] = u[i + 1] /\ i + 1 \in 1..Len(u)  BY <1>1, HeadTailProperties, SMT
  <2>2. j + (i + 1) - 1 = (j + 1) + i - 1  BY <2>1, SMT
  <2> QED  BY <2>1, <2>2 DEF From
<1> QED  BY <1>3, <1>4, HeadTailProperties

LEMMA FromDone ==
  ASSUME NEW u \in Seq(Items), NEW m, NEW id, NEW a, NEW j \in Nat, From(u, m, id, a, j),
         ~(j <= LastPart(m, a))
  PROVE  u = <<>>
BY FromTail

LEMMA FromPrefix ==
  ASSUME NEW u \in Seq(Items), NEW k \in 0..Len(u)
  PROVE  /\ SubSeq(u, 1, k) \in Seq(Items)
         /\ u = <<>> => SubSeq(u, 1, k) = <<>>
         /\ \A m, id, a, j : From(u, m, id, a, j) => From(SubSeq(u, 1, k), m, id, a, j)
<1>1. Len(u) \in Nat /\ \A i \in 1..k : i \in 1..Len(u)  BY LenProperties, SMT
<1>2. /\ SubSeq(u, 1, k) \in Seq(Items) /\ Len(SubSeq(u, 1, k)) = k
      /\ \A i \in 1..k : SubSeq(u, 1, k)[i] = u[i]
  BY <1>1, SMT
<1>3. u = <<>> => SubSeq(u, 1, k) = <<>>  BY <1>2, EmptySeq, SMT
<1> QED  BY <1>1, <1>2, <1>3 DEF From

LEMMA FromEmpty ==
  ASSUME NEW m, NEW id, NEW a, NEW j
  PROVE  From(<<>>, m, id, a, j)
<1>1. \A i : i \notin 1..Len(<<>>)  BY SMT
<1> QED  BY <1>1 DEF From

LEMMA FromWire ==
  ASSUME NEW a \in Answers, NEW id \in Nat, NEW m
  PROVE  /\ Wire(m, id, a) \in Seq(Items)
         /\ From(Wire(m, id, a), m, id, a, IF a.interim THEN 0 ELSE 1)
<1>1. a.len \in Nat /\ a.interim \in BOOLEAN  BY NetAssumption
<1>2. LastPart(m, a) \in Nat  BY <1>1, SMT DEF LastPart
<1>3. \A j \in Nat : Part(id, a, j) \in Items  BY <1>1, SMT DEF Part, Item, Items, Parts, Heads
<1>4. CASE a.interim
  <2> DEFINE w == [i \in 1..(LastPart(m, a) + 1) |-> Part(id, a, i - 1)]
  <2>1. Wire(m, id, a) = w  BY <1>4 DEF Wire
  <2>2. w \in Seq(Items) /\ Len(w) = LastPart(m, a) + 1  BY <1>2, <1>3, SMT
  <2>3. \A i \in 1..Len(w) : 0 + i - 1 <= LastPart(m, a) /\ w[i] = Part(id, a, 0 + i - 1)
    BY <1>2, <2>2, SMT
  <2> QED  BY <1>4, <2>1, <2>2, <2>3 DEF From
<1>5. CASE ~a.interim
  <2> DEFINE w == [i \in 1..LastPart(m, a) |-> Part(id, a, i)]
  <2>1. Wire(m, id, a) = w  BY <1>5 DEF Wire
  <2>2. w \in Seq(Items) /\ Len(w) = LastPart(m, a)  BY <1>2, <1>3, SMT
  <2>3. \A i \in 1..Len(w) : 1 + i - 1 <= LastPart(m, a) /\ w[i] = Part(id, a, 1 + i - 1)
    BY <1>2, <2>2, SMT
  <2> QED  BY <1>5, <2>1, <2>2, <2>3 DEF From
<1> QED  BY <1>4, <1>5

\* What goes to the pool, and what is taken from it.
LEMMA PooledIs ==
  ASSUME pool \in Seq(Conns), Apart(pool), NEW c \in Conns,
         \A i \in 1..Len(pool) : pool[i] # c
  PROVE  /\ Pooled(c) \in Seq(Conns) /\ Apart(Pooled(c))
         /\ \A i \in 1..Len(Pooled(c)) :
              Pooled(c)[i] = c \/ \E k \in 1..Len(pool) : Pooled(c)[i] = pool[k]
<1> DEFINE kept == IF Len(pool) = MaxIdle THEN Tail(pool) ELSE pool
<1>1. Len(pool) \in Nat /\ MaxIdle \in Nat \ {0}  BY NetAssumption, LenProperties
<1>2. /\ kept \in Seq(Conns) /\ Apart(kept)
      /\ \A i \in 1..Len(kept) : \E k \in 1..Len(pool) : kept[i] = pool[k]
  <2>1. CASE Len(pool) = MaxIdle
    <3>1. pool # <<>>  BY <1>1, <2>1, EmptySeq, SMT
    <3>2. /\ Tail(pool) \in Seq(Conns) /\ Len(Tail(pool)) = Len(pool) - 1
          /\ \A i \in 1..Len(Tail(pool)) : Tail(pool)[i] = pool[i + 1]
      BY <3>1, HeadTailProperties
    <3> QED  BY <1>1, <2>1, <3>2, SMT DEF Apart
  <2>2. CASE Len(pool) # MaxIdle  BY <2>2
  <2> QED  BY <2>1, <2>2
<1>3. /\ Pooled(c) = Append(kept, c) /\ Pooled(c) \in Seq(Conns)
      /\ Len(Pooled(c)) = Len(kept) + 1 /\ Len(kept) \in Nat
      /\ \A i \in 1..Len(kept) : Pooled(c)[i] = kept[i]
      /\ Pooled(c)[Len(kept) + 1] = c
  <2> HIDE DEF kept
  <2>1. Pooled(c) = Append(kept, c)  BY DEF Pooled, kept
  <2> QED  BY <1>2, <2>1, AppendProperties, LenProperties, SMT
<1> HIDE DEF kept
<1>4. \A i \in 1..Len(Pooled(c)) : i \in 1..Len(kept) \/ i = Len(kept) + 1  BY <1>3, SMT
<1>5. Apart(Pooled(c))
  <2> SUFFICES ASSUME NEW i \in 1..Len(Pooled(c)), NEW j \in 1..Len(Pooled(c)),
                      Pooled(c)[i] = Pooled(c)[j]
               PROVE  i = j
    BY DEF Apart
  <2>1. \A k \in 1..Len(kept) : kept[k] # c  BY <1>2
  <2>2. CASE i \in 1..Len(kept) /\ j \in 1..Len(kept)  BY <1>2, <1>3, <2>2 DEF Apart
  <2> QED  BY <1>3, <1>4, <2>1, <2>2
<1> QED  BY <1>2, <1>3, <1>4, <1>5

LEMMA TakenIs ==
  ASSUME pool \in Seq(Conns), Apart(pool), NEW x \in 1..Len(pool)
  PROVE  /\ Taken(x) \in Seq(Conns) /\ Apart(Taken(x))
         /\ \A i \in 1..Len(Taken(x)) : \E k \in 1..Len(pool) : k # x /\ Taken(x)[i] = pool[k]
<1>1. Len(pool) \in Nat /\ \A i \in 1..Len(pool) : pool[i] \in Conns
  BY LenProperties, ElementOfSeq
<1> DEFINE l == SubSeq(pool, 1, x - 1)
           r == SubSeq(pool, x + 1, Len(pool))
<1>2. l \in Seq(Conns) /\ Len(l) = x - 1 /\ \A i \in 1..(x - 1) : l[i] = pool[i]
  BY <1>1, SMT
<1>3. /\ r \in Seq(Conns) /\ Len(r) = Len(pool) - x
      /\ \A i \in 1..(Len(pool) - x) : r[i] = pool[x + i]
  BY <1>1, SMT
<1> HIDE DEF l, r
<1>4. /\ l \o r \in Seq(Conns) /\ Len(l \o r) = Len(pool) - 1
      /\ \A i \in 1..(Len(pool) - 1) :
           (l \o r)[i] = IF i < x THEN pool[i] ELSE pool[i + 1]
  <2>1. /\ l \o r \in Seq(Conns) /\ Len(l \o r) = Len(l) + Len(r)
        /\ \A i \in 1..(Len(l) + Len(r)) : (l \o r)[i] = IF i <= Len(l) THEN l[i] ELSE r[i - Len(l)]
    BY <1>2, <1>3, ConcatProperties
  <2>2. Len(l) + Len(r) = Len(pool) - 1  BY <1>1, <1>2, <1>3, SMT
  <2>3. ASSUME NEW i \in 1..(Len(pool) - 1)
        PROVE  (l \o r)[i] = IF i < x THEN pool[i] ELSE pool[i + 1]
    <3>1. (l \o r)[i] = IF i <= x - 1 THEN l[i] ELSE r[i - (x - 1)]  BY <1>2, <2>1, <2>2
    <3>2. CASE i < x
      <4>1. i <= x - 1 /\ i \in 1..(x - 1)  BY <1>1, <3>2, SMT
      <4> QED  BY <1>2, <3>1, <3>2, <4>1
    <3>3. CASE ~(i < x)
      <4>1. ~(i <= x - 1) /\ i - (x - 1) \in 1..(Len(pool) - x) /\ x + (i - (x - 1)) = i + 1
        BY <1>1, <3>3, SMT
      <4>2. r[i - (x - 1)] = pool[x + (i - (x - 1))]  BY <1>3, <4>1
      <4> QED  BY <3>1, <3>3, <4>1, <4>2
    <3> QED  BY <3>2, <3>3
  <2> QED  BY <2>1, <2>2, <2>3
<1>5. Taken(x) = l \o r  BY DEF Taken, l, r
<1> DEFINE from(i) == IF i < x THEN i ELSE i + 1
<1>6. \A i \in 1..(Len(pool) - 1) : from(i) \in 1..Len(pool) /\ from(i) # x  BY <1>1, SMT
<1>7. \A i, j \in 1..(Len(pool) - 1) : from(i) = from(j) => i = j  BY <1>1, SMT
<1>8. \A i \in 1..(Len(pool) - 1) : Taken(x)[i] = pool[from(i)]  BY <1>4, <1>5
<1>9. Len(Taken(x)) = Len(pool) - 1 /\ Taken(x) \in Seq(Conns)  BY <1>4, <1>5
<1> HIDE DEF from
<1>10. Apart(Taken(x))
  <2> SUFFICES ASSUME NEW i \in 1..(Len(pool) - 1), NEW j \in 1..(Len(pool) - 1),
                      Taken(x)[i] = Taken(x)[j]
               PROVE  i = j
    BY <1>9 DEF Apart
  <2>1. pool[from(i)] = pool[from(j)]  BY <1>8
  <2>2. from(i) = from(j)  BY <1>6, <2>1 DEF Apart
  <2> QED  BY <1>7, <2>2
<1>11. ASSUME NEW i \in 1..Len(Taken(x))
       PROVE  \E k \in 1..Len(pool) : k # x /\ Taken(x)[i] = pool[k]
  <2>1. i \in 1..(Len(pool) - 1)  BY <1>9
  <2> QED  BY <1>6, <1>8, <2>1
<1> QED  BY <1>9, <1>10, <1>11
-----------------------------------------------------------------------------
(* A step of one call, and a step of one connection *)

LEMMA StepOf ==
  ASSUME IInv, NEW t \in Callers, TypeOK', made' >= made,
         \A u \in Callers \ {t} : call'[u] = call[u],
         \A x \in Conns : x # call[t].conn /\ x <= made => conns'[x] = conns[x],
         \A x \in Conns : x > made \/ x = call[t].conn => Honest(conns'[x]),
         Apart(pool'),
         \A i \in 1..Len(pool') :
           /\ pool'[i] # call'[t].conn
           /\ \/ \E k \in 1..Len(pool) : pool'[i] = pool[k]
              \/ pool'[i] = call[t].conn /\ Clean(conns'[pool'[i]]),
         \/ call'[t].conn \in {0, call[t].conn}
         \/ call'[t].conn \in (made + 1)..made'
         \/ \E k \in 1..Len(pool) : call'[t].conn = pool[k],
         Good(call'[t], Holding(call'[t], conns'))
  PROVE  IInv'
<1>1. /\ made \in Nat /\ made' \in Nat
      /\ \A i \in 1..Len(pool) : pool[i] \in Conns
      /\ \A i \in 1..Len(pool') : pool'[i] \in Conns
      /\ \A u \in Callers : call[u].conn \in Conns \cup {0} /\ call'[u].conn \in Conns \cup {0}
  <2>1. pool \in Seq(Conns) /\ pool' \in Seq(Conns)  BY DEF IInv, TypeOK
  <2>2. made \in Nat /\ made' \in Nat  BY NetAssumption, SMT DEF IInv, TypeOK
  <2>3. \A u \in Callers : call[u] \in Calls /\ call'[u] \in Calls  BY DEF IInv, TypeOK
  <2>4. \A c \in Calls : c.conn \in Conns \cup {0}  BY Zenon DEF Calls, MaybeConns
  <2> QED  BY <2>1, <2>2, <2>3, <2>4, ElementOfSeq
<1>2. \A x \in Conns : x \in Nat /\ x > 0  BY NetAssumption, SMT DEF Conns
<1>3. OneOwner  BY DEF IInv
<1>4. \A i \in 1..Len(pool') : pool'[i] <= made' /\ \A u \in Callers : pool'[i] # call'[u].conn
  <2> SUFFICES ASSUME NEW i \in 1..Len(pool')
               PROVE  pool'[i] <= made' /\ \A u \in Callers \ {t} : pool'[i] # call'[u].conn
    OBVIOUS
  <2>1. CASE \E k \in 1..Len(pool) : pool'[i] = pool[k]
    <3> PICK k \in 1..Len(pool) : pool'[i] = pool[k]  BY <2>1
    <3>1. pool[k] <= made /\ \A u \in Callers : pool[k] # call[u].conn  BY <1>3 DEF OneOwner
    <3>2. pool[k] <= made'  BY <1>1, <1>2, <3>1, SMT
    <3> QED  BY <3>1, <3>2
  <2>2. CASE pool'[i] = call[t].conn
    <3>1. call[t].conn # 0  BY <1>1, <1>2, <2>2
    <3>2. call[t].conn <= made'  BY <1>1, <1>2, <1>3, SMT DEF OneOwner
    <3>3. \A u \in Callers \ {t} : call[u].conn # call[t].conn  BY <1>3, <3>1 DEF OneOwner
    <3> QED  BY <2>2, <3>2, <3>3
  <2> QED  BY <2>1, <2>2
<1>5. \A u \in Callers : call'[u].conn <= made'
  <2>1. ASSUME NEW u \in Callers, u # t  PROVE call'[u].conn <= made'
    <3>1. call[u].conn <= made  BY <1>3 DEF OneOwner
    <3>2. call'[u].conn = call[u].conn  BY <2>1
    <3>3. call[u].conn \in Nat  BY <1>1, <1>2, SMT
    <3> QED  BY <1>1, <3>1, <3>2, <3>3, SMT
  <2>2. call'[t].conn <= made'
    <3>1. CASE call'[t].conn \in {0, call[t].conn}
      <4>1. call[t].conn <= made /\ call[t].conn \in Nat  BY <1>1, <1>2, <1>3, SMT DEF OneOwner
      <4> QED  BY <1>1, <3>1, <4>1, SMT
    <3>2. CASE call'[t].conn \in (made + 1)..made'  BY <1>1, <3>2, SMT
    <3>3. CASE \E k \in 1..Len(pool) : call'[t].conn = pool[k]
      <4> PICK k \in 1..Len(pool) : call'[t].conn = pool[k]  BY <3>3
      <4>1. pool[k] <= made /\ pool[k] \in Nat  BY <1>1, <1>2, <1>3 DEF OneOwner
      <4> QED  BY <1>1, <4>1, SMT
    <3> QED  BY <3>1, <3>2, <3>3
  <2> QED  BY <2>1, <2>2
<1>6. ASSUME NEW u \in Callers \ {t}, call'[t].conn # 0  PROVE call'[u].conn # call'[t].conn
  <2>1. call'[u] = call[u]  OBVIOUS
  <2>2. CASE call'[t].conn = call[t].conn  BY <1>3, <1>6, <2>1, <2>2 DEF OneOwner
  <2>3. CASE call'[t].conn \in (made + 1)..made'
    <3>1. call[u].conn <= made /\ call[u].conn \in Nat  BY <1>1, <1>2, <1>3, SMT DEF OneOwner
    <3> QED  BY <1>1, <2>1, <2>3, <3>1, SMT
  <2>4. CASE \E k \in 1..Len(pool) : call'[t].conn = pool[k]  BY <1>3, <2>1, <2>4 DEF OneOwner
  <2> QED  BY <1>6, <2>2, <2>3, <2>4
<1>7. OneOwner'
  <2>1. ASSUME NEW u \in Callers, NEW v \in Callers, u # v, call'[u].conn # 0
        PROVE  call'[u].conn # call'[v].conn
    <3>1. CASE u = t  BY <1>6, <2>1, <3>1
    <3>2. CASE v = t  BY <1>6, <2>1, <3>2
    <3>3. CASE u # t /\ v # t
      <4>1. call'[u] = call[u] /\ call'[v] = call[v]  BY <3>3
      <4> QED  BY <1>3, <2>1, <4>1 DEF OneOwner
    <3> QED  BY <3>1, <3>2, <3>3
  <2> QED  BY <1>4, <1>5, <2>1 DEF OneOwner, Apart
<1>8. PoolClean'
  <2> SUFFICES ASSUME NEW i \in 1..Len(pool')  PROVE Clean(conns'[pool'[i]])
    BY DEF PoolClean, Clean
  <2>1. CASE \E k \in 1..Len(pool) : pool'[i] = pool[k]
    <3> PICK k \in 1..Len(pool) : pool'[i] = pool[k]  BY <2>1
    <3>1. pool[k] <= made /\ pool[k] # call[t].conn  BY <1>3 DEF OneOwner
    <3>2. conns'[pool[k]] = conns[pool[k]]  BY <1>1, <3>1
    <3> QED  BY <3>2 DEF IInv, PoolClean
  <2> QED  BY <2>1
<1>9. ASSUME NEW u \in Callers  PROVE Good(call'[u], Holding(call'[u], conns'))
  <2>1. CASE u # t
    <3>1. call'[u] = call[u]  BY <2>1
    <3>2. Good(call[u], Holding(call[u], conns))  BY DEF IInv
    <3>3. Holding(call[u], conns') = Holding(call[u], conns)
      <4>1. CASE call[u].conn # 0
        <5>1. call[u].conn \in Conns /\ call[u].conn <= made /\ call[u].conn # call[t].conn
          BY <1>1, <1>3, <2>1, <4>1 DEF OneOwner
        <5> QED  BY <5>1 DEF Holding
      <4> QED  BY <4>1 DEF Holding
    <3> QED  BY <3>1, <3>2, <3>3
  <2> QED  BY <2>1
<1>10. ASSUME NEW x \in Conns  PROVE Honest(conns'[x])
  <2>1. CASE x # call[t].conn /\ x <= made
    <3>1. conns'[x] = conns[x]  BY <2>1
    <3> QED  BY <3>1 DEF IInv
  <2>2. CASE x > made \/ x = call[t].conn  BY <2>2
  <2> QED  BY <1>1, <1>2, <2>1, <2>2, SMT
<1> QED  BY <1>7, <1>8, <1>9, <1>10 DEF IInv

LEMMA StepOfConn ==
  ASSUME IInv, TypeOK', NEW c \in Conns, UNCHANGED <<pool, made, call>>,
         \A x \in Conns \ {c} : conns'[x] = conns[x],
         Honest(conns'[c]), Clean(conns[c]) => Clean(conns'[c]),
         \A t \in Callers : call[t].conn = c => Good(call[t], conns'[c])
  PROVE  IInv'
<1>1. OneOwner'  BY DEF IInv, OneOwner, Apart
<1>2. \A i \in 1..Len(pool) : pool[i] \in Conns  BY ElementOfSeq DEF IInv, TypeOK
<1>3. PoolClean'
  <2> SUFFICES ASSUME NEW i \in 1..Len(pool)  PROVE Clean(conns'[pool[i]])
    BY DEF PoolClean, Clean
  <2>1. Clean(conns[pool[i]])  BY DEF IInv, PoolClean
  <2>2. pool[i] = c \/ conns'[pool[i]] = conns[pool[i]]  BY <1>2
  <2> QED  BY <2>1, <2>2
<1>4. ASSUME NEW t \in Callers  PROVE Good(call'[t], Holding(call'[t], conns'))
  <2>1. call'[t] = call[t] /\ Good(call[t], Holding(call[t], conns))  BY DEF IInv
  <2>2. call[t].conn \in Conns \cup {0}
    <3>1. call[t] \in Calls  BY DEF IInv, TypeOK
    <3> QED  BY <3>1, Zenon DEF Calls, MaybeConns
  <2>3. c # 0  BY SMT DEF Conns
  <2>4. CASE call[t].conn = c  BY <2>1, <2>3, <2>4 DEF Holding
  <2>5. CASE call[t].conn # c  BY <2>1, <2>2, <2>5 DEF Holding
  <2> QED  BY <2>4, <2>5
<1>5. \A x \in Conns : Honest(conns'[x])  BY DEF IInv
<1> QED  BY <1>1, <1>3, <1>4, <1>5 DEF IInv

\* What the invariant says of one call.
LEMMA OfCall ==
  ASSUME IInv, NEW t \in Callers
  PROVE  /\ call[t] \in Calls /\ call \in [Callers -> Calls] /\ conns \in [Conns -> Connections]
         /\ Good(call[t], Holding(call[t], conns))
         /\ made \in Nat /\ Apart(pool) /\ pool \in Seq(Conns)
         /\ \A i \in 1..Len(pool) : pool[i] # call[t].conn
         /\ call[t].conn # 0 =>
              /\ call[t].conn \in Conns /\ Conn(t) \in Connections
              /\ Holding(call[t], conns) = Conn(t) /\ Honest(Conn(t))
<1>1. call[t] \in Calls /\ call \in [Callers -> Calls] /\ conns \in [Conns -> Connections]
  BY DEF IInv, TypeOK
<1>2. call[t].conn \in Conns \cup {0}  BY <1>1, Zenon DEF Calls, MaybeConns
<1>3. made \in Nat  BY NetAssumption, SMT DEF IInv, TypeOK
<1>4. Apart(pool) /\ pool \in Seq(Conns) /\ \A i \in 1..Len(pool) : pool[i] # call[t].conn
  BY DEF IInv, TypeOK, OneOwner
<1>5. call[t].conn # 0 => call[t].conn \in Conns /\ Holding(call[t], conns) = Conn(t)
  BY <1>2 DEF Holding, Conn
<1>6. call[t].conn # 0 => Conn(t) \in Connections /\ Honest(Conn(t))
  BY <1>1, <1>5 DEF IInv, Conn
<1> QED  BY <1>1, <1>3, <1>4, <1>5, <1>6 DEF IInv

LEMMA IdleIs == Idle \in Calls
<1>1. /\ 0 \in MaybeConns /\ NoHead \in Heads /\ <<>> \in Reads /\ "ready" \in Pcs /\ 0 \in Nat
      /\ "none" \in Verbs /\ "none" \in Places /\ "none" \in Names
  BY Values DEF Pcs
<1> QED  BY <1>1, Zenon DEF Idle, Calls

LEMMA ExchangeIs ==
  ASSUME NEW c \in Calls, Len(log) + 1 \in Nat
  PROVE  /\ Exchange(c) \in Calls
         /\ Exchange(c).pc = "take" /\ Exchange(c).conn = 0 /\ Exchange(c).read = <<>>
         /\ Exchange(c).server = c.server /\ Exchange(c).auth = c.auth
         /\ Exchange(c).origin = c.origin
<1> DEFINE n == Len(log) + 1
<1>1. n \in Nat  OBVIOUS
<1> HIDE DEF n
<1>2. Exchange(c) = [c EXCEPT !.pc = "take", !.id = n, !.conn = 0, !.reused = FALSE,
                              !.head = NoHead, !.read = <<>>]
  BY DEF Exchange, n
<1>3. Exchange(c) \in Calls
  <2>1. 0 \in MaybeConns /\ NoHead \in Heads /\ <<>> \in Reads /\ "take" \in Pcs  BY Values DEF Pcs
  <2> QED  BY <1>1, <1>2, <2>1, Zenon DEF Calls
<1>4. /\ Exchange(c).pc = "take" /\ Exchange(c).conn = 0 /\ Exchange(c).read = <<>>
      /\ Exchange(c).server = c.server /\ Exchange(c).auth = c.auth
      /\ Exchange(c).origin = c.origin
  BY <1>2, Zenon DEF Calls
<1> QED  BY <1>3, <1>4

LEMMA OfStart ==
  ASSUME IInv, NEW t \in Callers, NEW m \in Methods, NEW s \in Servers, Start(t, m, s)
  PROVE  IInv'
<1> DEFINE d == Exchange([Idle EXCEPT !.method = m, !.server = s, !.origin = Host[s]])
<1>1. call' = [call EXCEPT ![t] = d] /\ UNCHANGED <<pool, made, conns>>
      /\ log' = Append(log, [acts |-> 0, lost |-> 0])
  BY DEF Start
<1>2. m \in Verbs /\ Host[s] \in Names  BY Values
<1>3. Len(log) + 1 \in Nat /\ log' \in Seq(Entries)
  <2>1. [acts |-> 0, lost |-> 0] \in Entries  BY SMT DEF Entries
  <2> QED  BY <1>1, <2>1, AppendProperties, LenProperties, SMT DEF IInv, TypeOK
<1>4. /\ d.pc = "take" /\ d.conn = 0 /\ d.server = s /\ d.auth = TRUE /\ d.origin = Host[s]
      /\ d.read = <<>> /\ d \in Calls
  <2> DEFINE e == [Idle EXCEPT !.method = m, !.server = s, !.origin = Host[s]]
  <2>1. Idle \in Calls  BY IdleIs
  <2>2. e \in Calls
    <3>1. s \in Places  BY Values
    <3> QED  BY <1>2, <2>1, <3>1, Zenon DEF Calls
  <2>3. e.server = s /\ e.auth = TRUE /\ e.origin = Host[s]
    BY <2>1, Zenon DEF Calls, Idle
  <2> HIDE DEF e
  <2> QED  BY <1>3, <2>2, <2>3, ExchangeIs DEF e
<1> HIDE DEF d
<1>5. TypeOK'  BY <1>1, <1>3, <1>4 DEF IInv, TypeOK
<1>6. call[t].conn = 0 /\ call'[t] = d /\ \A u \in Callers \ {t} : call'[u] = call[u]
  <2>1. call[t].pc \notin {"send", "head", "body", "drain"}  BY DEF Start
  <2> QED  BY <1>1, <2>1, OfCall DEF Good
<1>7. Good(d, Unmade)  BY <1>4 DEF Good
<1>8. \A x \in Conns : Honest(conns'[x])  BY <1>1 DEF IInv
<1> QED  BY <1>1, <1>4, <1>5, <1>6, <1>7, <1>8, OfCall, StepOf DEF Holding

LEMMA CallIs ==
  ASSUME IInv, NEW t \in Callers, NEW d \in Calls, call' = [call EXCEPT ![t] = d]
  PROVE  /\ call' \in [Callers -> Calls] /\ call'[t] = d
         /\ \A u \in Callers \ {t} : call'[u] = call[u]
BY OfCall

LEMMA OfTakeIdle ==
  ASSUME IInv, NEW t \in Callers, TakeIdle(t)
  PROVE  IInv'
<1> DEFINE c == call[t]
<1>1. /\ c \in Calls /\ Good(c, Holding(c, conns)) /\ c.pc = "take"
      /\ Apart(pool) /\ pool \in Seq(Conns)
  BY OfCall DEF TakeIdle, At
<1>2. c.conn = 0 /\ c.server \in Servers /\ (c.auth => Host[c.server] = c.origin) /\ c.read = <<>>
  BY <1>1 DEF Good
<1>3. UNCHANGED <<made, conns, log>>  BY DEF TakeIdle
<1>4. CASE /\ pool' = pool
           /\ call' = [call EXCEPT ![t] = [@ EXCEPT !.pc = "connect"]]
  <2> DEFINE d == [c EXCEPT !.pc = "connect"]
  <2>1. call' = [call EXCEPT ![t] = d]  BY <1>4
  <2>2. d \in Calls
    <3>1. "connect" \in Pcs  BY DEF Pcs
    <3> QED  BY <1>1, <3>1, Zenon DEF Calls
  <2>3. /\ d.pc = "connect" /\ d.conn = c.conn /\ d.server = c.server /\ d.auth = c.auth
        /\ d.origin = c.origin /\ d.read = c.read
    BY <1>1, Zenon DEF Calls
  <2> HIDE DEF d
  <2>4. Good(d, Unmade)  BY <1>2, <2>3 DEF Good
  <2>5. call' \in [Callers -> Calls] /\ call'[t] = d /\ \A u \in Callers \ {t} : call'[u] = call[u]
    BY <2>1, <2>2, CallIs
  <2>6. TypeOK'  BY <1>3, <1>4, <2>5 DEF IInv, TypeOK
  <2>7. \A x \in Conns : Honest(conns'[x])  BY <1>3 DEF IInv
  <2> QED  BY <1>2, <1>3, <1>4, <2>3, <2>4, <2>5, <2>6, <2>7, OfCall, StepOf DEF Holding
<1>5. CASE \E i \in OfKey(c.server) :
             /\ pool' = Taken(i)
             /\ call' = [call EXCEPT ![t] =
                  [@ EXCEPT !.pc = "send", !.conn = pool[i], !.reused = TRUE]]
  <2> PICK i \in OfKey(c.server) :
             /\ pool' = Taken(i)
             /\ call' = [call EXCEPT ![t] =
                  [@ EXCEPT !.pc = "send", !.conn = pool[i], !.reused = TRUE]]
    BY <1>5
  <2> DEFINE x == pool[i]
             d == [c EXCEPT !.pc = "send", !.conn = x, !.reused = TRUE]
  <2>1. i \in 1..Len(pool) /\ conns[x].server = c.server
    BY <1>1, LenProperties DEF OfKey
  <2>2. x \in Conns /\ Clean(conns[x]) /\ x # 0
    <3>1. x \in Conns  BY <1>1, <2>1, ElementOfSeq
    <3>2. x # 0  BY <3>1, SMT DEF Conns
    <3> QED  BY <2>1, <3>1, <3>2 DEF IInv, PoolClean
  <2>3. d \in Calls
    <3>1. "send" \in Pcs /\ x \in MaybeConns  BY <2>2, Values DEF Pcs
    <3> HIDE DEF x
    <3> QED  BY <1>1, <3>1, Zenon DEF Calls
  <2>4. /\ d.pc = "send" /\ d.conn = x /\ d.server = c.server /\ d.auth = c.auth
        /\ d.origin = c.origin /\ d.read = c.read
    <3> HIDE DEF x
    <3> QED  BY <1>1, Zenon DEF Calls
  <2>5. call' = [call EXCEPT ![t] = d]  OBVIOUS
  <2> HIDE DEF d
  <2>6. call' \in [Callers -> Calls] /\ call'[t] = d /\ \A u \in Callers \ {t} : call'[u] = call[u]
    BY <2>3, <2>5, CallIs
  <2>7. Good(d, conns[x])  BY <1>2, <2>1, <2>2, <2>4 DEF Good
  <2>8. Holding(d, conns') = conns[x]  BY <1>3, <2>2, <2>4 DEF Holding
  <2>9. /\ pool' \in Seq(Conns) /\ Apart(pool')
        /\ \A j \in 1..Len(pool') : \E k \in 1..Len(pool) : k # i /\ pool'[j] = pool[k]
    BY <1>1, <2>1, TakenIs
  <2>10. \A k \in 1..Len(pool) : k # i => pool[k] # x  BY <1>1, <2>1 DEF Apart
  <2>11. \A j \in 1..Len(pool') : pool'[j] # d.conn /\ \E k \in 1..Len(pool) : pool'[j] = pool[k]
    BY <2>4, <2>9, <2>10
  <2>12. TypeOK'  BY <1>3, <2>6, <2>9 DEF IInv, TypeOK
  <2>13. \A y \in Conns : Honest(conns'[y])  BY <1>3 DEF IInv
  <2>14. Good(call'[t], Holding(call'[t], conns'))  BY <2>6, <2>7, <2>8
  <2>15. \E k \in 1..Len(pool) : call'[t].conn = pool[k]  BY <2>1, <2>4, <2>6
  <2>16. \A j \in 1..Len(pool') : pool'[j] # call'[t].conn /\ \E k \in 1..Len(pool) : pool'[j] = pool[k]
    BY <2>6, <2>11
  <2>17. made' >= made  BY <1>3, OfCall, SMT
  <2> QED  BY <1>3, <2>6, <2>9, <2>12, <2>13, <2>14, <2>15, <2>16, <2>17, StepOf
<1> QED  BY <1>4, <1>5 DEF TakeIdle

LEMMA OfConnect ==
  ASSUME IInv, NEW t \in Callers, Connect(t)
  PROVE  IInv'
<1> DEFINE c == call[t]
<1>1. /\ c \in Calls /\ Good(c, Holding(c, conns)) /\ c.pc = "connect" /\ made \in Nat
      /\ conns \in [Conns -> Connections] /\ Apart(pool) /\ pool \in Seq(Conns)
  BY OfCall DEF Connect, At
<1>2. c.conn = 0 /\ c.server \in Servers /\ (c.auth => Host[c.server] = c.origin) /\ c.read = <<>>
  BY <1>1 DEF Good
<1>3. UNCHANGED <<pool, log>>  BY DEF Connect
<1>4. CASE /\ made < MaxConns /\ made' = made + 1
           /\ conns' = [conns EXCEPT ![made'] = [Unmade EXCEPT !.server = c.server, !.up = TRUE]]
           /\ call' = [call EXCEPT ![t] =
                [@ EXCEPT !.pc = "send", !.conn = made', !.reused = FALSE]]
  <2> DEFINE x == made + 1
             k == [Unmade EXCEPT !.server = c.server, !.up = TRUE]
             d == [c EXCEPT !.pc = "send", !.conn = x, !.reused = FALSE]
  <2>1. x \in Conns /\ x # 0 /\ x > made /\ made' = x /\ made' \in 0..MaxConns
    BY <1>1, <1>4, NetAssumption, SMT DEF Conns
  <2>2. call' = [call EXCEPT ![t] = d] /\ conns' = [conns EXCEPT ![x] = k]  BY <1>4
  <2>3. k \in Connections /\ Clean(k) /\ k.server = c.server
    <3>1. Unmade \in Connections
      <4>1. "none" \in Places /\ Nobody \in Asked /\ <<>> \in Unread  BY Values
      <4> QED  BY <4>1, Zenon DEF Unmade, Connections
    <3>2. c.server \in Places  BY <1>2, Values
    <3>3. k \in Connections /\ k.asked = Unmade.asked /\ k.unread = Unmade.unread /\ k.server = c.server
      BY <3>1, <3>2, Zenon DEF Connections
    <3> QED  BY <3>3 DEF Clean, Unmade
  <2>4. d \in Calls
    <3>1. "send" \in Pcs /\ x \in MaybeConns  BY <2>1, Values DEF Pcs
    <3> HIDE DEF x
    <3> QED  BY <1>1, <3>1, Zenon DEF Calls
  <2>5. /\ d.pc = "send" /\ d.conn = x /\ d.server = c.server /\ d.auth = c.auth
        /\ d.origin = c.origin /\ d.read = c.read
    <3> HIDE DEF x
    <3> QED  BY <1>1, Zenon DEF Calls
  <2> HIDE DEF d, k
  <2>6. call' \in [Callers -> Calls] /\ call'[t] = d /\ \A u \in Callers \ {t} : call'[u] = call[u]
    BY <2>2, <2>4, CallIs
  <2>7. Good(d, k)  BY <1>2, <2>1, <2>3, <2>5 DEF Good
  <2>8. conns'[x] = k /\ conns' \in [Conns -> Connections] /\ \A y \in Conns \ {x} : conns'[y] = conns[y]
    BY <1>1, <2>1, <2>2, <2>3
  <2>9. Holding(d, conns') = k  BY <2>1, <2>5, <2>8 DEF Holding
  <2>10. \A j \in 1..Len(pool) : pool[j] # x
    <3>1. \A j \in 1..Len(pool) : pool[j] <= made  BY DEF IInv, OneOwner
    <3>2. \A j \in 1..Len(pool) : pool[j] \in Nat  BY <1>1, ElementOfSeq, NetAssumption, SMT DEF Conns
    <3> QED  BY <1>1, <3>1, <3>2, SMT
  <2>11. TypeOK'  BY <1>3, <2>1, <2>6, <2>8 DEF IInv, TypeOK
  <2>12. \A y \in Conns : Honest(conns'[y])
    <3>1. Honest(k)  BY <2>3 DEF Honest, Clean
    <3> QED  BY <2>8, <3>1 DEF IInv
  <2>13. x \in (made + 1)..made' /\ made' >= made  BY <1>1, <2>1, SMT
  <2>14. \A y \in Conns : y # c.conn /\ y <= made => conns'[y] = conns[y]
    BY <1>1, <2>1, <2>8, SMT DEF Conns
  <2> QED  BY <1>1, <1>3, <2>1, <2>5, <2>6, <2>7, <2>9, <2>10, <2>11, <2>12, <2>13, <2>14, StepOf
<1>5. CASE /\ call' = [call EXCEPT ![t] = [Idle EXCEPT !.pc = "refused"]]
           /\ UNCHANGED <<made, conns>>
  <2> DEFINE d == [Idle EXCEPT !.pc = "refused"]
  <2>1. call' = [call EXCEPT ![t] = d]  BY <1>5
  <2>2. d \in Calls
    <3>1. "refused" \in Pcs  BY DEF Pcs
    <3> QED  BY <3>1, IdleIs, Zenon DEF Calls
  <2>3. d.pc = "refused" /\ d.conn = 0
    <3>1. d.pc = "refused" /\ d.conn = Idle.conn  BY IdleIs, Zenon DEF Calls
    <3> QED  BY <3>1 DEF Idle
  <2> HIDE DEF d
  <2>4. Good(d, Unmade)  BY <2>3 DEF Good
  <2>5. call' \in [Callers -> Calls] /\ call'[t] = d /\ \A u \in Callers \ {t} : call'[u] = call[u]
    BY <2>1, <2>2, CallIs
  <2>6. TypeOK'  BY <1>3, <1>5, <2>5 DEF IInv, TypeOK
  <2>7. \A x \in Conns : Honest(conns'[x])  BY <1>5 DEF IInv
  <2>8. Good(call'[t], Holding(call'[t], conns'))  BY <2>3, <2>4, <2>5 DEF Holding
  <2>9. made' >= made  BY <1>1, <1>5, SMT
  <2>10. \A j \in 1..Len(pool) : pool[j] # call'[t].conn  BY <1>2, <2>3, <2>5, OfCall
  <2> QED  BY <1>1, <1>3, <1>5, <2>3, <2>5, <2>6, <2>7, <2>8, <2>9, <2>10, StepOf
<1> QED  BY <1>4, <1>5 DEF Connect

LEMMA ConnsIs ==
  ASSUME IInv, NEW x \in Conns, NEW k \in Connections, conns' = [conns EXCEPT ![x] = k]
  PROVE  /\ conns' \in [Conns -> Connections] /\ conns'[x] = k
         /\ \A y \in Conns \ {x} : conns'[y] = conns[y]
BY DEF IInv, TypeOK

LEMMA OfSend ==
  ASSUME IInv, NEW t \in Callers, Send(t)
  PROVE  IInv'
<1> DEFINE c == call[t]
           x == c.conn
           k == conns[x]
           r == [id |-> c.id, method |-> c.method, auth |-> c.auth, origin |-> c.origin]
           l == IF k.up THEN [k EXCEPT !.asked = r] ELSE k
           d == [c EXCEPT !.pc = "head"]
<1>1. c \in Calls /\ Good(c, Holding(c, conns)) /\ c.pc = "send"
  BY OfCall DEF Send, At
<1>2. x # 0  BY <1>1 DEF Good
<1>3. x \in Conns /\ k \in Connections /\ Good(c, k) /\ Honest(k)
  BY <1>1, <1>2, OfCall DEF Conn
<1>4. /\ c.server \in Servers /\ (c.auth => Host[c.server] = c.origin) /\ c.read = <<>>
      /\ k.server = c.server /\ Clean(k)
  BY <1>1, <1>2, <1>3 DEF Good
<1>5. UNCHANGED <<pool, made, log>> /\ call' = [call EXCEPT ![t] = d]
  BY DEF Send
<1>6. conns' = [conns EXCEPT ![x] = l]
  <2>1. CASE k.up  BY <2>1 DEF Send, Conn
  <2>2. CASE ~k.up
    <3>1. conns' = conns /\ l = k  BY <2>2 DEF Send, Conn
    <3> QED  BY <1>3, <3>1, OfCall
  <2> QED  BY <2>1, <2>2
<1>7. d \in Calls
  <2>1. "head" \in Pcs  BY DEF Pcs
  <2> QED  BY <1>1, <2>1, Zenon DEF Calls
<1>8. /\ d.pc = "head" /\ d.conn = x /\ d.server = c.server /\ d.auth = c.auth
      /\ d.origin = c.origin /\ d.read = c.read /\ d.id = c.id /\ d.method = c.method
  BY <1>1, Zenon DEF Calls
<1>9. r \in Asked
  <2>1. c.id \in Nat /\ c.method \in Verbs /\ c.auth \in BOOLEAN /\ c.origin \in Names
    BY <1>1, Zenon DEF Calls
  <2>2. r \in Requests  BY <2>1, Zenon DEF Requests
  <2> QED  BY <2>2, Values
<1>10. l \in Connections /\ l.server = k.server /\ l.unread = k.unread /\ l.asked \in {k.asked, r}
  <2> HIDE DEF r, k
  <2>1. CASE k.up
    <3>1. l = [k EXCEPT !.asked = r]  BY <2>1
    <3> QED  BY <1>3, <1>9, <3>1, Zenon DEF Connections
  <2> QED  BY <1>3, <2>1
<1>11. r.id = c.id /\ r.method = c.method /\ r.auth = c.auth /\ r.origin = c.origin  OBVIOUS
<1> HIDE DEF d, l, k, r
<1>12. Honest(l)  BY <1>3, <1>4, <1>10, <1>11 DEF Honest
<1>13. Good(d, l)  BY <1>2, <1>4, <1>8, <1>10, <1>11 DEF Good, Clean
<1>14. call' \in [Callers -> Calls] /\ call'[t] = d /\ \A u \in Callers \ {t} : call'[u] = call[u]
  BY <1>5, <1>7, CallIs
<1>15. conns' \in [Conns -> Connections] /\ conns'[x] = l /\ \A y \in Conns \ {x} : conns'[y] = conns[y]
  BY <1>3, <1>6, <1>10, ConnsIs
<1>16. TypeOK'  BY <1>5, <1>14, <1>15 DEF IInv, TypeOK
<1>17. Good(call'[t], Holding(call'[t], conns'))  BY <1>2, <1>8, <1>13, <1>14, <1>15 DEF Holding
<1>18. \A y \in Conns : Honest(conns'[y])  BY <1>12, <1>15 DEF IInv
<1>19. made' >= made /\ Apart(pool) /\ \A j \in 1..Len(pool) : pool[j] # call'[t].conn
  BY <1>5, <1>8, <1>14, OfCall, SMT
<1> QED  BY <1>5, <1>8, <1>14, <1>15, <1>16, <1>17, <1>18, <1>19, StepOf

-----------------------------------------------------------------------------
(* A call that leaves its connection *)

LEMMA LeftIs ==
  ASSUME NEW c \in Calls, NEW pc \in Pcs
  PROVE  LET d == [c EXCEPT !.pc = pc, !.conn = 0] IN
         /\ d \in Calls /\ d.pc = pc /\ d.conn = 0
         /\ d.id = c.id /\ d.method = c.method /\ d.server = c.server /\ d.auth = c.auth
         /\ d.origin = c.origin /\ d.head = c.head /\ d.of = c.of /\ d.read = c.read
<1> DEFINE d == [c EXCEPT !.pc = pc, !.conn = 0]
<1>1. 0 \in MaybeConns  BY Values
<1>2. d \in Calls /\ d.pc = pc /\ d.conn = 0  BY <1>1, Zenon DEF Calls
<1>3. /\ d.id = c.id /\ d.method = c.method /\ d.server = c.server /\ d.auth = c.auth
      /\ d.origin = c.origin /\ d.head = c.head /\ d.of = c.of /\ d.read = c.read
  BY Zenon DEF Calls
<1> QED  BY <1>2, <1>3

LEMMA OfLeave ==
  ASSUME IInv, NEW t \in Callers, NEW c \in Calls, NEW pc \in Pcs, Leave(t, c, pc),
         call[t].conn # 0, Good([c EXCEPT !.pc = pc, !.conn = 0], Unmade),
         UNCHANGED <<pool, made>>, log' \in Seq(Entries)
  PROVE  IInv'
<1> DEFINE x == call[t].conn
           k == conns[x]
           d == [c EXCEPT !.pc = pc, !.conn = 0]
<1>1. x \in Conns /\ k \in Connections /\ Honest(k)  BY OfCall DEF Conn
<1>2. call' = [call EXCEPT ![t] = d] /\ conns' = [conns EXCEPT ![x] = Closed(k)]  BY DEF Leave
<1>3. d \in Calls /\ d.conn = 0  BY LeftIs
<1>4. Closed(k) \in Connections /\ Closed(k).server = k.server /\ Closed(k).asked = k.asked
  <2> HIDE DEF k
  <2>1. <<>> \in Unread  BY Values
  <2>2. CASE k.asked = Nobody
    <3>1. Closed(k) = [k EXCEPT !.up = FALSE, !.unread = <<>>]  BY <2>2 DEF Closed
    <3> QED  BY <1>1, <2>1, <3>1, Zenon DEF Connections
  <2>3. CASE k.asked # Nobody
    <3>1. Closed(k) = [k EXCEPT !.unread = <<>>]  BY <2>3 DEF Closed
    <3> QED  BY <1>1, <2>1, <3>1, Zenon DEF Connections
  <2> QED  BY <2>2, <2>3
<1> HIDE DEF d, k
<1>5. call' \in [Callers -> Calls] /\ call'[t] = d /\ \A u \in Callers \ {t} : call'[u] = call[u]
  BY <1>2, <1>3, CallIs
<1>6. /\ conns' \in [Conns -> Connections] /\ conns'[x] = Closed(k)
      /\ \A y \in Conns \ {x} : conns'[y] = conns[y]
  BY <1>1, <1>2, <1>4, ConnsIs
<1>7. TypeOK'  BY <1>5, <1>6 DEF IInv, TypeOK
<1>8. \A y \in Conns : Honest(conns'[y])
  <2>1. Honest(Closed(k))  BY <1>1, <1>4 DEF Honest
  <2> QED  BY <1>6, <2>1 DEF IInv
<1>9. Good(call'[t], Holding(call'[t], conns'))  BY <1>3, <1>5 DEF Holding, d
<1>10. made' >= made /\ Apart(pool) /\ \A j \in 1..Len(pool) : pool[j] # call'[t].conn
  <2>1. \A j \in 1..Len(pool) : pool[j] # 0
    <3>1. pool \in Seq(Conns)  BY OfCall
    <3>2. \A y \in Conns : y # 0  BY SMT DEF Conns
    <3> QED  BY <3>1, <3>2, ElementOfSeq
  <2> QED  BY <1>3, <1>5, <2>1, OfCall, SMT
<1> QED  BY <1>3, <1>5, <1>6, <1>7, <1>8, <1>9, <1>10, StepOf

LEMMA LogIs ==
  ASSUME IInv, NEW i
  PROVE  /\ [log EXCEPT ![i].acts = @ + 1] \in Seq(Entries)
         /\ \A b \in BOOLEAN : [log EXCEPT ![i].lost = IF b THEN @ + 1 ELSE @] \in Seq(Entries)
<1>1. log \in Seq(Entries) /\ DOMAIN log = 1..Len(log)  BY LenProperties DEF IInv, TypeOK
<1>2. CASE i \in 1..Len(log)
  <2> DEFINE e == log[i]
  <2>1. e \in Entries  BY <1>1, <1>2, ElementOfSeq
  <2>2. e.acts \in Nat /\ e.lost \in Nat  BY <2>1, Zenon DEF Entries
  <2>3. ASSUME NEW n \in Nat
        PROVE  [log EXCEPT ![i] = [e EXCEPT !.acts = n]] \in Seq(Entries)
    <3>1. [e EXCEPT !.acts = n] \in Entries  BY <2>1, Zenon DEF Entries
    <3> QED  BY <1>1, <1>2, <3>1, ExceptSeq
  <2>4. ASSUME NEW n \in Nat
        PROVE  [log EXCEPT ![i] = [e EXCEPT !.lost = n]] \in Seq(Entries)
    <3>1. [e EXCEPT !.lost = n] \in Entries  BY <2>1, Zenon DEF Entries
    <3> QED  BY <1>1, <1>2, <3>1, ExceptSeq
  <2>5. e.acts + 1 \in Nat /\ e.lost + 1 \in Nat  BY <2>2, SMT
  <2> QED  BY <2>2, <2>3, <2>4, <2>5
<1>3. CASE i \notin 1..Len(log)
  <2>1. [log EXCEPT ![i].acts = @ + 1] = log  BY <1>1, <1>3
  <2>2. \A b \in BOOLEAN : [log EXCEPT ![i].lost = IF b THEN @ + 1 ELSE @] = log  BY <1>1, <1>3
  <2> QED  BY <1>1, <2>1, <2>2
<1> QED  BY <1>2, <1>3

LEMMA OfFail ==
  ASSUME IInv, NEW t \in Callers, NEW why \in {"broken", "timeout"}, Fail(t, why),
         call[t].conn # 0, UNCHANGED <<pool, made>>, log' \in Seq(Entries)
  PROVE  IInv'
<1> DEFINE e == [Idle EXCEPT !.id = call[t].id, !.reused = call[t].reused]
           d == [e EXCEPT !.pc = why, !.conn = 0]
<1>1. why \in Pcs  BY DEF Pcs
<1>2. e \in Calls
  <2>1. call[t].id \in Nat /\ call[t].reused \in BOOLEAN  BY OfCall, Zenon DEF Calls
  <2> QED  BY <2>1, IdleIs, Zenon DEF Calls
<1>3. d.pc = why /\ d.conn = 0  BY <1>1, <1>2, LeftIs
<1> HIDE DEF d
<1>4. Good(d, Unmade)  BY <1>3 DEF Good
<1> QED  BY <1>1, <1>2, <1>4, OfLeave DEF Fail, d

LEMMA OfBroken ==
  ASSUME IInv, NEW t \in Callers, Broken(t)
  PROVE  IInv'
<1> DEFINE c == call[t]
           d == [c EXCEPT !.pc = "connect", !.conn = 0]
<1>1. c \in Calls /\ Good(c, Holding(c, conns)) /\ c.pc = "head"
  BY OfCall DEF Broken, At
<1>2. /\ c.conn # 0 /\ c.server \in Servers /\ (c.auth => Host[c.server] = c.origin)
      /\ c.read = <<>>
  BY <1>1 DEF Good
<1>3. UNCHANGED <<pool, made>> /\ log' \in Seq(Entries)
  <2>1. c.reused \in BOOLEAN  BY <1>1, Zenon DEF Calls
  <2> QED  BY <2>1, LogIs DEF Broken
<1>4. CASE Leave(t, c, "connect")
  <2>1. "connect" \in Pcs  BY DEF Pcs
  <2>2. /\ d.pc = "connect" /\ d.conn = 0 /\ d.server = c.server /\ d.auth = c.auth
        /\ d.origin = c.origin /\ d.read = c.read
    BY <1>1, <2>1, LeftIs
  <2> HIDE DEF d
  <2>3. Good(d, Unmade)  BY <1>2, <2>2 DEF Good
  <2> QED  BY <1>1, <1>2, <1>3, <1>4, <2>1, <2>3, OfLeave DEF d
<1>5. CASE Fail(t, "broken")  BY <1>2, <1>3, <1>5, OfFail
<1> QED  BY <1>4, <1>5 DEF Broken

\* A call that has read, or given up reading, what it cares to of a body.
LEMMA OfReading ==
  ASSUME IInv, NEW t \in Callers, call[t].pc \in {"body", "drain"},
         NEW pc \in {"follow", "whole", "cut", "dropped"}, Leave(t, call[t], pc),
         pc = "follow" => call[t].pc = "drain",
         pc = "whole" => call[t].head.framing = "eof",
         UNCHANGED <<pool, made, log>>
  PROVE  IInv'
<1> DEFINE c == call[t]
           d == [c EXCEPT !.pc = pc, !.conn = 0]
<1>1. c \in Calls /\ Good(c, Holding(c, conns))  BY OfCall
<1>2. /\ c.conn # 0 /\ c.head \in Answers /\ c.of = c.id /\ Numbered(c)
      /\ c.pc = "drain" => /\ c.head.redirect # "none" /\ c.server \in Servers
                           /\ c.auth => Host[c.server] = c.origin
  BY <1>1 DEF Good
<1>3. pc \in Pcs  BY DEF Pcs
<1>4. /\ d.pc = pc /\ d.conn = 0 /\ d.server = c.server /\ d.auth = c.auth
      /\ d.origin = c.origin /\ d.read = c.read /\ d.id = c.id /\ d.of = c.of /\ d.head = c.head
  BY <1>1, <1>3, LeftIs
<1> HIDE DEF d
<1>5. Numbered(d)  BY <1>2, <1>4 DEF Numbered
<1>6. Good(d, Unmade)  BY <1>2, <1>4, <1>5 DEF Good
<1> QED  BY <1>1, <1>2, <1>3, <1>6, OfLeave DEF d, IInv, TypeOK

LEMMA OfTimeOut ==
  ASSUME IInv, NEW t \in Callers, TimeOut(t)
  PROVE  IInv'
<1>1. CASE call[t].pc \in {"head", "body"} /\ Fail(t, "timeout")
  <2>1. call[t].conn # 0  BY <1>1, OfCall DEF Good
  <2> QED  BY <1>1, <2>1, OfFail DEF TimeOut, IInv, TypeOK
<1>2. CASE At(t, "drain") /\ Leave(t, call[t], "follow")
  BY <1>2, OfReading DEF At, TimeOut
<1> QED  BY <1>1, <1>2 DEF TimeOut

LEMMA OfReadEnd ==
  ASSUME IInv, NEW t \in Callers, ReadEnd(t)
  PROVE  IInv'
<1> DEFINE eof == call[t].head.framing = "eof"
           pc == IF eof \/ At(t, "drain") THEN Ends(t) ELSE "cut"
<1>1. call[t].pc \in {"body", "drain"} /\ Leave(t, call[t], pc)  BY DEF ReadEnd, Reading
<1>2. /\ pc \in {"follow", "whole", "cut"} /\ (pc = "follow" => call[t].pc = "drain")
      /\ pc = "whole" => eof
  BY DEF Ends, At
<1>3. UNCHANGED <<pool, made, log>>
  <2>1. call[t].method # "HEAD"  BY <1>1, OfCall DEF Good, Bodiless
  <2> QED  BY <2>1 DEF ReadEnd, Finished
<1> QED  BY <1>1, <1>2, <1>3, OfReading

LEMMA OfDropBody ==
  ASSUME IInv, NEW t \in Callers, DropBody(t)
  PROVE  IInv'
<1> DEFINE pc == IF At(t, "drain") THEN "follow" ELSE "dropped"
<1>1. call[t].pc \in {"body", "drain"} /\ Leave(t, call[t], pc)  BY DEF DropBody, Full, At
<1>2. pc \in {"follow", "dropped"} /\ (pc = "follow" => call[t].pc = "drain")  BY DEF At
<1>3. UNCHANGED <<pool, made, log>>  BY DEF DropBody
<1> QED  BY <1>1, <1>2, <1>3, OfReading

-----------------------------------------------------------------------------
(* A call that reads on *)

LEMMA OfRead ==
  ASSUME IInv, NEW t \in Callers, call[t].conn # 0, ReadsOn(t), Conn(t).unread # <<>>,
         NEW d \in Calls, call' = [call EXCEPT ![t] = d], d.conn \in {0, call[t].conn},
         Good(d, IF d.conn = 0 THEN Unmade ELSE ReadOff(Conn(t))),
         \/ pool' = pool
         \/ pool' = Pooled(call[t].conn) /\ d.conn = 0 /\ Clean(ReadOff(Conn(t))),
         UNCHANGED <<made, log>>
  PROVE  IInv'
<1> DEFINE x == call[t].conn
           k == conns[x]
           l == ReadOff(k)
<1>1. x \in Conns /\ k \in Connections /\ Honest(k) /\ k = Conn(t)  BY OfCall DEF Conn
<1>2. l \in Connections /\ l.server = k.server /\ l.asked = k.asked
  <2> HIDE DEF k
  <2>1. k.unread \in Unread  BY <1>1, Zenon DEF Connections
  <2>2. Tail(k.unread) \in Unread  BY <1>1, <2>1, HeadTailProperties DEF Unread
  <2> QED  BY <1>1, <2>2, Zenon DEF Connections, ReadOff
<1>3. conns' = [conns EXCEPT ![x] = l]  BY DEF ReadsOn
<1> HIDE DEF l, k
<1>4. call' \in [Callers -> Calls] /\ call'[t] = d /\ \A u \in Callers \ {t} : call'[u] = call[u]
  BY CallIs
<1>5. conns' \in [Conns -> Connections] /\ conns'[x] = l /\ \A y \in Conns \ {x} : conns'[y] = conns[y]
  BY <1>1, <1>2, <1>3, ConnsIs
<1>6. Good(call'[t], Holding(call'[t], conns'))
  <2>1. CASE d.conn = 0  BY <1>4, <2>1 DEF Holding
  <2>2. CASE d.conn # 0
    <3>1. Holding(d, conns') = l  BY <1>5, <2>2 DEF Holding
    <3>2. Good(d, l)  BY <1>1, <2>2 DEF l
    <3> QED  BY <1>4, <3>1, <3>2
  <2> QED  BY <2>1, <2>2
<1>7. \A y \in Conns : Honest(conns'[y])
  <2>1. Honest(l)  BY <1>1, <1>2 DEF Honest
  <2> QED  BY <1>5, <2>1 DEF IInv
<1>8. /\ Apart(pool) /\ pool \in Seq(Conns)
      /\ \A i \in 1..Len(pool) : pool[i] # x /\ pool[i] # 0
  <2>1. \A y \in Conns : y # 0  BY SMT DEF Conns
  <2> QED  BY <2>1, OfCall, ElementOfSeq
<1>9. /\ Apart(pool') /\ pool' \in Seq(Conns)
      /\ \A i \in 1..Len(pool') :
           /\ pool'[i] # call'[t].conn
           /\ \/ \E j \in 1..Len(pool) : pool'[i] = pool[j]
              \/ pool'[i] = call[t].conn /\ Clean(conns'[pool'[i]])
  <2>1. CASE pool' = pool
    <3>1. call'[t].conn \in {0, x}  BY <1>4
    <3> QED  BY <1>8, <2>1, <3>1
  <2>2. CASE pool' = Pooled(x) /\ d.conn = 0 /\ Clean(l)
    <3>1. /\ Pooled(x) \in Seq(Conns) /\ Apart(Pooled(x))
          /\ \A i \in 1..Len(Pooled(x)) :
               Pooled(x)[i] = x \/ \E j \in 1..Len(pool) : Pooled(x)[i] = pool[j]
      BY <1>1, <1>8, PooledIs
    <3>2. x # 0 /\ call'[t].conn = 0  BY <1>4, <2>2
    <3> QED  BY <1>5, <1>8, <2>2, <3>1, <3>2
  <2> QED  BY <1>1, <2>1, <2>2 DEF l
<1>10. TypeOK'  BY <1>4, <1>5, <1>9 DEF IInv, TypeOK
<1>11. made' >= made /\ call'[t].conn \in {0, call[t].conn}  BY <1>4, OfCall, SMT
<1>12. \A y \in Conns : y # call[t].conn => conns'[y] = conns[y]  BY <1>5
<1>13. \A u \in Callers \ {t} : call'[u] = call[u]  BY <1>4
<1> QED  BY <1>6, <1>7, <1>9, <1>10, <1>11, <1>12, <1>13, StepOf

LEMMA OfInterim ==
  ASSUME IInv, NEW t \in Callers, Interim(t)
  PROVE  IInv'
<1> DEFINE c == call[t]
           k == Conn(t)
           l == ReadOff(k)
<1>1. c \in Calls /\ Good(c, Holding(c, conns)) /\ c.pc = "head"
  BY OfCall DEF Interim, At
<1>2. c.conn # 0  BY <1>1 DEF Good
<1>3. k \in Connections /\ Good(c, k) /\ k.unread # <<>> /\ Head(k.unread).part = "interim"
  BY <1>1, <1>2, OfCall DEF Interim
<1>4. k.unread \in Seq(Items)  BY <1>3, Zenon DEF Connections, Unread
<1>5. l.asked = k.asked /\ l.server = k.server /\ l.unread = Tail(k.unread)
  <2> HIDE DEF k
  <2> QED  BY <1>3, Zenon DEF Connections, ReadOff
<1> HIDE DEF k, l
<1>6. PICK a \in Answers, j \in {0, 1} : k.asked = Nobody /\ From(k.unread, c.method, c.id, a, j)
  BY <1>1, <1>3 DEF Good
<1>7. Head(k.unread) = Part(c.id, a, j) /\ From(Tail(k.unread), c.method, c.id, a, j + 1)
  BY <1>3, <1>4, <1>6, FromTail, SMT
<1>8. j = 0
  <2>1. Part(c.id, a, 1).part = "head"  BY SMT DEF Part, Item
  <2> QED  BY <1>3, <1>6, <1>7, <2>1
<1>9. From(l.unread, c.method, c.id, a, 1)
  <2>1. 0 + 1 = 1  BY SMT
  <2> QED  BY <1>5, <1>7, <1>8, <2>1
<1>10. Good(c, l)  BY <1>1, <1>2, <1>3, <1>5, <1>6, <1>9 DEF Good
<1>11. call' = [call EXCEPT ![t] = c] /\ UNCHANGED <<pool, made, log>> /\ ReadsOn(t)
  BY OfCall DEF Interim
<1> QED  BY <1>1, <1>2, <1>3, <1>10, <1>11, OfRead DEF k, l

\* A body that is not there, or that has been read: nothing is left of it.
LEMMA Finishing ==
  ASSUME NEW t \in Callers, NEW a, NEW l, l.asked = Nobody, l.unread = <<>>
  PROVE  \/ Finished(t, a) = pool
         \/ Finished(t, a) = Pooled(call[t].conn) /\ Clean(l)
BY DEF Finished, Clean

LEMMA OfReadHead ==
  ASSUME IInv, NEW t \in Callers, ReadHead(t)
  PROVE  IInv'
<1> DEFINE c == call[t]
           k == Conn(t)
           l == ReadOff(k)
           item == Head(k.unread)
           pc == AfterHead(t, item)
           conn == IF pc \in {"body", "drain"} THEN c.conn ELSE 0
<1>1. c \in Calls /\ Good(c, Holding(c, conns)) /\ c.pc = "head"
  BY OfCall DEF ReadHead, At
<1>2. /\ c.conn # 0 /\ c.server \in Servers /\ (c.auth => Host[c.server] = c.origin)
      /\ c.read = <<>>
  BY <1>1 DEF Good
<1>3. /\ k \in Connections /\ Good(c, k) /\ k.unread # <<>> /\ item.part # "interim"
      /\ UNCHANGED <<made, log>> /\ ReadsOn(t)
      /\ pool' = IF item.part = "head" /\ NoBody(t, item.head) THEN Finished(t, item.head) ELSE pool
      /\ call' = [call EXCEPT ![t] =
           [c EXCEPT !.head = item.head, !.of = item.of, !.pc = pc, !.conn = conn]]
  <2>1. k \in Connections /\ Good(c, k)  BY <1>1, <1>2, OfCall
  <2>2. k.unread # <<>> /\ item.part # "interim" /\ UNCHANGED <<made, log>> /\ ReadsOn(t)
    BY DEF ReadHead
  <2>3. pool' = IF item.part = "head" /\ NoBody(t, item.head) THEN Finished(t, item.head) ELSE pool
    BY DEF ReadHead
  <2>4. call' = [call EXCEPT ![t] =
           [c EXCEPT !.head = item.head, !.of = item.of, !.pc = pc, !.conn = conn]]
    BY DEF ReadHead
  <2> QED  BY <2>1, <2>2, <2>3, <2>4
<1>4. k.unread \in Seq(Items)  BY <1>3, Zenon DEF Connections, Unread
<1>5. l.asked = k.asked /\ l.server = k.server /\ l.unread = Tail(k.unread) /\ k.server = c.server
  <2>1. k.server = c.server  BY <1>2, <1>3 DEF Good
  <2> HIDE DEF k
  <2> QED  BY <1>3, <2>1, Zenon DEF Connections, ReadOff
<1> HIDE DEF k, l
<1>6. PICK a \in Answers, j \in {0, 1} : k.asked = Nobody /\ From(k.unread, c.method, c.id, a, j)
  BY <1>1, <1>3 DEF Good
<1>7. /\ item = Part(c.id, a, j) /\ From(Tail(k.unread), c.method, c.id, a, j + 1)
      /\ Tail(k.unread) \in Seq(Items)
  BY <1>3, <1>4, <1>6, FromTail, SMT
<1> HIDE DEF item
<1>8. j = 1
  <2>1. Part(c.id, a, 0).part = "interim"  BY DEF Part, Item
  <2> QED  BY <1>3, <1>6, <1>7, <2>1
<1>9. item.part = "head" /\ item.head = a /\ item.of = c.id
  BY <1>7, <1>8, SMT DEF Part, Item
<1>10. From(l.unread, c.method, c.id, a, 2)
  <2>1. 1 + 1 = 2  BY SMT
  <2> QED  BY <1>5, <1>7, <1>8, <2>1
<1>11. a.len \in Nat /\ a.framing \in Framings  BY NetAssumption
<1>12. NoBody(t, a) => l.unread = <<>>
  <2> SUFFICES ASSUME NoBody(t, a)  PROVE l.unread = <<>>
    OBVIOUS
  <2>1. LastPart(c.method, a) = 1
    BY <1>11, SMT DEF LastPart, NoBody
  <2>2. ~(2 <= 1) /\ 2 \in Nat  BY SMT
  <2> QED  BY <1>5, <1>7, <1>10, <2>1, <2>2, FromDone
<1>13. /\ pc \in {"whole", "body", "redirects", "follow", "drain"}
       /\ pc \in {"body", "drain"} => ~NoBody(t, a)
       /\ pc \in {"follow", "drain"} => a.redirect # "none"
       /\ pc = "whole" => NoBody(t, a)
  BY <1>9 DEF AfterHead, Follows
<1> HIDE DEF pc
<1> DEFINE d == [c EXCEPT !.head = a, !.of = c.id, !.pc = pc, !.conn = conn]
<1>14. call' = [call EXCEPT ![t] = d]  BY <1>3, <1>9
<1>15. d \in Calls
  <2>1. a \in Heads /\ c.id \in Nat /\ pc \in Pcs /\ conn \in MaybeConns
    <3>1. a \in Heads /\ 0 \in MaybeConns  BY Values
    <3>2. c.id \in Nat /\ c.conn \in MaybeConns  BY <1>1, Zenon DEF Calls
    <3>3. pc \in Pcs  BY <1>13 DEF Pcs
    <3> QED  BY <3>1, <3>2, <3>3
  <2> HIDE DEF conn
  <2> QED  BY <1>1, <2>1, Zenon DEF Calls
<1>16. /\ d.head = a /\ d.of = c.id /\ d.pc = pc /\ d.conn = conn /\ d.server = c.server
       /\ d.auth = c.auth /\ d.origin = c.origin /\ d.read = c.read /\ d.id = c.id
       /\ d.method = c.method
  <2> HIDE DEF conn
  <2> QED  BY <1>1, Zenon DEF Calls
<1> HIDE DEF d
<1>17. Numbered(d) /\ Len(d.read) = 0
  <2>1. d.read = <<>>  BY <1>2, <1>16
  <2>2. Len(<<>>) = 0 /\ <<>> = [n \in 1..0 |-> <<d.id, n>>]  BY SMT
  <2> QED  BY <2>1, <2>2 DEF Numbered
<1>18. conn # 0 <=> pc \in {"body", "drain"}  BY <1>2
<1>19. Good(d, IF d.conn = 0 THEN Unmade ELSE l)
  <2>1. CASE pc \in {"body", "drain"}
    <3>1. ~Bodiless(d)  BY <1>13, <1>16, <2>1 DEF Bodiless, NoBody
    <3>2. From(l.unread, d.method, d.id, d.head, Len(d.read) + 2)
      <4>1. 0 + 2 = 2  BY SMT
      <4> QED  BY <1>10, <1>16, <1>17, <4>1
    <3> HIDE DEF conn
    <3>3. Good(d, l)
      BY <1>2, <1>5, <1>6, <1>13, <1>16, <1>17, <1>18, <2>1, <3>1, <3>2 DEF Good
    <3> QED  BY <1>16, <1>18, <2>1, <3>3
  <2>2. CASE pc \notin {"body", "drain"}
    <3> HIDE DEF conn
    <3>1. d.conn = 0  BY <1>16, <1>18, <2>2
    <3>2. pc = "whole" /\ a.framing # "eof" /\ c.method # "HEAD" => a.len = 0
      BY <1>13 DEF NoBody
    <3>3. Good(d, Unmade)
      BY <1>2, <1>13, <1>16, <1>17, <2>2, <3>1, <3>2 DEF Good
    <3> QED  BY <3>1, <3>3
  <2> QED  BY <2>1, <2>2
<1>20. \/ pool' = pool
       \/ pool' = Pooled(call[t].conn) /\ d.conn = 0 /\ Clean(l)
  <2>1. CASE NoBody(t, a)
    <3>1. d.conn = 0  BY <1>13, <1>16, <2>1
    <3>2. pool' = Finished(t, a)  BY <1>3, <1>9, <2>1
    <3>3. l.asked = Nobody /\ l.unread = <<>>  BY <1>5, <1>6, <1>12, <2>1
    <3> QED  BY <3>1, <3>2, <3>3, Finishing
  <2>2. CASE ~NoBody(t, a)  BY <1>3, <1>9, <2>2
  <2> QED  BY <2>1, <2>2
<1>21. d.conn \in {0, call[t].conn}  BY <1>16
<1> QED  BY <1>2, <1>3, <1>14, <1>15, <1>19, <1>20, <1>21, OfRead DEF k, l

LEMMA OfReadData ==
  ASSUME IInv, NEW t \in Callers, ReadData(t)
  PROVE  IInv'
<1> DEFINE c == call[t]
           k == Conn(t)
           l == ReadOff(k)
           a == c.head
           item == Head(k.unread)
           end == a.framing = "chunked" /\ item.part = "end"
           read == IF end THEN c.read ELSE Append(c.read, <<item.of, item.n>>)
           last == end \/ (a.framing = "length" /\ Len(read) = a.len)
           conn == IF last THEN 0 ELSE c.conn
           pc == IF last THEN Ends(t) ELSE c.pc
           d == [c EXCEPT !.read = read, !.conn = conn, !.pc = pc]
<1>1. c \in Calls /\ Good(c, Holding(c, conns)) /\ c.pc \in {"body", "drain"}
  BY OfCall DEF ReadData, Reading
<1>2. c.conn # 0  BY <1>1 DEF Good
<1>3. /\ k \in Connections /\ Good(c, k) /\ k.unread # <<>>
      /\ UNCHANGED <<made, log>> /\ ReadsOn(t)
      /\ pool' = IF last THEN Finished(t, a) ELSE pool
      /\ call' = [call EXCEPT ![t] = d]
  <2>1. k \in Connections /\ Good(c, k)  BY <1>1, <1>2, OfCall
  <2>2. k.unread # <<>> /\ UNCHANGED <<made, log>> /\ ReadsOn(t)  BY DEF ReadData
  <2>3. pool' = IF last THEN Finished(t, a) ELSE pool  BY DEF ReadData
  <2>4. call' = [call EXCEPT ![t] = d]  BY DEF ReadData
  <2> QED  BY <2>1, <2>2, <2>3, <2>4
<1>4. k.unread \in Seq(Items)  BY <1>3, Zenon DEF Connections, Unread
<1>5. /\ k.server = c.server /\ k.asked = Nobody /\ a \in Answers /\ c.of = c.id /\ Numbered(c)
      /\ ~Bodiless(c) /\ From(k.unread, c.method, c.id, a, Len(c.read) + 2)
      /\ c.server \in Servers /\ (c.auth => Host[c.server] = c.origin)
      /\ c.pc = "drain" => a.redirect # "none"
  BY <1>1, <1>2, <1>3 DEF Good
<1>6. l.asked = k.asked /\ l.server = k.server /\ l.unread = Tail(k.unread)
  <2> HIDE DEF k
  <2> QED  BY <1>3, Zenon DEF Connections, ReadOff
<1>7. c.read \in Seq(Nat \X Nat) /\ c.id \in Nat /\ Len(c.read) \in Nat /\ a.len \in Nat
  <2>1. c.read \in Reads /\ c.id \in Nat  BY <1>1, Zenon DEF Calls
  <2> QED  BY <1>5, <2>1, LenProperties, NetAssumption DEF Reads
<1> HIDE DEF k, l, c
<1> DEFINE n == Len(c.read)
<1>8. /\ item = Part(c.id, a, n + 2) /\ n + 2 <= LastPart(c.method, a)
      /\ From(l.unread, c.method, c.id, a, n + 3) /\ l.unread \in Seq(Items)
  <2>1. n + 2 \in Nat /\ (n + 2) + 1 = n + 3  BY <1>7, SMT
  <2> QED  BY <1>3, <1>4, <1>5, <1>6, <2>1, FromTail
<1>9. LastPart(c.method, a) = IF a.framing = "chunked" THEN a.len + 2 ELSE a.len + 1
  BY <1>5 DEF LastPart, Bodiless
<1>10. end => n = a.len
  <2>1. SUFFICES ASSUME end, n <= a.len - 1  PROVE FALSE
    BY <1>7, <1>8, <1>9, SMT
  <2>2. n + 2 # 0 /\ n + 2 # 1 /\ n + 2 <= a.len + 1  BY <1>7, <2>1, SMT
  <2>3. item.part = "data"  BY <1>8, <2>2 DEF Part, Item
  <2> QED  BY <2>1, <2>3
<1>11. ~end => item.of = c.id /\ item.n = n + 1
  <2> SUFFICES ASSUME ~end  PROVE item.of = c.id /\ item.n = n + 1
    OBVIOUS
  <2>1. n + 2 # 0 /\ n + 2 # 1 /\ n + 2 - 1 = n + 1  BY <1>7, SMT
  <2>2. n + 2 <= a.len + 1
    <3>1. CASE n + 2 <= a.len + 1  BY <3>1
    <3>2. CASE ~(n + 2 <= a.len + 1)
      <4>1. item.part = "end"  BY <1>8, <2>1, <3>2 DEF Part, Item
      <4> QED  BY <1>8, <1>9, <3>2, <4>1
    <3> QED  BY <3>1, <3>2
  <2> QED  BY <1>8, <2>1, <2>2 DEF Part, Item
<1> HIDE DEF item, end
<1>12. /\ read \in Seq(Nat \X Nat) /\ Len(read) = IF end THEN n ELSE n + 1
       /\ read = [i \in 1..Len(read) |-> <<c.id, i>>]
  <2>1. CASE end  BY <1>5, <1>7, <2>1 DEF Numbered
  <2>2. CASE ~end
    <3>1. read = Append(c.read, <<c.id, n + 1>>) /\ <<c.id, n + 1>> \in Nat \X Nat
      BY <1>7, <1>11, <2>2
    <3>2. /\ read \in Seq(Nat \X Nat) /\ Len(read) = n + 1
          /\ \A i \in 1..n : read[i] = c.read[i]
          /\ read[n + 1] = <<c.id, n + 1>>
      BY <1>7, <3>1, AppendProperties
    <3>3. \A i \in 1..n : c.read[i] = <<c.id, i>>  BY <1>5 DEF Numbered
    <3>4. \A i \in 1..(n + 1) : i \in 1..n \/ i = n + 1  BY <1>7, SMT
    <3>5. \A i \in 1..(n + 1) : read[i] = <<c.id, i>>  BY <3>2, <3>3, <3>4
    <3>6. DOMAIN read = 1..(n + 1) /\ read = [i \in DOMAIN read |-> read[i]]
      BY <3>2, LenProperties
    <3> QED  BY <2>2, <3>2, <3>5, <3>6
  <2> QED  BY <2>1, <2>2
<1> HIDE DEF read
<1>13. last => Len(read) = a.len /\ l.unread = <<>> /\ a.framing # "eof"
  <2> SUFFICES ASSUME last  PROVE Len(read) = a.len /\ l.unread = <<>> /\ a.framing # "eof"
    OBVIOUS
  <2>1. Len(read) = a.len  BY <1>10, <1>12
  <2>2. ~(n + 3 <= LastPart(c.method, a)) /\ n + 3 \in Nat
    <3>1. CASE end
      <4>1. n = a.len /\ LastPart(c.method, a) = a.len + 2  BY <1>9, <1>10, <3>1 DEF end
      <4> QED  BY <1>7, <4>1, SMT
    <3>2. CASE ~end
      <4>1. n + 1 = a.len /\ LastPart(c.method, a) = a.len + 1  BY <1>9, <1>12, <2>1, <3>2
      <4> QED  BY <1>7, <4>1, SMT
    <3> QED  BY <3>1, <3>2
  <2>3. l.unread = <<>>  BY <1>8, <2>2, FromDone
  <2>4. a.framing # "eof"  BY DEF end
  <2> QED  BY <2>1, <2>3, <2>4
<1>14. ~last => From(l.unread, c.method, c.id, a, Len(read) + 2)
  <2> SUFFICES ASSUME ~last  PROVE From(l.unread, c.method, c.id, a, Len(read) + 2)
    OBVIOUS
  <2>1. Len(read) + 2 = n + 3  BY <1>7, <1>12, SMT
  <2> QED  BY <1>8, <2>1
<1>15. Ends(t) = IF c.pc = "drain" THEN "follow" ELSE "whole"  BY DEF Ends, At, c
<1> HIDE DEF last, n
<1>16. /\ conn \in {0, c.conn} /\ conn \in MaybeConns /\ pc \in Pcs /\ read \in Reads
       /\ pc \in {"body", "drain", "follow", "whole"}
       /\ conn = 0 <=> last
       /\ pc \in {"body", "drain"} <=> ~last
       /\ pc \in {"drain", "follow"} <=> c.pc = "drain"
       /\ pc = "whole" => last
  <2>1. c.conn \in MaybeConns /\ 0 \in MaybeConns  BY <1>1, Values, Zenon DEF Calls
  <2>2. conn \in {0, c.conn} /\ conn \in MaybeConns /\ read \in Reads  BY <1>12, <2>1 DEF Reads
  <2>3. pc \in {"body", "drain", "follow", "whole"}  BY <1>1, <1>15
  <2>4. pc \in Pcs  BY <2>3 DEF Pcs
  <2>5. conn = 0 <=> last  BY <1>2 DEF c
  <2>6. pc \in {"body", "drain"} <=> ~last  BY <1>1, <1>15
  <2>7. (pc \in {"drain", "follow"} <=> c.pc = "drain") /\ (pc = "whole" => last)
    BY <1>1, <1>15
  <2> QED  BY <2>2, <2>3, <2>4, <2>5, <2>6, <2>7
<1> HIDE DEF conn, pc
<1>17. /\ d \in Calls /\ d.read = read /\ d.conn = conn /\ d.pc = pc
       /\ d.head = a /\ d.of = c.of /\ d.server = c.server /\ d.auth = c.auth
       /\ d.origin = c.origin /\ d.id = c.id /\ d.method = c.method
  <2>1. d \in Calls  BY <1>1, <1>16, Zenon DEF Calls
  <2>2. /\ d.read = read /\ d.conn = conn /\ d.pc = pc
        /\ d.head = a /\ d.of = c.of /\ d.server = c.server /\ d.auth = c.auth
        /\ d.origin = c.origin /\ d.id = c.id /\ d.method = c.method
    BY <1>1, Zenon DEF Calls
  <2> QED  BY <2>1, <2>2
<1> HIDE DEF d
<1>18. Numbered(d) /\ ~Bodiless(d)  BY <1>5, <1>12, <1>17 DEF Numbered, Bodiless
<1>19. Good(d, IF d.conn = 0 THEN Unmade ELSE l)
  <2>1. CASE ~last
    <3>1. d.conn # 0 /\ d.pc \in {"body", "drain"}  BY <1>16, <1>17, <2>1
    <3>2. From(l.unread, d.method, d.id, d.head, Len(d.read) + 2)  BY <1>14, <1>17, <2>1
    <3>3. Good(d, l)  BY <1>5, <1>6, <1>16, <1>17, <1>18, <3>1, <3>2 DEF Good
    <3> QED  BY <3>1, <3>3
  <2>2. CASE last
    <3>1. d.conn = 0 /\ d.pc \in {"follow", "whole"}  BY <1>16, <1>17, <2>2
    <3>2. Len(d.read) = d.head.len  BY <1>13, <1>17, <2>2
    <3>3. Good(d, Unmade)  BY <1>5, <1>16, <1>17, <1>18, <3>1, <3>2 DEF Good
    <3> QED  BY <3>1, <3>3
  <2> QED  BY <2>1, <2>2
<1>20. \/ pool' = pool
       \/ pool' = Pooled(call[t].conn) /\ d.conn = 0 /\ Clean(l)
  <2>1. CASE last
    <3>1. d.conn = 0 /\ pool' = Finished(t, a)  BY <1>3, <1>16, <1>17, <2>1
    <3>2. l.asked = Nobody /\ l.unread = <<>>  BY <1>5, <1>6, <1>13, <2>1
    <3> QED  BY <3>1, <3>2, Finishing
  <2>2. CASE ~last  BY <1>3, <2>2
  <2> QED  BY <2>1, <2>2
<1>21. d.conn \in {0, call[t].conn}  BY <1>16, <1>17 DEF c
<1> QED  BY <1>2, <1>3, <1>17, <1>19, <1>20, <1>21, OfRead DEF c, k, l

LEMMA OfFollow ==
  ASSUME IInv, NEW t \in Callers, Follow(t)
  PROVE  IInv'
<1> DEFINE c == call[t]
           auth == AuthAfter(c)
           method == IF c.head.redirect = "get" /\ c.method # "HEAD" THEN "GET" ELSE c.method
           e == [c EXCEPT !.followed = @ + 1, !.server = c.head.to, !.auth = auth, !.method = method]
           d == Exchange(e)
<1>1. c \in Calls /\ Good(c, Holding(c, conns)) /\ c.pc = "follow"
  BY OfCall DEF Follow, At
<1>2. /\ c.conn = 0 /\ c.server \in Servers /\ (c.auth => Host[c.server] = c.origin)
      /\ c.head \in Answers /\ c.head.redirect # "none"
  BY <1>1 DEF Good
<1>3. c.head.to \in Servers  BY <1>2, NetAssumption
<1>4. /\ call' = [call EXCEPT ![t] = d] /\ log' = Append(log, [acts |-> 0, lost |-> 0])
      /\ UNCHANGED <<pool, made, conns>>
  BY DEF Follow
<1>5. Len(log) + 1 \in Nat /\ log' \in Seq(Entries)
  <2>1. [acts |-> 0, lost |-> 0] \in Entries  BY SMT DEF Entries
  <2> QED  BY <1>4, <2>1, AppendProperties, LenProperties, SMT DEF IInv, TypeOK
<1>6. e \in Calls /\ e.server = c.head.to /\ e.auth = auth /\ e.origin = c.origin
  <2>1. c.head.to \in Places /\ method \in Verbs /\ auth \in BOOLEAN /\ c.followed + 1 \in Nat
    <3>1. c.method \in Verbs /\ c.followed \in Nat  BY <1>1, Zenon DEF Calls
    <3>2. auth \in BOOLEAN  BY DEF AuthAfter
    <3> QED  BY <1>3, <3>1, <3>2, Values, SMT
  <2> HIDE DEF auth, method
  <2> QED  BY <1>1, <2>1, Zenon DEF Calls
<1>7. auth => Host[c.head.to] = c.origin  BY <1>2 DEF AuthAfter
<1> HIDE DEF e, auth
<1>8. /\ d \in Calls /\ d.pc = "take" /\ d.conn = 0 /\ d.read = <<>>
      /\ d.server = c.head.to /\ d.auth = auth /\ d.origin = c.origin
  BY <1>5, <1>6, ExchangeIs
<1> HIDE DEF d
<1>9. Good(d, Unmade)  BY <1>3, <1>7, <1>8 DEF Good
<1>10. call' \in [Callers -> Calls] /\ call'[t] = d /\ \A u \in Callers \ {t} : call'[u] = call[u]
  BY <1>4, <1>8, CallIs
<1>11. TypeOK'  BY <1>4, <1>5, <1>10 DEF IInv, TypeOK
<1>12. Good(call'[t], Holding(call'[t], conns'))  BY <1>8, <1>9, <1>10 DEF Holding
<1>13. \A x \in Conns : Honest(conns'[x])  BY <1>4 DEF IInv
<1>14. made' >= made /\ Apart(pool) /\ \A j \in 1..Len(pool) : pool[j] # call'[t].conn
  <2>1. call'[t].conn = c.conn  BY <1>2, <1>8, <1>10
  <2> QED  BY <1>4, <2>1, OfCall, SMT
<1> QED  BY <1>2, <1>4, <1>8, <1>10, <1>11, <1>12, <1>13, <1>14, StepOf

-----------------------------------------------------------------------------
(* The servers and the network *)

LEMMA OfAct ==
  ASSUME IInv, NEW c \in Conns, NEW a \in Answers, Act(c, a)
  PROVE  IInv'
<1> DEFINE k == conns[c]
           r == k.asked
           l == Answered(k, a)
<1>1. /\ r # Nobody /\ conns' = [conns EXCEPT ![c] = l] /\ UNCHANGED <<pool, made, call>>
      /\ log' = [log EXCEPT ![r.id].acts = @ + 1]
  BY DEF Act
<1>2. k \in Connections  BY DEF IInv, TypeOK
<1>3. r \in Requests /\ r.id \in Nat /\ k.unread \in Seq(Items)
  <2>1. k.unread \in Unread /\ r \in Asked  BY <1>2, Zenon DEF Connections
  <2>2. r \in Requests  BY <1>1, <2>1 DEF Asked
  <2> HIDE DEF r
  <2>3. r.id \in Nat  BY <2>2, Zenon DEF Requests
  <2> QED  BY <2>1, <2>2, <2>3 DEF Unread
<1> DEFINE w == Wire(r.method, r.id, a)
           u == k.unread \o w
           up == a.keep /\ (a.framing # "eof" \/ r.method = "HEAD")
<1>4. w \in Seq(Items) /\ From(w, r.method, r.id, a, IF a.interim THEN 0 ELSE 1)
  BY <1>3, FromWire
<1>5. u \in Seq(Items) /\ (k.unread = <<>> => u = w)
  <2> HIDE DEF w, k
  <2> QED  BY <1>3, <1>4, SMT
<1>6. l \in Connections /\ l.asked = Nobody /\ l.unread = u /\ l.server = k.server
  <2>1. u \in Unread /\ Nobody \in Asked /\ up \in BOOLEAN  BY <1>5, Values DEF Unread
  <2>2. l = [k EXCEPT !.unread = u, !.asked = Nobody, !.up = up]  BY DEF Answered
  <2> HIDE DEF u, k, up, l
  <2> QED  BY <1>2, <2>1, <2>2, Zenon DEF Connections
<1> HIDE DEF l, u, w, up
<1>7. /\ conns' \in [Conns -> Connections] /\ conns'[c] = l
      /\ \A x \in Conns \ {c} : conns'[x] = conns[x]
  BY <1>1, <1>6, ConnsIs
<1>8. TypeOK'  BY <1>1, <1>7, LogIs DEF IInv, TypeOK
<1>9. Honest(l) /\ ~Clean(k)  BY <1>1, <1>6 DEF Honest, Clean
<1>10. ASSUME NEW t \in Callers, call[t].conn = c  PROVE Good(call[t], l)
  <2>1. c # 0  BY SMT DEF Conns
  <2>2. Good(call[t], k) /\ call[t].conn # 0
    <3>1. call[t].conn # 0 /\ Conn(t) = k  BY <1>10, <2>1 DEF Conn
    <3> QED  BY <3>1, OfCall
  <2> HIDE DEF k
  <2>3. call[t].pc = "head"  BY <1>1, <1>9, <2>2 DEF Good
  <2>4. k.unread = <<>> /\ r.id = call[t].id /\ r.method = call[t].method
    BY <1>1, <2>2, <2>3 DEF Good
  <2>5. l.asked = Nobody /\ \E j \in {0, 1} : From(l.unread, call[t].method, call[t].id, a, j)
    BY <1>4, <1>5, <1>6, <2>4
  <2> QED  BY <1>6, <2>2, <2>3, <2>5 DEF Good
<1> QED  BY <1>1, <1>7, <1>8, <1>9, <1>10, StepOfConn

LEMMA OfClose ==
  ASSUME IInv, NEW c \in Conns, Close(c)
  PROVE  IInv'
<1> DEFINE k == conns[c]
<1>1. PICK n \in 0..Len(k.unread) :
        conns' = [conns EXCEPT ![c] = Cut(k, n)]
  BY DEF Close
<1> DEFINE u == SubSeq(k.unread, 1, n)
           l == Cut(k, n)
<1>2. conns' = [conns EXCEPT ![c] = l] /\ UNCHANGED <<pool, made, call, log>>  BY <1>1 DEF Close
<1>3. k \in Connections  BY DEF IInv, TypeOK
<1>4. k.unread \in Seq(Items)
  <2> HIDE DEF k
  <2> QED  BY <1>3, Zenon DEF Connections, Unread
<1>5. /\ u \in Seq(Items) /\ (k.unread = <<>> => u = <<>>)
      /\ \A m, id, a, j : From(k.unread, m, id, a, j) => From(u, m, id, a, j)
  BY <1>4, FromPrefix
<1>6. l \in Connections /\ l.asked = Nobody /\ l.unread = u /\ l.server = k.server
  <2>1. u \in Unread /\ Nobody \in Asked /\ FALSE \in BOOLEAN  BY <1>5, Values DEF Unread
  <2>2. l = [k EXCEPT !.unread = u, !.up = FALSE, !.asked = Nobody]  BY DEF Cut
  <2> HIDE DEF u, k, l
  <2> QED  BY <1>3, <2>1, <2>2, Zenon DEF Connections
<1> HIDE DEF l, u
<1>7. /\ conns' \in [Conns -> Connections] /\ conns'[c] = l
      /\ \A x \in Conns \ {c} : conns'[x] = conns[x]
  BY <1>2, <1>6, ConnsIs
<1>8. TypeOK'  BY <1>2, <1>7 DEF IInv, TypeOK
<1>9. Honest(l) /\ (Clean(k) => Clean(l))  BY <1>5, <1>6 DEF Honest, Clean
<1>10. ASSUME NEW t \in Callers, call[t].conn = c  PROVE Good(call[t], l)
  <2>1. c # 0  BY SMT DEF Conns
  <2>2. Good(call[t], k) /\ call[t].conn # 0
    <3>1. call[t].conn # 0 /\ Conn(t) = k  BY <1>10, <2>1 DEF Conn
    <3> QED  BY <3>1, OfCall
  <2> HIDE DEF k
  <2>3. CASE call[t].pc = "send"
    <3>1. Clean(l)  BY <1>9, <2>2, <2>3 DEF Good
    <3> QED  BY <1>6, <2>2, <2>3, <3>1 DEF Good
  <2>4. CASE call[t].pc = "head"
    <3>1. \/ l.unread = <<>>
          \/ \E a \in Answers, j \in {0, 1} : From(l.unread, call[t].method, call[t].id, a, j)
      BY <1>5, <1>6, <2>2, <2>4 DEF Good
    <3> QED  BY <1>6, <2>2, <2>4, <3>1 DEF Good
  <2>5. CASE call[t].pc \in {"body", "drain"}
    <3>1. From(l.unread, call[t].method, call[t].id, call[t].head, Len(call[t].read) + 2)
      BY <1>5, <1>6, <2>2, <2>5 DEF Good
    <3> QED  BY <1>6, <2>2, <2>5, <3>1 DEF Good
  <2>6. call[t].pc \in {"send", "head", "body", "drain"}  BY <2>2 DEF Good
  <2> QED  BY <2>3, <2>4, <2>5, <2>6
<1> QED  BY <1>2, <1>7, <1>8, <1>9, <1>10, StepOfConn

-----------------------------------------------------------------------------
(* The invariant *)

LEMMA Starts == Init => IInv
<1> SUFFICES ASSUME Init  PROVE IInv
  OBVIOUS
<1>1. /\ pool = <<>> /\ made = 0 /\ conns = [c \in Conns |-> Unmade] /\ log = <<>>
      /\ call = [t \in Callers |-> Idle]
  BY DEF Init
<1>2. Unmade \in Connections
  <2>1. "none" \in Places /\ Nobody \in Asked /\ <<>> \in Unread  BY Values
  <2> QED  BY <2>1, Zenon DEF Unmade, Connections
<1>3. /\ pool \in Seq(Conns) /\ log \in Seq(Entries) /\ made \in 0..MaxConns
      /\ \A i : i \notin 1..Len(pool)
  BY <1>1, NetAssumption, SMT
<1>4. TypeOK  BY <1>1, <1>2, <1>3, IdleIs DEF TypeOK
<1>5. Idle.conn = 0 /\ Idle.pc = "ready"  BY DEF Idle
<1>6. OneOwner /\ PoolClean
  <2>1. 0 <= made  BY <1>1, SMT
  <2> QED  BY <1>1, <1>3, <1>5, <2>1 DEF OneOwner, PoolClean, Apart
<1>7. Good(Idle, Unmade)  BY <1>5 DEF Good
<1>8. \A t \in Callers : Good(call[t], Holding(call[t], conns))  BY <1>1, <1>5, <1>7 DEF Holding
<1>9. \A c \in Conns : Honest(conns[c])  BY <1>1 DEF Honest, Unmade
<1> QED  BY <1>4, <1>6, <1>8, <1>9 DEF IInv

LEMMA Steps == IInv /\ [Next]_vars => IInv'
<1> SUFFICES ASSUME IInv, [Next]_vars  PROVE IInv'
  OBVIOUS
<1>1. CASE UNCHANGED vars
  BY <1>1 DEF vars, IInv, TypeOK, OneOwner, Apart, PoolClean, Clean, Good, Holding, Honest, From,
     Numbered, Bodiless
<1>2. ASSUME NEW c \in Conns, Close(c)  PROVE IInv'  BY <1>2, OfClose
<1>3. ASSUME NEW c \in Conns, NEW a \in Answers, Act(c, a)  PROVE IInv'  BY <1>3, OfAct
<1>4. ASSUME NEW t \in Callers, NEW m \in Methods, NEW s \in Servers, Start(t, m, s)  PROVE IInv'
  BY <1>4, OfStart
<1>5. ASSUME NEW t \in Callers, TakeIdle(t)  PROVE IInv'  BY <1>5, OfTakeIdle
<1>6. ASSUME NEW t \in Callers, Connect(t)  PROVE IInv'  BY <1>6, OfConnect
<1>7. ASSUME NEW t \in Callers, Send(t)  PROVE IInv'  BY <1>7, OfSend
<1>8. ASSUME NEW t \in Callers, Broken(t)  PROVE IInv'  BY <1>8, OfBroken
<1>9. ASSUME NEW t \in Callers, Interim(t)  PROVE IInv'  BY <1>9, OfInterim
<1>10. ASSUME NEW t \in Callers, ReadHead(t)  PROVE IInv'  BY <1>10, OfReadHead
<1>11. ASSUME NEW t \in Callers, TimeOut(t)  PROVE IInv'  BY <1>11, OfTimeOut
<1>12. ASSUME NEW t \in Callers, ReadData(t)  PROVE IInv'  BY <1>12, OfReadData
<1>13. ASSUME NEW t \in Callers, ReadEnd(t)  PROVE IInv'  BY <1>13, OfReadEnd
<1>14. ASSUME NEW t \in Callers, DropBody(t)  PROVE IInv'  BY <1>14, OfDropBody
<1>15. ASSUME NEW t \in Callers, Follow(t)  PROVE IInv'  BY <1>15, OfFollow
<1> QED
  BY <1>1, <1>2, <1>3, <1>4, <1>5, <1>6, <1>7, <1>8, <1>9, <1>10, <1>11, <1>12, <1>13, <1>14,
     <1>15 DEF Next

LEMMA Always == Spec => []IInv
BY Starts, Steps, PTL DEF Spec

-----------------------------------------------------------------------------
(* How often servers act on a request *)

Pending(k) == k.asked # Nobody
Active(c) == c.pc \in {"take", "connect", "send", "head"}

Counted == \A i \in 1..Len(log) : log[i].lost <= 1 /\ log[i].acts <= 1 + log[i].lost
\* A request that a server may act on: at most one per exchange, and no server
\* acted on it without a loss that was noticed.
Expected(x) ==
  Pending(conns[x]) =>
    /\ conns[x].up /\ conns[x].asked.id \in 1..Len(log)
    /\ log[conns[x].asked.id].acts <= log[conns[x].asked.id].lost
Single == \A x, y \in Conns :
  Pending(conns[x]) /\ Pending(conns[y]) /\ conns[x].asked.id = conns[y].asked.id => x = y
\* An exchange that may still send its request.
Due(u) ==
  Active(call[u]) =>
    /\ call[u].id \in 1..Len(log)
    /\ call[u].pc # "head" => log[call[u].id].acts <= log[call[u].id].lost
    /\ call[u].pc = "take" \/ (call[u].pc # "connect" /\ call[u].reused)
         => log[call[u].id].lost = 0
    /\ \A x \in Conns : Pending(conns[x]) /\ conns[x].asked.id = call[u].id
         => call[u].pc = "head" /\ x = call[u].conn
Own == \A u, v \in Callers :
  Active(call[u]) /\ Active(call[v]) /\ call[u].id = call[v].id => u = v
LInv ==
  /\ Counted /\ Single /\ Own
  /\ \A x \in Conns : Expected(x)
  /\ \A u \in Callers : Due(u) /\ (call[u].pc = "broken" => ~call[u].reused)

\* A step that sends nothing, loses nothing and starts no exchange.
Kept ==
  \A x \in Conns : Pending(conns'[x]) =>
    conns'[x].asked = conns[x].asked /\ conns'[x].up = conns[x].up

LEMMA Quiet ==
  ASSUME LInv, log' = log, Kept,
         \A t \in Callers :
           \/ call'[t] = call[t]
           \/ ~Active(call'[t]) /\ (call'[t].pc = "broken" => ~call'[t].reused)
           \/ /\ call[t].pc \in {"take", "connect"} /\ call'[t].pc \in {"connect", "send"}
              /\ call'[t].id = call[t].id
              /\ call'[t].pc = "send" /\ call'[t].reused => call[t].pc = "take"
  PROVE  LInv'
<1>1. \A x \in Conns : Pending(conns'[x]) =>
        Pending(conns[x]) /\ conns'[x].asked = conns[x].asked /\ conns'[x].up = conns[x].up
  BY DEF Kept, Pending
<1>2. Counted'  BY DEF LInv, Counted
<1>3. Single'
  <2> SUFFICES ASSUME NEW x \in Conns, NEW y \in Conns, Pending(conns'[x]), Pending(conns'[y]),
                      conns'[x].asked.id = conns'[y].asked.id
               PROVE  x = y
    BY DEF Single, Pending
  <2> QED  BY <1>1 DEF LInv, Single
<1>4. ASSUME NEW x \in Conns  PROVE Expected(x)'
  <2> SUFFICES ASSUME Pending(conns'[x])
               PROVE  /\ conns'[x].up /\ conns'[x].asked.id \in 1..Len(log)
                      /\ log[conns'[x].asked.id].acts <= log[conns'[x].asked.id].lost
    BY DEF Expected, Pending
  <2>1. Expected(x)  BY DEF LInv
  <2> QED  BY <1>1, <2>1 DEF Expected
<1>5. \A u \in Callers : Active(call'[u]) => Active(call[u]) /\ call'[u].id = call[u].id
  BY DEF Active
<1>6. Own'
  <2> SUFFICES ASSUME NEW u \in Callers, NEW v \in Callers, Active(call'[u]), Active(call'[v]),
                      call'[u].id = call'[v].id
               PROVE  u = v
    BY DEF Own, Active
  <2> QED  BY <1>5 DEF LInv, Own
<1>7. ASSUME NEW u \in Callers  PROVE Due(u)'
  <2> SUFFICES ASSUME Active(call'[u])
      PROVE  /\ call'[u].id \in 1..Len(log)
             /\ call'[u].pc # "head" => log[call'[u].id].acts <= log[call'[u].id].lost
             /\ call'[u].pc = "take" \/ (call'[u].pc # "connect" /\ call'[u].reused)
                  => log[call'[u].id].lost = 0
             /\ \A x \in Conns : Pending(conns'[x]) /\ conns'[x].asked.id = call'[u].id
                  => call'[u].pc = "head" /\ x = call'[u].conn
    BY DEF Due, Active, Pending
  <2>1. Active(call[u]) /\ call'[u].id = call[u].id /\ Due(u)  BY <1>5 DEF LInv
  <2>2. CASE call'[u] = call[u]  BY <1>1, <2>1, <2>2 DEF Due
  <2>3. CASE call'[u] # call[u]
    <3>1. /\ call[u].pc \in {"take", "connect"} /\ call'[u].pc \in {"connect", "send"}
          /\ call'[u].pc = "send" /\ call'[u].reused => call[u].pc = "take"
      BY <2>3
    <3> QED  BY <1>1, <2>1, <3>1 DEF Due
  <2> QED  BY <2>2, <2>3
<1>8. \A u \in Callers : call'[u].pc = "broken" => ~call'[u].reused
  <2> SUFFICES ASSUME NEW u \in Callers, call'[u].pc = "broken"  PROVE ~call'[u].reused
    OBVIOUS
  <2>1. CASE call'[u] = call[u]  BY <2>1 DEF LInv
  <2>2. CASE call'[u] # call[u]  BY <2>2
  <2> QED  BY <2>1, <2>2
<1> QED  BY <1>2, <1>3, <1>4, <1>6, <1>7, <1>8 DEF LInv

LEMMA LeaveKeeps ==
  ASSUME IInv, NEW t \in Callers, call[t].conn # 0, NEW c \in Calls, NEW pc \in Pcs, Leave(t, c, pc)
  PROVE  /\ Kept /\ call'[t].pc = pc
         /\ call'[t].id = c.id /\ call'[t].reused = c.reused
         /\ \A u \in Callers \ {t} : call'[u] = call[u]
<1> DEFINE x == call[t].conn
           k == conns[x]
           d == [c EXCEPT !.pc = pc, !.conn = 0]
<1>1. x \in Conns /\ k \in Connections /\ conns \in [Conns -> Connections]
  BY OfCall DEF Conn
<1>2. call' = [call EXCEPT ![t] = d] /\ conns' = [conns EXCEPT ![x] = Closed(k)]  BY DEF Leave
<1>3. Closed(k).asked = k.asked /\ (k.asked # Nobody => Closed(k).up = k.up)
  <2> HIDE DEF k
  <2>1. CASE k.asked = Nobody
    <3>1. Closed(k) = [k EXCEPT !.up = FALSE, !.unread = <<>>]  BY <2>1 DEF Closed
    <3> QED  BY <1>1, <2>1, <3>1, Zenon DEF Connections
  <2>2. CASE k.asked # Nobody
    <3>1. Closed(k) = [k EXCEPT !.unread = <<>>]  BY <2>2 DEF Closed
    <3> QED  BY <1>1, <3>1, Zenon DEF Connections
  <2> QED  BY <2>1, <2>2
<1>4. conns'[x] = Closed(k) /\ \A y \in Conns \ {x} : conns'[y] = conns[y]  BY <1>1, <1>2
<1>5. d \in Calls /\ d.pc = pc /\ d.id = c.id  BY LeftIs
<1>6. d.reused = c.reused  BY Zenon DEF Calls
<1>7. Kept
  <2> HIDE DEF k, x
  <2> SUFFICES ASSUME NEW y \in Conns, Pending(conns'[y])
               PROVE  conns'[y].asked = conns[y].asked /\ conns'[y].up = conns[y].up
    BY DEF Kept
  <2>1. CASE y = x
    <3>1. Closed(k).asked # Nobody  BY <1>4, <2>1 DEF Pending
    <3> QED  BY <1>3, <1>4, <2>1, <3>1 DEF k
  <2>2. CASE y # x  BY <1>4, <2>2
  <2> QED  BY <2>1, <2>2
<1> HIDE DEF d, k
<1> QED  BY <1>2, <1>5, <1>6, <1>7, CallIs DEF d

LEMMA QuietLeave ==
  ASSUME IInv, LInv, NEW t \in Callers, call[t].conn # 0, NEW c \in Calls, NEW pc \in Pcs,
         Leave(t, c, pc), pc \notin {"take", "connect", "send", "head"},
         pc = "broken" => ~c.reused, log' = log
  PROVE  LInv'
<1>1. call'[t].pc = pc /\ call'[t].reused = c.reused /\ Kept  BY LeaveKeeps
<1>2. \A u \in Callers \ {t} : call'[u] = call[u]  BY LeaveKeeps
<1>3. ~Active(call'[t]) /\ (call'[t].pc = "broken" => ~call'[t].reused)  BY <1>1 DEF Active
<1> QED  BY <1>1, <1>2, <1>3, Quiet

LEMMA QuietFail ==
  ASSUME IInv, LInv, NEW t \in Callers, NEW why \in {"broken", "timeout"}, Fail(t, why),
         call[t].conn # 0, why = "broken" => ~call[t].reused, log' = log
  PROVE  LInv'
<1> DEFINE e == [Idle EXCEPT !.id = call[t].id, !.reused = call[t].reused]
<1>1. why \in Pcs  BY DEF Pcs
<1>2. e \in Calls /\ e.reused = call[t].reused
  <2>1. call[t].id \in Nat /\ call[t].reused \in BOOLEAN  BY OfCall, Zenon DEF Calls
  <2>2. e \in Calls  BY <2>1, IdleIs, Zenon DEF Calls
  <2>3. e.reused = call[t].reused  BY IdleIs, Zenon DEF Calls
  <2> QED  BY <2>2, <2>3
<1>3. Leave(t, e, why)  BY DEF Fail
<1> HIDE DEF e
<1> QED  BY <1>1, <1>2, <1>3, QuietLeave

LEMMA QuietTimeOut ==
  ASSUME IInv, LInv, NEW t \in Callers, TimeOut(t)
  PROVE  LInv'
<1>1. log' = log /\ call[t] \in Calls  BY OfCall DEF TimeOut
<1>2. call[t].pc \in {"head", "body", "drain"} => call[t].conn # 0  BY OfCall DEF Good
<1>3. CASE call[t].pc \in {"head", "body"} /\ Fail(t, "timeout")  BY <1>1, <1>2, <1>3, QuietFail
<1>4. CASE At(t, "drain") /\ Leave(t, call[t], "follow")
  <2>1. "follow" \in Pcs  BY DEF Pcs
  <2> QED  BY <1>1, <1>2, <1>4, <2>1, QuietLeave DEF At
<1> QED  BY <1>3, <1>4 DEF TimeOut

LEMMA QuietBody ==
  ASSUME IInv, LInv, NEW t \in Callers, call[t].pc \in {"body", "drain"},
         NEW pc \in {"follow", "whole", "cut", "dropped"}, Leave(t, call[t], pc), log' = log
  PROVE  LInv'
<1>1. call[t] \in Calls /\ call[t].conn # 0  BY OfCall DEF Good
<1>2. pc \in Pcs  BY DEF Pcs
<1> QED  BY <1>1, <1>2, QuietLeave

LEMMA QuietReadEnd ==
  ASSUME IInv, LInv, NEW t \in Callers, ReadEnd(t)
  PROVE  LInv'
<1> DEFINE pc == IF call[t].head.framing = "eof" \/ At(t, "drain") THEN Ends(t) ELSE "cut"
<1>1. call[t].pc \in {"body", "drain"} /\ Leave(t, call[t], pc) /\ log' = log
  BY DEF ReadEnd, Reading
<1>2. pc \in {"follow", "whole", "cut"}  BY DEF Ends
<1> QED  BY <1>1, <1>2, QuietBody

LEMMA QuietDropBody ==
  ASSUME IInv, LInv, NEW t \in Callers, DropBody(t)
  PROVE  LInv'
<1> DEFINE pc == IF At(t, "drain") THEN "follow" ELSE "dropped"
<1>1. call[t].pc \in {"body", "drain"} /\ Leave(t, call[t], pc) /\ log' = log
  BY DEF DropBody, Full, At
<1> QED  BY <1>1, QuietBody

LEMMA QuietTakeIdle ==
  ASSUME IInv, LInv, NEW t \in Callers, TakeIdle(t)
  PROVE  LInv'
<1> DEFINE c == call[t]
<1>1. c \in Calls /\ c.pc = "take" /\ call \in [Callers -> Calls]  BY OfCall DEF TakeIdle, At
<1>2. Kept /\ log' = log  BY DEF TakeIdle, Kept
<1>3. CASE call' = [call EXCEPT ![t] = [@ EXCEPT !.pc = "connect"]]
  <2> DEFINE d == [c EXCEPT !.pc = "connect"]
  <2>1. d.pc = "connect" /\ d.id = c.id  BY <1>1, Zenon DEF Calls
  <2>2. call'[t] = d /\ \A u \in Callers \ {t} : call'[u] = call[u]  BY <1>1, <1>3
  <2> HIDE DEF d
  <2> QED  BY <1>1, <1>2, <2>1, <2>2, Quiet
<1>4. CASE \E x : call' = [call EXCEPT ![t] = [@ EXCEPT !.pc = "send", !.conn = x, !.reused = TRUE]]
  <2> PICK x : call' = [call EXCEPT ![t] = [@ EXCEPT !.pc = "send", !.conn = x, !.reused = TRUE]]
    BY <1>4
  <2> DEFINE d == [c EXCEPT !.pc = "send", !.conn = x, !.reused = TRUE]
  <2>1. d.pc = "send" /\ d.id = c.id  BY <1>1, Zenon DEF Calls
  <2>2. call'[t] = d /\ \A u \in Callers \ {t} : call'[u] = call[u]  BY <1>1
  <2> HIDE DEF d
  <2> QED  BY <1>1, <1>2, <2>1, <2>2, Quiet
<1> QED  BY <1>3, <1>4 DEF TakeIdle

LEMMA QuietConnect ==
  ASSUME IInv, LInv, NEW t \in Callers, Connect(t)
  PROVE  LInv'
<1> DEFINE c == call[t]
<1>1. c \in Calls /\ c.pc = "connect" /\ call \in [Callers -> Calls] /\ log' = log
  BY OfCall DEF Connect, At
<1>2. CASE /\ conns' = [conns EXCEPT ![made'] = [Unmade EXCEPT !.server = call[t].server, !.up = TRUE]]
           /\ call' = [call EXCEPT ![t] = [@ EXCEPT !.pc = "send", !.conn = made', !.reused = FALSE]]
  <2> DEFINE d == [c EXCEPT !.pc = "send", !.conn = made', !.reused = FALSE]
             k == [Unmade EXCEPT !.server = call[t].server, !.up = TRUE]
  <2>1. d.pc = "send" /\ d.id = c.id /\ d.reused = FALSE  BY <1>1, Zenon DEF Calls
  <2>2. call'[t] = d /\ \A u \in Callers \ {t} : call'[u] = call[u]  BY <1>1, <1>2
  <2>3. k.asked = Nobody  BY DEF Unmade
  <2>4. \A x \in Conns : conns'[x] = conns[x] \/ conns'[x] = k  BY <1>2, OfCall
  <2> HIDE DEF d, k
  <2>5. Kept  BY <2>3, <2>4 DEF Kept, Pending
  <2> QED  BY <1>1, <2>1, <2>2, <2>5, Quiet
<1>3. CASE call' = [call EXCEPT ![t] = [Idle EXCEPT !.pc = "refused"]] /\ UNCHANGED conns
  <2> DEFINE d == [Idle EXCEPT !.pc = "refused"]
  <2>1. d.pc = "refused"  BY IdleIs, Zenon DEF Calls
  <2>2. call'[t] = d /\ \A u \in Callers \ {t} : call'[u] = call[u]  BY <1>1, <1>3
  <2> HIDE DEF d
  <2>3. Kept /\ ~Active(call'[t]) /\ call'[t].pc # "broken"  BY <1>3, <2>1, <2>2 DEF Kept, Active
  <2> QED  BY <1>1, <2>2, <2>3, Quiet
<1> QED  BY <1>2, <1>3 DEF Connect

LEMMA ReadKeeps ==
  ASSUME IInv, NEW t \in Callers, call[t].conn # 0, ReadsOn(t)
  PROVE  Kept
<1> DEFINE x == call[t].conn
           k == conns[x]
<1>1. x \in Conns /\ k \in Connections /\ conns \in [Conns -> Connections]
  BY OfCall DEF Conn
<1>2. ReadOff(k).asked = k.asked /\ ReadOff(k).up = k.up
  <2> HIDE DEF k
  <2> QED  BY <1>1, Zenon DEF ReadOff, Connections
<1>3. conns'[x] = ReadOff(k) /\ \A y \in Conns \ {x} : conns'[y] = conns[y]
  BY <1>1 DEF ReadsOn
<1> HIDE DEF k, x
<1> SUFFICES ASSUME NEW y \in Conns
             PROVE  conns'[y].asked = conns[y].asked /\ conns'[y].up = conns[y].up
  BY DEF Kept
<1>4. CASE y = x  BY <1>2, <1>3, <1>4 DEF k
<1>5. CASE y # x  BY <1>3, <1>5
<1> QED  BY <1>4, <1>5

LEMMA QuietInterim ==
  ASSUME IInv, LInv, NEW t \in Callers, Interim(t)
  PROVE  LInv'
<1>1. call[t].conn # 0  BY OfCall DEF Interim, At, Good
<1>2. ReadsOn(t) /\ log' = log /\ call' = call  BY DEF Interim
<1> QED  BY <1>1, <1>2, ReadKeeps, Quiet

LEMMA QuietReadHead ==
  ASSUME IInv, LInv, NEW t \in Callers, ReadHead(t)
  PROVE  LInv'
<1> DEFINE c == call[t]
           item == Head(Conn(t).unread)
           pc == AfterHead(t, item)
           conn == IF pc \in {"body", "drain"} THEN c.conn ELSE 0
           d == [c EXCEPT !.head = item.head, !.of = item.of, !.pc = pc, !.conn = conn]
<1>1. c \in Calls /\ c.conn # 0 /\ call \in [Callers -> Calls]
  BY OfCall DEF ReadHead, At, Good
<1>2. ReadsOn(t) /\ log' = log /\ call' = [call EXCEPT ![t] = d]  BY DEF ReadHead
<1>3. pc \in {"protocol", "whole", "body", "redirects", "follow", "drain"}  BY DEF AfterHead
<1> HIDE DEF item, pc, conn
<1>4. d.pc = pc  BY <1>1, Zenon DEF Calls
<1>5. call'[t] = d /\ \A u \in Callers \ {t} : call'[u] = call[u]  BY <1>1, <1>2
<1> HIDE DEF d
<1>6. ~Active(call'[t]) /\ call'[t].pc # "broken"  BY <1>3, <1>4, <1>5 DEF Active
<1> QED  BY <1>1, <1>2, <1>5, <1>6, ReadKeeps, Quiet

LEMMA QuietReadData ==
  ASSUME IInv, LInv, NEW t \in Callers, ReadData(t)
  PROVE  LInv'
<1>1. call[t].conn # 0 /\ call[t] \in Calls /\ call \in [Callers -> Calls]
  BY OfCall DEF ReadData, Reading, Good
<1>2. ReadsOn(t) /\ log' = log  BY DEF ReadData
<1>3. \E read, conn, pc : /\ pc \in {"body", "drain", "follow", "whole"}
        /\ call' = [call EXCEPT ![t] = [@ EXCEPT !.read = read, !.conn = conn, !.pc = pc]]
  BY DEF ReadData, Reading, Ends
<1> PICK read, conn, pc : /\ pc \in {"body", "drain", "follow", "whole"}
        /\ call' = [call EXCEPT ![t] = [@ EXCEPT !.read = read, !.conn = conn, !.pc = pc]]
  BY <1>3
<1> DEFINE d == [call[t] EXCEPT !.read = read, !.conn = conn, !.pc = pc]
<1>4. d.pc = pc  BY <1>1, Zenon DEF Calls
<1>5. call'[t] = d /\ \A u \in Callers \ {t} : call'[u] = call[u]  BY <1>1
<1> HIDE DEF d
<1>6. ~Active(call'[t]) /\ call'[t].pc # "broken"  BY <1>4, <1>5 DEF Active
<1> QED  BY <1>1, <1>2, <1>5, <1>6, ReadKeeps, Quiet

LEMMA QuietClose ==
  ASSUME IInv, LInv, NEW c \in Conns, Close(c)
  PROVE  LInv'
<1> DEFINE k == conns[c]
<1>1. PICK n \in 0..Len(k.unread) : conns' = [conns EXCEPT ![c] = Cut(k, n)]
  BY DEF Close
<1>2. k \in Connections  BY DEF IInv, TypeOK
<1>3. Cut(k, n).asked = Nobody
  <2> HIDE DEF k
  <2> QED  BY <1>2, Zenon DEF Cut, Connections
<1>4. \A x \in Conns : conns'[x] = conns[x] \/ conns'[x] = Cut(k, n)
  BY <1>1 DEF IInv, TypeOK
<1> HIDE DEF k
<1>5. Kept  BY <1>3, <1>4 DEF Kept, Pending
<1>6. log' = log /\ call' = call  BY DEF Close
<1> QED  BY <1>5, <1>6, Quiet

LEMMA LogAt ==
  ASSUME IInv, NEW i \in 1..Len(log)
  PROVE  /\ log[i].acts \in Nat /\ log[i].lost \in Nat
         /\ LET l == [log EXCEPT ![i].acts = @ + 1] IN
              /\ Len(l) = Len(log) /\ \A j \in 1..Len(log) \ {i} : l[j] = log[j]
              /\ l[i].acts = log[i].acts + 1 /\ l[i].lost = log[i].lost
         /\ LET l == [log EXCEPT ![i].lost = @ + 1] IN
              /\ Len(l) = Len(log) /\ \A j \in 1..Len(log) \ {i} : l[j] = log[j]
              /\ l[i].acts = log[i].acts /\ l[i].lost = log[i].lost + 1
<1> DEFINE e == log[i]
<1>1. log \in Seq(Entries) /\ DOMAIN log = 1..Len(log)  BY LenProperties DEF IInv, TypeOK
<1>2. e \in Entries  BY <1>1, ElementOfSeq
<1>3. e.acts \in Nat /\ e.lost \in Nat  BY <1>2, Zenon DEF Entries
<1>4. ASSUME NEW f \in Entries
      PROVE  LET l == [log EXCEPT ![i] = f] IN
             Len(l) = Len(log) /\ l[i] = f /\ \A j \in 1..Len(log) \ {i} : l[j] = log[j]
  <2>1. [log EXCEPT ![i] = f] \in Seq(Entries) /\ Len([log EXCEPT ![i] = f]) = Len(log)
    BY <1>1, ExceptSeq
  <2> QED  BY <1>1, <2>1
<1>5. ASSUME NEW n \in Nat
      PROVE  /\ [e EXCEPT !.acts = n] \in Entries /\ [e EXCEPT !.acts = n].acts = n
             /\ [e EXCEPT !.acts = n].lost = e.lost
             /\ [e EXCEPT !.lost = n] \in Entries /\ [e EXCEPT !.lost = n].lost = n
             /\ [e EXCEPT !.lost = n].acts = e.acts
  <2> HIDE DEF e
  <2> QED  BY <1>2, Zenon DEF Entries
<1>6. e.acts + 1 \in Nat /\ e.lost + 1 \in Nat  BY <1>3, SMT
<1> DEFINE f == [e EXCEPT !.acts = e.acts + 1]
           g == [e EXCEPT !.lost = e.lost + 1]
<1>7. f \in Entries /\ f.acts = e.acts + 1 /\ f.lost = e.lost  BY <1>5, <1>6
<1>8. g \in Entries /\ g.lost = e.lost + 1 /\ g.acts = e.acts  BY <1>5, <1>6
<1>9. [log EXCEPT ![i].acts = @ + 1] = [log EXCEPT ![i] = f]
      /\ [log EXCEPT ![i].lost = @ + 1] = [log EXCEPT ![i] = g]
  OBVIOUS
<1> HIDE DEF f, g, e
<1>10. log[i].acts \in Nat /\ log[i].lost \in Nat  BY <1>3 DEF e
<1> QED  BY <1>4, <1>7, <1>8, <1>9, <1>10 DEF e

\* An exchange begins.
LEMMA Opens ==
  ASSUME IInv, LInv, NEW t \in Callers, NEW d \in Calls, d.pc = "take", d.id = Len(log) + 1,
         call' = [call EXCEPT ![t] = d], log' = Append(log, [acts |-> 0, lost |-> 0]),
         conns' = conns
  PROVE  LInv'
<1> DEFINE n == Len(log) + 1
<1>1. /\ Len(log) \in Nat /\ Len(log') = n /\ log'[n].acts = 0 /\ log'[n].lost = 0
      /\ \A i \in 1..Len(log) : log'[i] = log[i]
  <2>1. [acts |-> 0, lost |-> 0] \in Entries  BY SMT DEF Entries
  <2> QED  BY <2>1, AppendProperties, LenProperties, SMT DEF IInv, TypeOK
<1>2. call'[t] = d /\ \A u \in Callers \ {t} : call'[u] = call[u]  BY CallIs
<1>3. 1..Len(log') = 1..Len(log) \cup {n} /\ n \notin 1..Len(log)  BY <1>1, SMT
<1>4. Counted'
  <2> SUFFICES ASSUME NEW i \in 1..Len(log')
               PROVE  log'[i].lost <= 1 /\ log'[i].acts <= 1 + log'[i].lost
    BY DEF Counted
  <2>1. CASE i = n  BY <1>1, <2>1, SMT
  <2>2. CASE i # n  BY <1>1, <1>3, <2>2 DEF LInv, Counted
  <2> QED  BY <2>1, <2>2
<1>5. Single'  BY DEF LInv, Single, Pending
<1>6. \A x \in Conns : Pending(conns[x]) => conns[x].asked.id \in 1..Len(log)
  BY DEF LInv, Expected
<1>7. ASSUME NEW x \in Conns  PROVE Expected(x)'
  <2> SUFFICES ASSUME Pending(conns[x])
               PROVE  /\ conns[x].up /\ conns[x].asked.id \in 1..Len(log')
                      /\ log'[conns[x].asked.id].acts <= log'[conns[x].asked.id].lost
    BY DEF Expected, Pending
  <2>1. Expected(x)  BY DEF LInv
  <2> QED  BY <1>1, <1>3, <2>1 DEF Expected
<1>8. \A u \in Callers \ {t} : Active(call[u]) => call[u].id \in 1..Len(log)
  BY DEF LInv, Due
<1>9. Own'
  <2> SUFFICES ASSUME NEW u \in Callers, NEW v \in Callers, Active(call'[u]), Active(call'[v]),
                      call'[u].id = call'[v].id
               PROVE  u = v
    BY DEF Own, Active
  <2>1. \A w \in Callers \ {t} : Active(call'[w]) => call'[w].id # n  BY <1>2, <1>3, <1>8
  <2>2. call'[t].id = n  BY <1>2
  <2>3. CASE u = t \/ v = t  BY <2>1, <2>2, <2>3
  <2>4. CASE u # t /\ v # t  BY <1>2, <2>4 DEF LInv, Own
  <2> QED  BY <2>3, <2>4
<1>10. ASSUME NEW u \in Callers  PROVE Due(u)'
  <2> SUFFICES ASSUME Active(call'[u])
      PROVE  /\ call'[u].id \in 1..Len(log')
             /\ call'[u].pc # "head" => log'[call'[u].id].acts <= log'[call'[u].id].lost
             /\ call'[u].pc = "take" \/ (call'[u].pc # "connect" /\ call'[u].reused)
                  => log'[call'[u].id].lost = 0
             /\ \A x \in Conns : Pending(conns[x]) /\ conns[x].asked.id = call'[u].id
                  => call'[u].pc = "head" /\ x = call'[u].conn
    BY DEF Due, Active, Pending
  <2>1. CASE u = t
    <3>1. call'[u].id = n /\ call'[u].pc = "take"  BY <1>2, <2>1
    <3>2. \A x \in Conns : Pending(conns[x]) => conns[x].asked.id # n  BY <1>3, <1>6
    <3>3. log'[n].acts <= log'[n].lost  BY <1>1, SMT
    <3> QED  BY <1>1, <1>3, <3>1, <3>2, <3>3
  <2>2. CASE u # t
    <3>1. call'[u] = call[u] /\ Due(u)  BY <1>2, <2>2 DEF LInv
    <3>2. call[u].id \in 1..Len(log)  BY <1>8, <2>2, <3>1
    <3> QED  BY <1>1, <1>3, <3>1, <3>2 DEF Due
  <2> QED  BY <2>1, <2>2
<1>11. \A u \in Callers : call'[u].pc = "broken" => ~call'[u].reused
  BY <1>2 DEF LInv
<1> QED  BY <1>4, <1>5, <1>7, <1>9, <1>10, <1>11 DEF LInv

LEMMA ExchangeId ==
  ASSUME NEW c \in Calls, Len(log) + 1 \in Nat
  PROVE  Exchange(c).id = Len(log) + 1
<1> DEFINE n == Len(log) + 1
<1>1. n \in Nat  OBVIOUS
<1> HIDE DEF n
<1>2. Exchange(c) = [c EXCEPT !.pc = "take", !.id = n, !.conn = 0, !.reused = FALSE,
                              !.head = NoHead, !.read = <<>>]
  BY DEF Exchange, n
<1>3. Exchange(c).id = n  BY <1>2, Zenon DEF Calls
<1> QED  BY <1>3 DEF n

LEMMA OpensStart ==
  ASSUME IInv, LInv, NEW t \in Callers, NEW m \in Methods, NEW s \in Servers, Start(t, m, s)
  PROVE  LInv'
<1> DEFINE e == [Idle EXCEPT !.method = m, !.server = s, !.origin = Host[s]]
<1>1. e \in Calls
  <2>1. m \in Verbs /\ s \in Places /\ Host[s] \in Names  BY Values
  <2> QED  BY <2>1, IdleIs, Zenon DEF Calls
<1>2. /\ call' = [call EXCEPT ![t] = Exchange(e)] /\ conns' = conns
      /\ log' = Append(log, [acts |-> 0, lost |-> 0])
  BY DEF Start
<1> HIDE DEF e
<1>3. Len(log) + 1 \in Nat  BY LenProperties, SMT DEF IInv, TypeOK
<1> QED  BY <1>1, <1>2, <1>3, ExchangeIs, ExchangeId, Opens

LEMMA OpensFollow ==
  ASSUME IInv, LInv, NEW t \in Callers, Follow(t)
  PROVE  LInv'
<1> DEFINE c == call[t]
           auth == AuthAfter(c)
           method == IF c.head.redirect = "get" /\ c.method # "HEAD" THEN "GET" ELSE c.method
           e == [c EXCEPT !.followed = @ + 1, !.server = c.head.to, !.auth = auth, !.method = method]
<1>1. c \in Calls /\ c.head.to \in Servers
  <2>1. c \in Calls /\ Good(c, Holding(c, conns)) /\ c.pc = "follow"  BY OfCall DEF Follow, At
  <2> QED  BY <2>1, NetAssumption DEF Good
<1>2. /\ call' = [call EXCEPT ![t] = Exchange(e)] /\ conns' = conns
      /\ log' = Append(log, [acts |-> 0, lost |-> 0])
  BY DEF Follow
<1>3. e \in Calls
  <2>1. c.head.to \in Places /\ method \in Verbs /\ auth \in BOOLEAN /\ c.followed + 1 \in Nat
    <3>1. c.method \in Verbs /\ c.followed \in Nat  BY <1>1, Zenon DEF Calls
    <3>2. auth \in BOOLEAN  BY DEF AuthAfter
    <3> QED  BY <1>1, <3>1, <3>2, Values, SMT
  <2> HIDE DEF auth, method
  <2> QED  BY <1>1, <2>1, Zenon DEF Calls
<1> HIDE DEF e
<1>4. Len(log) + 1 \in Nat  BY LenProperties, SMT DEF IInv, TypeOK
<1> QED  BY <1>2, <1>3, <1>4, ExchangeIs, ExchangeId, Opens

\* A reused connection broke: what was sent on it, no server will act on.
LEMMA Resends ==
  ASSUME IInv, LInv, NEW t \in Callers, Broken(t)
  PROVE  LInv'
<1> DEFINE c == call[t]
           n == c.id
<1>1. c \in Calls /\ c.pc = "head" /\ c.conn # 0 /\ c.conn \in Conns /\ ~conns[c.conn].up
  BY OfCall DEF Broken, At, Good, Conn
<1>2. Active(c) /\ Due(t)  BY <1>1 DEF Active, LInv
<1>3. CASE ~c.reused
  <2>1. n \in 1..Len(log)  BY <1>2 DEF Due
  <2>2. log' = [log EXCEPT ![n].lost = log[n].lost]  BY <1>3 DEF Broken
  <2>3. log' = log
    <3>1. log \in Seq(Entries) /\ log[n] \in Entries  BY <2>1, ElementOfSeq DEF IInv, TypeOK
    <3>2. [log[n] EXCEPT !.lost = log[n].lost] = log[n]
      <4> DEFINE e == log[n]
      <4>1. e \in Entries  BY <3>1
      <4> HIDE DEF e
      <4>2. [e EXCEPT !.lost = e.lost] = e  BY <4>1 DEF Entries
      <4> QED  BY <4>2 DEF e
    <3>3. log' = [log EXCEPT ![n] = log[n]]  BY <2>2, <3>2
    <3> QED  BY <3>1, <3>3
  <2>4. Fail(t, "broken")  BY <1>3 DEF Broken, Retries
  <2> QED  BY <1>1, <1>3, <2>3, <2>4, QuietFail
<1>4. CASE c.reused
  <2>1. /\ n \in 1..Len(log) /\ log[n].lost = 0 /\ log[n].acts <= 1
        /\ \A x \in Conns : Pending(conns[x]) => conns[x].asked.id # n
    <3>1. n \in 1..Len(log) /\ log[n].lost = 0  BY <1>1, <1>2, <1>4 DEF Due
    <3>2. log[n].acts <= 1
      <4>1. log[n].acts <= 1 + log[n].lost  BY <3>1 DEF LInv, Counted
      <4> QED  BY <3>1, <4>1
    <3>3. ASSUME NEW x \in Conns, Pending(conns[x]), conns[x].asked.id = n  PROVE FALSE
      <4>1. x = c.conn  BY <1>2, <3>3 DEF Due
      <4>2. conns[x].up  BY <3>3 DEF LInv, Expected
      <4> QED  BY <1>1, <4>1, <4>2
    <3> QED  BY <3>1, <3>2, <3>3
  <2>2. Leave(t, c, "connect") /\ log' = [log EXCEPT ![n].lost = @ + 1]
    BY <1>4 DEF Broken, Retries
  <2>3. "connect" \in Pcs  BY DEF Pcs
  <2>4. Kept /\ call'[t].pc = "connect" /\ call'[t].id = n  BY <1>1, <2>2, <2>3, LeaveKeeps
  <2>5. \A u \in Callers \ {t} : call'[u] = call[u]  BY <1>1, <2>2, <2>3, LeaveKeeps
  <2>6. /\ Len(log') = Len(log) /\ \A i \in 1..Len(log) \ {n} : log'[i] = log[i]
        /\ log'[n].acts = log[n].acts /\ log'[n].lost = 1
    BY <2>1, <2>2, LogAt
  <2>7. \A x \in Conns : Pending(conns'[x]) =>
          /\ Pending(conns[x]) /\ conns'[x].asked = conns[x].asked /\ conns'[x].up = conns[x].up
          /\ conns[x].asked.id \in 1..Len(log) \ {n}
    <3>1. \A x \in Conns : Pending(conns'[x]) =>
            Pending(conns[x]) /\ conns'[x].asked = conns[x].asked /\ conns'[x].up = conns[x].up
      BY <2>4 DEF Kept, Pending
    <3> QED  BY <2>1, <3>1 DEF LInv, Expected
  <2>8. \A u \in Callers \ {t} : Active(call[u]) => call[u].id \in 1..Len(log) \ {n}
    BY <1>2 DEF LInv, Own, Due
  <2>9. Counted'
    <3> SUFFICES ASSUME NEW i \in 1..Len(log)
                 PROVE  log'[i].lost <= 1 /\ log'[i].acts <= 1 + log'[i].lost
      BY <2>6 DEF Counted
    <3>1. CASE i = n
      <4>1. log[n].acts \in Nat  BY <2>1, LogAt
      <4> QED  BY <2>1, <2>6, <3>1, <4>1, SMT
    <3>2. CASE i # n  BY <2>6, <3>2 DEF LInv, Counted
    <3> QED  BY <3>1, <3>2
  <2>10. Single'
    <3> SUFFICES ASSUME NEW x \in Conns, NEW y \in Conns, Pending(conns'[x]), Pending(conns'[y]),
                        conns'[x].asked.id = conns'[y].asked.id
                 PROVE  x = y
      BY DEF Single, Pending
    <3> QED  BY <2>7 DEF LInv, Single
  <2>11. ASSUME NEW x \in Conns  PROVE Expected(x)'
    <3> SUFFICES ASSUME Pending(conns'[x])
                 PROVE  /\ conns'[x].up /\ conns'[x].asked.id \in 1..Len(log')
                        /\ log'[conns'[x].asked.id].acts <= log'[conns'[x].asked.id].lost
      BY DEF Expected, Pending
    <3>1. Expected(x)  BY DEF LInv
    <3> QED  BY <2>6, <2>7, <3>1 DEF Expected
  <2>12. Own'
    <3> SUFFICES ASSUME NEW u \in Callers, NEW v \in Callers, Active(call'[u]), Active(call'[v]),
                        call'[u].id = call'[v].id
                 PROVE  u = v
      BY DEF Own, Active
    <3>1. \A w \in Callers : Active(call'[w]) => Active(call[w]) /\ call'[w].id = call[w].id
      BY <1>2, <2>4, <2>5
    <3> QED  BY <3>1 DEF LInv, Own
  <2>13. ASSUME NEW u \in Callers  PROVE Due(u)'
    <3> SUFFICES ASSUME Active(call'[u])
        PROVE  /\ call'[u].id \in 1..Len(log')
               /\ call'[u].pc # "head" => log'[call'[u].id].acts <= log'[call'[u].id].lost
               /\ call'[u].pc = "take" \/ (call'[u].pc # "connect" /\ call'[u].reused)
                    => log'[call'[u].id].lost = 0
               /\ \A x \in Conns : Pending(conns'[x]) /\ conns'[x].asked.id = call'[u].id
                    => call'[u].pc = "head" /\ x = call'[u].conn
      BY DEF Due, Active, Pending
    <3>1. CASE u = t
      <4>1. log'[n].acts <= log'[n].lost  BY <2>1, <2>6
      <4> QED  BY <2>1, <2>4, <2>6, <2>7, <3>1, <4>1
    <3>2. CASE u # t
      <4>1. call'[u] = call[u] /\ Due(u) /\ call[u].id \in 1..Len(log) \ {n}
        BY <2>5, <2>8, <3>2 DEF LInv
      <4> QED  BY <2>6, <2>7, <4>1 DEF Due
    <3> QED  BY <3>1, <3>2
  <2>14. \A u \in Callers : call'[u].pc = "broken" => ~call'[u].reused
    BY <2>4, <2>5 DEF LInv
  <2> QED  BY <2>9, <2>10, <2>11, <2>12, <2>13, <2>14 DEF LInv
<1> QED  BY <1>3, <1>4

LEMMA Sends ==
  ASSUME IInv, LInv, NEW t \in Callers, Send(t)
  PROVE  LInv'
<1> DEFINE c == call[t]
           x == c.conn
           k == conns[x]
           r == [id |-> c.id, method |-> c.method, auth |-> c.auth, origin |-> c.origin]
           d == [c EXCEPT !.pc = "head"]
<1>1. c \in Calls /\ c.pc = "send" /\ x # 0 /\ x \in Conns /\ k \in Connections
  BY OfCall DEF Send, At, Good, Conn
<1>2. Active(c) /\ Due(t) /\ log' = log  BY <1>1 DEF Active, LInv, Send
<1>3. d.pc = "head" /\ d.id = c.id /\ d.conn = x /\ d.reused = c.reused
  BY <1>1, Zenon DEF Calls
<1>4. call'[t] = d /\ \A u \in Callers \ {t} : call'[u] = call[u]
  <2>1. call' = [call EXCEPT ![t] = d] /\ call \in [Callers -> Calls]  BY OfCall DEF Send
  <2> QED  BY <2>1
<1>5. r.id = c.id  OBVIOUS
<1>6. \/ conns' = conns
      \/ k.up /\ conns' = [conns EXCEPT ![x] = [k EXCEPT !.asked = r]]
  BY DEF Send, Conn
<1>7. [k EXCEPT !.asked = r].asked = r /\ [k EXCEPT !.asked = r].up = k.up
  <2> HIDE DEF k, r
  <2> QED  BY <1>1, Zenon DEF Connections
<1> HIDE DEF d, r, k
<1>8. \A y \in Conns : Pending(conns'[y]) =>
        \/ Pending(conns[y]) /\ conns'[y].asked = conns[y].asked /\ conns'[y].up = conns[y].up
        \/ y = x /\ conns'[y].up /\ conns'[y].asked.id = c.id
  <2>1. CASE conns' = conns  BY <2>1
  <2>2. CASE k.up /\ conns' = [conns EXCEPT ![x] = [k EXCEPT !.asked = r]]
    <3>1. conns'[x] = [k EXCEPT !.asked = r] /\ \A y \in Conns \ {x} : conns'[y] = conns[y]
      BY <1>1, <2>2, OfCall
    <3> QED  BY <1>5, <1>7, <2>2, <3>1
  <2> QED  BY <1>6, <2>1, <2>2
<1>9. /\ c.id \in 1..Len(log) /\ log[c.id].acts <= log[c.id].lost
      /\ \A y \in Conns : Pending(conns[y]) => conns[y].asked.id # c.id
      /\ c.reused => log[c.id].lost = 0
  BY <1>1, <1>2 DEF Due
<1>10. \A u \in Callers \ {t} : Active(call[u]) => call[u].id # c.id
  BY <1>2 DEF LInv, Own
<1>11. Counted'  BY <1>2 DEF LInv, Counted
<1>12. Single'
  <2> SUFFICES ASSUME NEW y \in Conns, NEW z \in Conns, Pending(conns'[y]), Pending(conns'[z]),
                      conns'[y].asked.id = conns'[z].asked.id
               PROVE  y = z
    BY DEF Single, Pending
  <2> QED  BY <1>8, <1>9 DEF LInv, Single
<1>13. ASSUME NEW y \in Conns  PROVE Expected(y)'
  <2> SUFFICES ASSUME Pending(conns'[y])
               PROVE  /\ conns'[y].up /\ conns'[y].asked.id \in 1..Len(log)
                      /\ log[conns'[y].asked.id].acts <= log[conns'[y].asked.id].lost
    BY <1>2 DEF Expected, Pending
  <2>1. Expected(y)  BY DEF LInv
  <2> QED  BY <1>8, <1>9, <2>1 DEF Expected
<1>14. Own'
  <2> SUFFICES ASSUME NEW u \in Callers, NEW v \in Callers, Active(call'[u]), Active(call'[v]),
                      call'[u].id = call'[v].id
               PROVE  u = v
    BY DEF Own, Active
  <2>1. \A w \in Callers : Active(call'[w]) => Active(call[w]) /\ call'[w].id = call[w].id
    BY <1>2, <1>3, <1>4
  <2> QED  BY <2>1 DEF LInv, Own
<1>15. ASSUME NEW u \in Callers  PROVE Due(u)'
  <2> SUFFICES ASSUME Active(call'[u])
      PROVE  /\ call'[u].id \in 1..Len(log)
             /\ call'[u].pc # "head" => log[call'[u].id].acts <= log[call'[u].id].lost
             /\ call'[u].pc = "take" \/ (call'[u].pc # "connect" /\ call'[u].reused)
                  => log[call'[u].id].lost = 0
             /\ \A y \in Conns : Pending(conns'[y]) /\ conns'[y].asked.id = call'[u].id
                  => call'[u].pc = "head" /\ y = call'[u].conn
    BY <1>2 DEF Due, Active, Pending
  <2>1. CASE u = t  BY <1>3, <1>4, <1>8, <1>9, <2>1
  <2>2. CASE u # t
    <3>1. call'[u] = call[u] /\ Due(u) /\ call[u].id # c.id  BY <1>4, <1>10, <2>2 DEF LInv
    <3> QED  BY <1>8, <3>1 DEF Due
  <2> QED  BY <2>1, <2>2
<1>16. \A u \in Callers : call'[u].pc = "broken" => ~call'[u].reused
  BY <1>3, <1>4 DEF LInv
<1> QED  BY <1>11, <1>12, <1>13, <1>14, <1>15, <1>16 DEF LInv

LEMMA Acts ==
  ASSUME IInv, LInv, NEW x \in Conns, NEW a \in Answers, Act(x, a)
  PROVE  LInv'
<1> DEFINE k == conns[x]
           n == k.asked.id
<1>1. Pending(k) /\ k \in Connections  BY DEF Act, Pending, IInv, TypeOK
<1>2. n \in 1..Len(log) /\ log[n].acts <= log[n].lost  BY <1>1 DEF LInv, Expected
<1>3. /\ conns' = [conns EXCEPT ![x] = Answered(k, a)] /\ call' = call
      /\ log' = [log EXCEPT ![n].acts = @ + 1]
  BY DEF Act
<1>4. Answered(k, a).asked = Nobody
  <2> DEFINE u == k.unread \o Wire(k.asked.method, k.asked.id, a)
             up == a.keep /\ (a.framing # "eof" \/ k.asked.method = "HEAD")
  <2>1. Answered(k, a) = [k EXCEPT !.unread = u, !.asked = Nobody, !.up = up]  BY DEF Answered
  <2> HIDE DEF u, up, k
  <2> QED  BY <1>1, <2>1, Zenon DEF Connections
<1>5. conns'[x] = Answered(k, a) /\ \A y \in Conns \ {x} : conns'[y] = conns[y]
  BY <1>3 DEF IInv, TypeOK
<1>6. /\ Len(log') = Len(log) /\ \A i \in 1..Len(log) \ {n} : log'[i] = log[i]
      /\ log'[n].acts = log[n].acts + 1 /\ log'[n].lost = log[n].lost
      /\ log[n].acts \in Nat /\ log[n].lost \in Nat
  BY <1>2, <1>3, LogAt
<1>7. \A y \in Conns : Pending(conns'[y]) =>
        Pending(conns[y]) /\ conns'[y] = conns[y] /\ conns[y].asked.id # n
  <2> SUFFICES ASSUME NEW y \in Conns, Pending(conns'[y])
               PROVE  Pending(conns[y]) /\ conns'[y] = conns[y] /\ conns[y].asked.id # n
    OBVIOUS
  <2>1. y # x  BY <1>4, <1>5 DEF Pending
  <2> QED  BY <1>1, <1>5, <2>1 DEF LInv, Single
<1> HIDE DEF k, n
<1>8. Counted'
  <2> SUFFICES ASSUME NEW i \in 1..Len(log)
               PROVE  log'[i].lost <= 1 /\ log'[i].acts <= 1 + log'[i].lost
    BY <1>6 DEF Counted
  <2>1. CASE i = n
    <3>1. log[n].lost <= 1  BY <1>2 DEF LInv, Counted
    <3> QED  BY <1>2, <1>6, <2>1, <3>1, SMT
  <2>2. CASE i # n  BY <1>6, <2>2 DEF LInv, Counted
  <2> QED  BY <2>1, <2>2
<1>9. Single'
  <2> SUFFICES ASSUME NEW y \in Conns, NEW z \in Conns, Pending(conns'[y]), Pending(conns'[z]),
                      conns'[y].asked.id = conns'[z].asked.id
               PROVE  y = z
    BY DEF Single, Pending
  <2> QED  BY <1>7 DEF LInv, Single
<1>10. ASSUME NEW y \in Conns  PROVE Expected(y)'
  <2> SUFFICES ASSUME Pending(conns'[y])
               PROVE  /\ conns'[y].up /\ conns'[y].asked.id \in 1..Len(log')
                      /\ log'[conns'[y].asked.id].acts <= log'[conns'[y].asked.id].lost
    BY DEF Expected, Pending
  <2>1. Expected(y)  BY DEF LInv
  <2> QED  BY <1>6, <1>7, <2>1 DEF Expected
<1>11. Own'  BY <1>3 DEF LInv, Own, Active
<1>12. ASSUME NEW u \in Callers  PROVE Due(u)'
  <2> SUFFICES ASSUME Active(call[u])
      PROVE  /\ call[u].id \in 1..Len(log')
             /\ call[u].pc # "head" => log'[call[u].id].acts <= log'[call[u].id].lost
             /\ call[u].pc = "take" \/ (call[u].pc # "connect" /\ call[u].reused)
                  => log'[call[u].id].lost = 0
             /\ \A y \in Conns : Pending(conns'[y]) /\ conns'[y].asked.id = call[u].id
                  => call[u].pc = "head" /\ y = call[u].conn
    BY <1>3 DEF Due, Active, Pending
  <2>1. Due(u)  BY DEF LInv
  <2>2. CASE call[u].id = n
    <3>1. call[u].pc = "head"  BY <1>1, <2>1, <2>2 DEF Due, n, k
    <3> QED  BY <1>6, <1>7, <2>1, <2>2, <3>1 DEF Due
  <2>3. CASE call[u].id # n  BY <1>6, <1>7, <2>1, <2>3 DEF Due
  <2> QED  BY <2>2, <2>3
<1>13. \A u \in Callers : call'[u].pc = "broken" => ~call'[u].reused  BY <1>3 DEF LInv
<1> QED  BY <1>8, <1>9, <1>10, <1>11, <1>12, <1>13 DEF LInv

LEMMA CountStarts == Init => LInv
<1> SUFFICES ASSUME Init  PROVE LInv
  OBVIOUS
<1>1. /\ log = <<>> /\ \A t \in Callers : call[t].pc = "ready"
      /\ \A x \in Conns : conns[x].asked = Nobody
  BY DEF Init, Idle, Unmade
<1>2. Counted  BY <1>1 DEF Counted
<1> QED  BY <1>1, <1>2 DEF LInv, Single, Own, Expected, Due, Pending, Active

LEMMA CountSteps == IInv /\ LInv /\ [Next]_vars => LInv'
<1> SUFFICES ASSUME IInv, LInv, [Next]_vars  PROVE LInv'
  OBVIOUS
<1>1. CASE UNCHANGED vars
  BY <1>1 DEF vars, LInv, Counted, Single, Own, Expected, Due, Pending, Active
<1>2. ASSUME NEW c \in Conns, Close(c)  PROVE LInv'  BY <1>2, QuietClose
<1>3. ASSUME NEW c \in Conns, NEW a \in Answers, Act(c, a)  PROVE LInv'  BY <1>3, Acts
<1>4. ASSUME NEW t \in Callers, NEW m \in Methods, NEW s \in Servers, Start(t, m, s)  PROVE LInv'
  BY <1>4, OpensStart
<1>5. ASSUME NEW t \in Callers, TakeIdle(t)  PROVE LInv'  BY <1>5, QuietTakeIdle
<1>6. ASSUME NEW t \in Callers, Connect(t)  PROVE LInv'  BY <1>6, QuietConnect
<1>7. ASSUME NEW t \in Callers, Send(t)  PROVE LInv'  BY <1>7, Sends
<1>8. ASSUME NEW t \in Callers, Broken(t)  PROVE LInv'  BY <1>8, Resends
<1>9. ASSUME NEW t \in Callers, Interim(t)  PROVE LInv'  BY <1>9, QuietInterim
<1>10. ASSUME NEW t \in Callers, ReadHead(t)  PROVE LInv'  BY <1>10, QuietReadHead
<1>11. ASSUME NEW t \in Callers, TimeOut(t)  PROVE LInv'  BY <1>11, QuietTimeOut
<1>12. ASSUME NEW t \in Callers, ReadData(t)  PROVE LInv'  BY <1>12, QuietReadData
<1>13. ASSUME NEW t \in Callers, ReadEnd(t)  PROVE LInv'  BY <1>13, QuietReadEnd
<1>14. ASSUME NEW t \in Callers, DropBody(t)  PROVE LInv'  BY <1>14, QuietDropBody
<1>15. ASSUME NEW t \in Callers, Follow(t)  PROVE LInv'  BY <1>15, OpensFollow
<1> QED
  BY <1>1, <1>2, <1>3, <1>4, <1>5, <1>6, <1>7, <1>8, <1>9, <1>10, <1>11, <1>12, <1>13, <1>14,
     <1>15 DEF Next

-----------------------------------------------------------------------------
(* The theorems *)

\* Whoever shares a connection before, beside and after a call, and however the
\* servers fail: a response is the server's answer to that very request (run
\* and exchange in mod.rs, Body in wire.rs).
THEOREM OwnAnswers == Spec => []OwnAnswer
<1>1. IInv => OwnAnswer
  <2> SUFFICES ASSUME IInv, NEW t \in Callers
               PROVE  LET c == call[t] IN
                      /\ c.pc # "protocol"
                      /\ c.pc \in {"body", "drain", "follow", "whole", "cut", "dropped"} =>
                           c.of = c.id /\ Numbered(c)
                      /\ c.pc = "whole" /\ c.head.framing # "eof" /\ c.method # "HEAD"
                           => Len(c.read) = c.head.len
    BY DEF OwnAnswer, Numbered
  <2> QED  BY OfCall DEF Good
<1> QED  BY <1>1, Always, PTL

\* A server acts on a request once, and once more only after the reused
\* connection that it was first sent on broke (exchange in mod.rs).
THEOREM Retried == Spec => []RetriedOnce
<1>1. IInv /\ LInv => RetriedOnce
  <2> SUFFICES ASSUME IInv, LInv  PROVE RetriedOnce
    OBVIOUS
  <2>1. DOMAIN log = 1..Len(log)  BY LenProperties DEF IInv, TypeOK
  <2> QED  BY <2>1 DEF LInv, Counted, RetriedOnce, At
<1> QED  BY <1>1, Always, CountStarts, CountSteps, PTL DEF Spec

\* The credentials of a call reach no host but the one its caller named (run in
\* mod.rs).
THEOREM Credentials == Spec => []CredentialsStay
<1>1. IInv => CredentialsStay  BY DEF IInv, Honest, CredentialsStay
<1> QED  BY <1>1, Always, PTL
=============================================================================
