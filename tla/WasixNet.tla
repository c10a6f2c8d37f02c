------------------------------ MODULE WasixNet ------------------------------
(***************************************************************************)
(* The HTTP/1.1 client of wasix-net: an Agent whose clones share a pool of *)
(* kept-alive connections, the exchange of one request for a response head *)
(* (with its retry on a fresh connection), the redirects it follows, and   *)
(* the body that hands its connection back once it is read to the end.     *)
(*                                                                         *)
(* The servers are external and conform to HTTP/1.1: one answer to each    *)
(* request, in order, nothing else on the connection.  They may close it   *)
(* or lose it at any moment.  A connection is open on the client's side as *)
(* long as the pool or a call has it.                                      *)
(***************************************************************************)
EXTENDS Naturals, Sequences

CONSTANTS Callers,  \* threads, each with a clone of the agent
          Servers, Host, \* the servers (host and port) and each one's host
          Methods,  \* those the callers use
          Answers,  \* what servers answer: [redirect : "none", "get" (301-303)
                    \* or "same" (307, 308), to, framing, len, keep, interim]
          MaxIdle,  \* MAX_IDLE
          MaxRedirects, \* config.redirects
          DrainMax, \* what is read of a redirect's body, in pieces
          MaxConns, MaxExchanges \* bounds

Framings == {"length", "chunked", "eof"}
ASSUME NetAssumption ==
  /\ Host \in [Servers -> STRING]
  /\ Methods \subseteq {"GET", "HEAD", "POST"}
  /\ \A a \in Answers : /\ a.redirect \in {"none", "get", "same"}
                        /\ a.redirect # "none" => a.to \in Servers
                        /\ a.framing \in Framings /\ a.len \in Nat
                        /\ a.keep \in BOOLEAN /\ a.interim \in BOOLEAN
  /\ {MaxIdle, DrainMax, MaxConns, MaxExchanges} \subseteq Nat \ {0}
  /\ MaxRedirects \in Nat

VARIABLES
  pool,  \* the idle connections, the one returned last at the end
  made,  \* how many connections were made
  conns, \* each one's server, whether the server's end is up, the request the
         \* server has not acted on yet, if any, and what the client has not
         \* read yet of the answers
  call,  \* each caller's call
  log    \* per exchange, how often a server acted on its request and how often
         \* it found a reused connection broken
vars == <<pool, made, conns, call, log>>

Nobody == [id |-> 0]
NoHead == [redirect |-> "none", framing |-> "none"]
Conns == 1..MaxConns
Unmade == [server |-> "none", up |-> FALSE, asked |-> Nobody, unread |-> <<>>]
Idle == [pc |-> "ready", id |-> 0, method |-> "none", server |-> "none",
         auth |-> TRUE, origin |-> "none", followed |-> 0, conn |-> 0,
         reused |-> FALSE, head |-> NoHead, of |-> 0, read |-> <<>>]

Init ==
  /\ pool = <<>> /\ made = 0 /\ conns = [c \in Conns |-> Unmade] /\ log = <<>>
  /\ call = [t \in Callers |-> Idle]

At(t, pc) == call[t].pc = pc
Conn(t) == conns[call[t].conn]
\* What is on its way to an end that the client has closed is lost.
Closed(conn) ==
  IF conn.asked = Nobody THEN [conn EXCEPT !.up = FALSE, !.unread = <<>>]
                         ELSE [conn EXCEPT !.unread = <<>>]
\* The call goes on, or ends, without its connection.
Leave(t, c, pc) ==
  /\ call' = [call EXCEPT ![t] = [c EXCEPT !.pc = pc, !.conn = 0]]
  /\ conns' = [conns EXCEPT ![call[t].conn] = Closed(@)]
Fail(t, why) == Leave(t, [Idle EXCEPT !.id = call[t].id, !.reused = call[t].reused], why)
\* One request of a call: the first, or one that a redirect asks for.
Exchange(c) == [c EXCEPT !.pc = "take", !.id = Len(log) + 1, !.conn = 0,
                         !.reused = FALSE, !.head = NoHead, !.read = <<>>]

-----------------------------------------------------------------------------
(* The servers *)

\* What an answer puts on the connection.
Item(part, id, n, a) == [part |-> part, of |-> id, n |-> n, head |-> a]
Part(id, a, j) ==
  IF j = 0 THEN Item("interim", id, 0, NoHead)
  ELSE IF j = 1 THEN Item("head", id, 0, a)
  ELSE IF j <= a.len + 1 THEN Item("data", id, j - 1, NoHead)
  ELSE Item("end", id, 0, NoHead)
LastPart(method, a) ==
  IF method = "HEAD" THEN 1 ELSE IF a.framing = "chunked" THEN a.len + 2 ELSE a.len + 1
Wire(method, id, a) ==
  IF a.interim THEN [i \in 1..(LastPart(method, a) + 1) |-> Part(id, a, i - 1)]
               ELSE [i \in 1..LastPart(method, a) |-> Part(id, a, i)]

\* A server acts on the request it was sent, answers it, and closes the
\* connection after an answer that says so or that ends with it.
Answered(conn, a) ==
  LET r == conn.asked IN
  [conn EXCEPT !.unread = @ \o Wire(r.method, r.id, a), !.asked = Nobody,
               !.up = a.keep /\ (a.framing # "eof" \/ r.method = "HEAD")]
Act(c, a) ==
  /\ conns[c].up /\ conns[c].asked # Nobody
  /\ conns' = [conns EXCEPT ![c] = Answered(@, a)]
  /\ log' = [log EXCEPT ![conns[c].asked.id].acts = @ + 1]
  /\ UNCHANGED <<pool, made, call>>

\* The connection is closed or lost, with some of what is on its way.
Held(c) == (\E i \in DOMAIN pool : pool[i] = c) \/ \E t \in Callers : call[t].conn = c
Cut(conn, k) ==
  [conn EXCEPT !.unread = SubSeq(@, 1, k), !.up = FALSE, !.asked = Nobody]
Close(c) ==
  /\ Held(c) /\ (conns[c].up \/ conns[c].unread # <<>>)
  /\ \E k \in 0..Len(conns[c].unread) :
       conns' = [conns EXCEPT ![c] = Cut(@, k)]
  /\ UNCHANGED <<pool, made, call, log>>

-----------------------------------------------------------------------------
(* run() and exchange() *)

\* Every call carries credentials.
Start(t, m, s) ==
  /\ call[t].pc \notin {"take", "connect", "send", "head", "body", "drain", "follow"}
  /\ Len(log) < MaxExchanges
  /\ call' = [call EXCEPT ![t] = Exchange(
       [Idle EXCEPT !.method = m, !.server = s, !.origin = Host[s]])]
  /\ log' = Append(log, [acts |-> 0, lost |-> 0])
  /\ UNCHANGED <<pool, made, conns>>

\* take_idle: the one of its key that was returned last.  (Mutant: it stays in
\* the pool.)
OfKey(s) == {i \in DOMAIN pool : conns[pool[i]].server = s}
StillThere(i) == pool
Taken(i) == SubSeq(pool, 1, i - 1) \o SubSeq(pool, i + 1, Len(pool))
TakeIdle(t) ==
  /\ At(t, "take")
  /\ \/ /\ OfKey(call[t].server) = {}
        /\ call' = [call EXCEPT ![t] = [@ EXCEPT !.pc = "connect"]]
        /\ UNCHANGED pool
     \/ \E i \in OfKey(call[t].server) :
          /\ \A j \in OfKey(call[t].server) : j <= i
          /\ pool' = Taken(i)
          /\ call' = [call EXCEPT ![t] =
               [@ EXCEPT !.pc = "send", !.conn = pool[i], !.reused = TRUE]]
  /\ UNCHANGED <<made, conns, log>>

Connect(t) ==
  /\ At(t, "connect")
  /\ \/ /\ made < MaxConns
        /\ made' = made + 1
        /\ conns' = [conns EXCEPT ![made'] = [Unmade EXCEPT !.server = call[t].server, !.up = TRUE]]
        /\ call' = [call EXCEPT ![t] =
             [@ EXCEPT !.pc = "send", !.conn = made', !.reused = FALSE]]
     \/ /\ call' = [call EXCEPT ![t] = [Idle EXCEPT !.pc = "refused"]]
        /\ UNCHANGED <<made, conns>>
  /\ UNCHANGED <<pool, log>>

\* The request is written; what is written to a connection the server has
\* closed is lost, and the loss is noticed here or when the head is read.
Send(t) ==
  /\ At(t, "send")
  /\ call' = [call EXCEPT ![t] = [@ EXCEPT !.pc = "head"]]
  /\ conns' = IF Conn(t).up
       THEN [conns EXCEPT ![call[t].conn] =
              [@ EXCEPT !.asked = [id |-> call[t].id, method |-> call[t].method,
                                   auth |-> call[t].auth, origin |-> call[t].origin]]]
       ELSE conns
  /\ UNCHANGED <<pool, made, log>>

\* The connection broke before the head was read: once more, on a fresh
\* connection, if this one was reused.  (Mutant: on any.)
RetriesAnyway(c) == c.conn # 0
Retries(c) == c.reused
Broken(t) ==
  /\ At(t, "head") /\ Conn(t).unread = <<>> /\ ~Conn(t).up
  /\ IF Retries(call[t]) THEN Leave(t, call[t], "connect") ELSE Fail(t, "broken")
  /\ log' = [log EXCEPT ![call[t].id].lost = IF call[t].reused THEN @ + 1 ELSE @]
  /\ UNCHANGED <<pool, made>>

\* Body::finish: a connection that is kept alive goes to the pool, in place of
\* the oldest when that is full.  Its BufReader is empty: the server sent nothing
\* more.
Pooled(c) == Append(IF Len(pool) = MaxIdle THEN Tail(pool) ELSE pool, c)
Finished(t, a) ==
  IF a.keep /\ (a.framing # "eof" \/ call[t].method = "HEAD") THEN Pooled(call[t].conn) ELSE pool

\* The next of what is unread is read.
ReadOff(conn) == [conn EXCEPT !.unread = Tail(@)]
ReadsOn(t) == conns' = [conns EXCEPT ![call[t].conn] = ReadOff(@)]

\* read_head: interim answers are skipped.
Interim(t) ==
  /\ At(t, "head") /\ Conn(t).unread # <<>> /\ Head(Conn(t).unread).part = "interim"
  /\ ReadsOn(t)
  /\ UNCHANGED <<pool, made, call, log>>

\* The head, and Body::new, which is done at once when there is no body.
NoBody(t, a) == call[t].method = "HEAD" \/ (a.framing = "length" /\ a.len = 0)
Follows(a) == a.redirect # "none" /\ MaxRedirects > 0
AfterHead(t, item) == LET a == item.head IN
  IF item.part # "head" THEN "protocol"
  ELSE IF ~Follows(a) THEN IF NoBody(t, a) THEN "whole" ELSE "body"
  ELSE IF call[t].followed = MaxRedirects THEN "redirects"
  ELSE IF NoBody(t, a) THEN "follow" ELSE "drain"
ReadHead(t) ==
  LET item == Head(Conn(t).unread)
      a == item.head
      pc == AfterHead(t, item) IN
  /\ At(t, "head") /\ Conn(t).unread # <<>> /\ item.part # "interim"
  /\ ReadsOn(t)
  /\ call' = [call EXCEPT ![t] =
       [@ EXCEPT !.head = a, !.of = item.of, !.pc = pc,
                 !.conn = IF pc \in {"body", "drain"} THEN call[t].conn ELSE 0]]
  /\ pool' = IF item.part = "head" /\ NoBody(t, a) THEN Finished(t, a) ELSE pool
  /\ UNCHANGED <<made, log>>

\* Nothing came before the deadline or the read timeout.
TimeOut(t) ==
  /\ \/ call[t].pc \in {"head", "body"} /\ Fail(t, "timeout")
     \/ At(t, "drain") /\ Leave(t, call[t], "follow")
  /\ UNCHANGED <<pool, made, log>>

-----------------------------------------------------------------------------
(* Body::read, by the caller or by run() for a redirect *)

Reading(t) == call[t].pc \in {"body", "drain"}
\* run() reads this much of a redirect's body and drops the rest.
Full(t) == At(t, "drain") /\ Len(call[t].read) >= DrainMax
Ends(t) == IF At(t, "drain") THEN "follow" ELSE "whole"

ReadData(t) ==
  LET item == Head(Conn(t).unread)
      a == call[t].head
      end == a.framing = "chunked" /\ item.part = "end"
      read == IF end THEN call[t].read ELSE Append(call[t].read, <<item.of, item.n>>)
      last == end \/ (a.framing = "length" /\ Len(read) = a.len) IN
  /\ Reading(t) /\ ~Full(t) /\ Conn(t).unread # <<>>
  /\ ReadsOn(t)
  /\ call' = [call EXCEPT ![t] =
       [@ EXCEPT !.read = read, !.conn = IF last THEN 0 ELSE call[t].conn,
                 !.pc = IF last THEN Ends(t) ELSE call[t].pc]]
  /\ pool' = IF last THEN Finished(t, a) ELSE pool
  /\ UNCHANGED <<made, log>>

\* The end of the connection: the end of a body that has no other, and an error
\* in the others.
ReadEnd(t) ==
  LET eof == call[t].head.framing = "eof" IN
  /\ Reading(t) /\ ~Full(t) /\ Conn(t).unread = <<>> /\ ~Conn(t).up
  /\ Leave(t, call[t], IF eof \/ At(t, "drain") THEN Ends(t) ELSE "cut")
  /\ pool' = IF eof THEN Finished(t, call[t].head) ELSE pool
  /\ UNCHANGED <<made, log>>

\* The caller drops the body, or run() has read enough of it: the connection
\* closes with it.
DropBody(t) ==
  /\ At(t, "body") \/ Full(t)
  /\ Leave(t, call[t], IF At(t, "drain") THEN "follow" ELSE "dropped")
  /\ UNCHANGED <<pool, made, log>>

\* The redirect: a 301, 302 or 303 makes a GET of anything but GET and HEAD,
\* and what identifies the caller stays with the host.
\* (Mutant: it is sent along.)
AuthAlways(c) == c.auth
AuthAfter(c) == c.auth /\ Host[c.head.to] = Host[c.server]
Follow(t) ==
  LET c == call[t] IN
  /\ At(t, "follow") /\ Len(log) < MaxExchanges
  /\ call' = [call EXCEPT ![t] = Exchange(
       [c EXCEPT !.followed = @ + 1, !.server = c.head.to, !.auth = AuthAfter(c),
                 !.method = IF c.head.redirect = "get" /\ c.method # "HEAD" THEN "GET"
                            ELSE c.method])]
  /\ log' = Append(log, [acts |-> 0, lost |-> 0])
  /\ UNCHANGED <<pool, made, conns>>

Next ==
  \/ \E c \in Conns : Close(c) \/ \E a \in Answers : Act(c, a)
  \/ \E t \in Callers :
       \/ \E m \in Methods, s \in Servers : Start(t, m, s)
       \/ TakeIdle(t) \/ Connect(t) \/ Send(t) \/ Broken(t) \/ Interim(t) \/ ReadHead(t)
       \/ TimeOut(t) \/ ReadData(t) \/ ReadEnd(t) \/ DropBody(t) \/ Follow(t)

Spec == Init /\ [][Next]_vars

-----------------------------------------------------------------------------
\* Whatever calls share a connection before, beside and after it, and however
\* they ended, a response is the server's answer to that very request: its
\* head, then its body from the start without a gap, and whole when the body
\* reports its end unless the connection's end is what ends it; and a
\* conforming server is never taken for one that is not.
OwnAnswer ==
  \A t \in Callers : LET c == call[t] IN
    /\ c.pc # "protocol"
    /\ c.pc \in {"body", "drain", "follow", "whole", "cut", "dropped"} =>
         /\ c.of = c.id
         /\ c.read = [n \in 1..Len(c.read) |-> <<c.id, n>>]
    /\ c.pc = "whole" /\ c.head.framing # "eof" /\ c.method # "HEAD"
         => Len(c.read) = c.head.len

\* A server acts on a request once, and at most once more when the connection
\* it was first sent on had been reused and broke; and a call fails for a
\* broken connection only if that was a fresh one (mod.rs:24).
RetriedOnce ==
  /\ \A i \in DOMAIN log : log[i].lost <= 1 /\ log[i].acts <= 1 + log[i].lost
  /\ \A t \in Callers : At(t, "broken") => ~call[t].reused

\* The credentials of a call reach no host but the one its caller named,
\* through any chain of redirects and over any pooled connection (mod.rs:22).
CredentialsStay ==
  \A c \in Conns : LET r == conns[c].asked IN
    r # Nobody /\ r.auth => Host[conns[c].server] = r.origin
=============================================================================
