------------------------------ MODULE TlsSelect ------------------------------
(***************************************************************************)
(* One server session made with TLS_SERVER_SELECT, from its creation to    *)
(* the end of its handshake: the input and output buffers, the gate that   *)
(* reads the client's hello out of the input buffer without consuming it   *)
(* (hello_assemble, hello_parse), the caller's tls_server_select or        *)
(* tls_server_refuse, and the callback that compares what Mbed TLS         *)
(* negotiated with what the caller saw and chose.                          *)
(*                                                                         *)
(* Bytes are counted, not stored: a client is a stream of records, given   *)
(* by their type and body length, that carry one handshake message, given  *)
(* by its type, length and extensions.  Mbed TLS is external: it takes any *)
(* number of buffered bytes, may read any hello out of them (its parser is *)
(* not the engine's, and a HelloRetryRequest brings a second one) and may  *)
(* fail at any point.                                                      *)
(***************************************************************************)
EXTENDS Integers, Sequences, FiniteSets, SequencesExt, FiniteSetsExt

CONSTANTS Streams,   \* the client streams considered
          Names,     \* host names of an SNI extension
          Protos,    \* names of an ALPN extension
          NulProtos, \* the ones with a NUL byte in them
          None,      \* no name, no protocol, no error
          RecHdr,    \* bytes of a record header (5)
          MsgHdr,    \* bytes of a handshake message header (4)
          BodyMax,   \* the longest record body (16384)
          HelloMax,  \* HELLO_MAX
          InCap,     \* IN_CAP
          OutCap,    \* OUT_CAP
          AlertLen,  \* bytes of an alert record (7)
          TailMax    \* bound on the bytes a client sends after its stream

\* A record of the stream; what one extension of the hello says.  A message
\* is [type, len, fields (whether what precedes the extensions is well
\* formed), exts], a stream [recs, msg].
Ext == [type : {"sni"}, name : Names \cup {None}]
       \cup [type : {"alpn"}, protos : SUBSET Protos \ {{}}]
       \cup [type : {"other", "overrun", "bad_sni", "long_sni", "bad_alpn"}]
Record  == [type : {"handshake", "other"}, tls : BOOLEAN, body : Nat]

\* The alerts a refusal may send.
Alerts == {"unexpected_message", "decode_error", "protocol_version", "record_overflow",
           "illegal_parameter", "unrecognized_name", "internal_error",
           "handshake_failure", "access_denied", "no_application_protocol"}

ASSUME SelectAssumption ==
  /\ {RecHdr, MsgHdr, BodyMax, HelloMax, InCap, OutCap, AlertLen, TailMax} \subseteq Nat
  /\ HelloMax < InCap
  /\ AlertLen <= OutCap
  /\ 0 < MsgHdr
  /\ None \notin Names \cup Protos \cup Alerts /\ NulProtos \subseteq Protos
  /\ \A x \in Streams : /\ x.recs \in Seq(Record) /\ x.msg.exts \in Seq(Ext)
                       /\ x.msg.len \in Nat /\ x.msg.len >= MsgHdr

VARIABLES
  stream,     \* the client's bytes
  fed,        \* how many of them tls_feed has taken
  inLen,      \* session.in_len
  inEof,      \* session.in_eof
  outLen,     \* session.out_len
  select,     \* session.select
  refused,    \* session.refused
  sni,        \* session.sni, None when sni_len is 0
  clientAlpn, \* session.client_alpn as a set
  leaf,       \* session.leaf: "none", or one with a chain
  alpn,       \* session.alpn[0]
  ret,        \* what the last call returned, "ok" for a count of bytes
  alerts,     \* the alerts refuse() queued
  hs,         \* Mbed TLS's handshake: "hello", "reply", "over" or "failed"
  mbedSent,   \* whether Mbed TLS has put anything into the output buffer
  mbedPend,   \* whether it has more to put there
  agreed      \* the SNI and ALPN that passed the callback, None before

gateVars == <<select, refused, sni, clientAlpn, alerts>>
mbedVars == <<hs, mbedSent, mbedPend, agreed>>
selectVars == <<stream, fed, inLen, inEof, outLen, gateVars, leaf, alpn, ret, mbedVars>>

\* alert_error.
AlertError(a) ==
  IF a \in {"unrecognized_name", "no_application_protocol", "decode_error", "illegal_parameter",
            "unexpected_message", "protocol_version", "internal_error"}
  THEN a ELSE "handshake_failure"

\* The alerts tls_server_refuse takes.
CallerAlerts == {"handshake_failure", "access_denied", "internal_error", "unrecognized_name",
                 "no_application_protocol"}

Errors == Alerts \cup {"badarg", "conn_eof", "mbed"}

-----------------------------------------------------------------------------
(* hello_assemble, on the first n bytes of a client's stream.              *)

\* The body bytes and the wire bytes of the first i records.
Bodies(recs) ==
  LET sum[i \in 0..Len(recs)] == IF i = 0 THEN 0 ELSE sum[i - 1] + recs[i].body IN sum
BodyOf(recs, i) == Bodies(recs)[i]
WireOf(recs, i) == BodyOf(recs, i) + RecHdr * i

\* The message after i records: unreadable, whole, or the next record decides.
MessageAt(x, i) ==
  LET have == BodyOf(x.recs, i)
  IN  IF have < MsgHdr THEN "next"
      ELSE IF x.msg.type # "client_hello" THEN "unexpected_message"
      ELSE IF x.msg.len > HelloMax THEN "decode_error"
      ELSE IF have >= x.msg.len THEN "whole"
      ELSE "next"

\* The record after the first i, as far as n bytes show it.
RecordAt(x, n, i) ==
  LET left == n - WireOf(x.recs, i)
      rec  == x.recs[i + 1]
  IN  IF i = Len(x.recs) \/ left < RecHdr THEN "more"
      ELSE IF rec.type # "handshake" THEN "unexpected_message"
      ELSE IF ~rec.tls THEN "protocol_version"
      ELSE IF rec.body = 0 THEN "unexpected_message"
      ELSE IF rec.body > BodyMax THEN "record_overflow"
      ELSE IF left - RecHdr < rec.body THEN "more"
      ELSE IF BodyOf(x.recs, i) + rec.body > HelloMax THEN "decode_error"
      ELSE "next"

\* The loop looks at the message, then at the next record, until one decides.
\* (Mutant: a full buffer that shows no whole hello asks for more.)
Scan(x, n) ==
  LET At(i) == IF MessageAt(x, i) # "next" THEN MessageAt(x, i) ELSE RecordAt(x, n, i)
      last  == CHOOSE i \in 0..Len(x.recs) :
                 At(i) # "next" /\ \A j \in 0..i - 1 : At(j) = "next"
  IN  At(last)
AssembleForever(x, n) == Scan(x, n)
Assemble(x, n) ==
  IF Scan(x, n) = "more" /\ n = InCap THEN "decode_error" ELSE Scan(x, n)

-----------------------------------------------------------------------------
(* hello_parse: the extensions one by one, stopping at the first that is   *)
(* wrong; mem says whether malloc gives room for the ALPN list.            *)

Blank == [sni |-> None, alpn |-> {}, seen |-> {}, bad |-> None]

\* (Mutant: repeated extensions are not noticed.)
ExtErrorUnseen(p, e, mem) ==
  CASE e.type \in {"overrun", "bad_sni", "bad_alpn"} -> "decode_error"
    [] e.type = "long_sni" -> "unrecognized_name"
    [] OTHER -> None
ExtError(p, e, mem) ==
  IF e.type = "overrun" THEN "decode_error"
  ELSE IF e.type \in {"sni", "bad_sni", "long_sni"}
  THEN IF "sni" \in p.seen THEN "illegal_parameter"
       ELSE IF e.type = "bad_sni" THEN "decode_error"
       ELSE IF e.type = "long_sni" THEN "unrecognized_name"
       ELSE None
  ELSE IF e.type \in {"alpn", "bad_alpn"}
  THEN IF "alpn" \in p.seen THEN "illegal_parameter"
       ELSE IF e.type = "bad_alpn" THEN "decode_error"
       ELSE IF ~mem THEN "internal_error"
       ELSE None
  ELSE None

ParseExt(p, e, mem) ==
  IF p.bad # None THEN p
  ELSE IF ExtError(p, e, mem) # None THEN [p EXCEPT !.bad = ExtError(p, e, mem)]
  ELSE IF e.type = "sni" THEN [p EXCEPT !.sni = e.name, !.seen = @ \cup {"sni"}]
  ELSE IF e.type = "alpn" THEN [p EXCEPT !.alpn = e.protos, !.seen = @ \cup {"alpn"}]
  ELSE p

\* What is stored after the first i extensions.
Parses(exts, mem) ==
  LET after[i \in 0..Len(exts)] ==
        IF i = 0 THEN Blank ELSE ParseExt(after[i - 1], exts[i], mem) IN after

Parse(msg, mem) ==
  IF msg.fields THEN Parses(msg.exts, mem)[Len(msg.exts)] ELSE [Blank EXCEPT !.bad = "decode_error"]

-----------------------------------------------------------------------------
SelectInit ==
  /\ stream \in Streams
  /\ fed = 0 /\ inLen = 0 /\ inEof = FALSE /\ outLen = 0
  /\ select = "wait" /\ refused = None
  /\ sni = None /\ clientAlpn = {} /\ alpn = None /\ leaf \in {"none", "chain"}
  /\ ret = "ok" /\ alerts = <<>>
  /\ hs = "hello" /\ mbedSent = FALSE /\ mbedPend = FALSE
  /\ agreed = None

\* refuse(): a fatal alert when there is room for it, and the error every
\* later call returns.  (Mutant: the state is left as it was.)
RefuseInPlace(a) ==
  /\ IF OutCap - outLen >= AlertLen
     THEN outLen' = outLen + AlertLen /\ alerts' = Append(alerts, a)
     ELSE UNCHANGED <<outLen, alerts>>
  /\ refused' = AlertError(a)
  /\ UNCHANGED select
Refuse(a) ==
  /\ IF OutCap - outLen >= AlertLen
     THEN outLen' = outLen + AlertLen /\ alerts' = Append(alerts, a)
     ELSE UNCHANGED <<outLen, alerts>>
  /\ refused' = AlertError(a)
  /\ select' = "refused"

\* What the client sends: its records and, behind a whole message, a tail.
Carriers(x) == {k \in DOMAIN x.recs : BodyOf(x.recs, k) >= x.msg.len}
Total == WireOf(stream.recs, Len(stream.recs)) + (IF Carriers(stream) = {} THEN 0 ELSE TailMax)

\* tls_feed: as much of n more bytes as there is room for.
Taken(n) == IF n < InCap - inLen THEN n ELSE InCap - inLen
Feed(n) ==
  /\ ~inEof
  /\ n <= Total - fed
  /\ fed' = fed + Taken(n) /\ inLen' = inLen + Taken(n)
  /\ ret' = "ok"
  /\ UNCHANGED <<stream, inEof, outLen, gateVars, leaf, alpn, mbedVars>>

\* tls_feed_eof.
FeedEof ==
  /\ inEof' = TRUE
  /\ ret' = "ok"
  /\ UNCHANGED <<stream, fed, inLen, outLen, gateVars, leaf, alpn, mbedVars>>

\* tls_out_take.
OutTake(n) ==
  /\ outLen' = IF n < outLen THEN outLen - n ELSE 0
  /\ ret' = "ok"
  /\ UNCHANGED <<stream, fed, inLen, inEof, gateVars, leaf, alpn, mbedVars>>


-----------------------------------------------------------------------------
(* select_gate, as tls_handshake, tls_read and tls_write pass it.          *)

Calls == {"handshake", "read", "write"}

\* What the gate reads in the buffered bytes: "more", an alert, or "select".
Verdict(mem) ==
  LET whole == Assemble(stream, inLen)
      p     == Parse(stream.msg, mem)
  IN  IF whole # "whole" THEN whole ELSE IF p.bad # None THEN p.bad ELSE "select"

\* A waiting or a paused session: TLS_SELECT for tls_handshake, else pending.
Asked(call) == IF call = "handshake" THEN "select" ELSE "pending"

\* TLS_EOF for tls_read where the others return the error.
ConnEof(call) == IF call = "read" THEN "eof" ELSE "conn_eof"

GateMore(call) ==
  /\ select = "wait" /\ \E mem \in BOOLEAN : Verdict(mem) = "more"
  /\ ret' = IF inEof THEN ConnEof(call) ELSE "more"
  /\ UNCHANGED <<outLen, gateVars>>

GatePauses(call) ==
  /\ select = "wait"
  /\ \E mem \in BOOLEAN :
       /\ Verdict(mem) = "select"
       /\ sni' = Parse(stream.msg, mem).sni
       /\ clientAlpn' = Parse(stream.msg, mem).alpn
  /\ select' = "paused"
  /\ ret' = Asked(call)
  /\ UNCHANGED <<outLen, refused, alerts>>

\* Whatever a failed parse had stored is dropped.
GateRefuses ==
  /\ select = "wait"
  /\ \E mem \in BOOLEAN :
       /\ Verdict(mem) \in Alerts
       /\ Refuse(Verdict(mem)) /\ ret' = AlertError(Verdict(mem))
  /\ sni' = None /\ clientAlpn' = {}

GateHolds(call) ==
  /\ \/ select = "paused" /\ ret' = Asked(call)
     \/ select = "refused" /\ ret' = refused
  /\ UNCHANGED <<outLen, gateVars>>

\* What lets a call through to Mbed TLS.  (Mutant: a paused session too.)
OpensEarly == select \in {"done", "paused"}
GateOpen == select = "done"

-----------------------------------------------------------------------------
(* Mbed TLS's handshake behind the gate.  Each disjunct is what a call may *)
(* have come to when it returns; the tests of the real library's progress  *)
(* are external, its use of the two buffers and of the callback is not.    *)

\* bio_recv with nothing buffered; bio_send without room.
MbedWants(call) ==
  /\ IF mbedPend THEN outLen = OutCap ELSE inLen = 0
  /\ ret' = IF inEof /\ ~mbedPend THEN ConnEof(call) ELSE "more"
  /\ UNCHANGED <<inLen, outLen, mbedVars>>

\* bio_send: as much as there is room for.
MbedSends ==
  /\ mbedPend /\ outLen < OutCap
  /\ outLen' \in outLen + 1..OutCap
  /\ mbedSent' = TRUE /\ mbedPend' \in BOOLEAN
  /\ ret' = "more"
  /\ UNCHANGED <<inLen, hs, agreed>>

\* A hello as Mbed TLS reads it, and the protocol it agrees on: the configured
\* one if the client offers it; when the client offers others only, it fails.
Views == [sni : Names \cup {None}, alpn : SUBSET Protos]
Agreed(v) == IF alpn \in v.alpn THEN alpn ELSE None

\* on_selected.  (Mutant: the name is not compared.)
AcceptsAnyName(v) == select = "done" /\ Agreed(v) = alpn
OnSelected(v) == select = "done" /\ v.sni = sni /\ Agreed(v) = alpn

\* It takes some of the input: it needs more of it, or sends a
\* HelloRetryRequest, or has the hello it answers, or has the client's
\* finished message.
MbedTakes ==
  /\ ~mbedPend
  /\ \E n \in 1..inLen : inLen' = inLen - n
  /\ \/ hs \in {"hello", "reply"} /\ ret' = "more" /\ UNCHANGED <<hs, mbedPend, agreed>>
     \/ hs = "hello" /\ mbedPend' = TRUE /\ ret' = "more" /\ UNCHANGED <<hs, agreed>>
     \/ /\ hs = "hello"
        /\ \E v \in Views :
             IF OnSelected(v)
             THEN /\ hs' = "reply" /\ agreed' = [sni |-> v.sni, alpn |-> Agreed(v)]
                  /\ ret' = "more"
             ELSE hs' = "failed" /\ ret' = "handshake_failure" /\ UNCHANGED agreed
        /\ mbedPend' = TRUE
     \/ hs = "reply" /\ hs' = "over" /\ ret' = "more" /\ UNCHANGED <<mbedPend, agreed>>
  /\ UNCHANGED <<outLen, mbedSent>>

\* Any other failure of the handshake, with or without an alert, and every
\* call after one.
MbedFails(call) ==
  /\ \E n \in 0..inLen : inLen' = inLen - n
  /\ hs' = "failed"
  /\ ret' = "mbed" \/ (call = "read" /\ ret' = "eof")
  /\ IF hs = "failed" THEN UNCHANGED mbedPend ELSE mbedPend' \in BOOLEAN
  /\ UNCHANGED <<outLen, mbedSent, agreed>>

Mbed(call) ==
  \/ hs = "over" /\ call = "handshake" /\ ret' = "done" /\ UNCHANGED <<inLen, outLen, mbedVars>>
  \/ hs # "over" /\ (MbedWants(call) \/ MbedSends \/ MbedTakes \/ MbedFails(call))

\* tls_handshake, tls_read and tls_write.
Drive(call) ==
  /\ \/ GateOpen /\ Mbed(call) /\ UNCHANGED gateVars
     \/ /\ GateMore(call) \/ GatePauses(call) \/ GateRefuses \/ GateHolds(call)
        /\ UNCHANGED <<inLen, mbedVars>>
  /\ UNCHANGED <<stream, fed, inEof, leaf, alpn>>

-----------------------------------------------------------------------------
\* tls_server_select with a leaf of the caller's ("null" for the session's
\* own, "bare" for one without a chain) and a protocol or none.
\* (Mutant: a protocol the client did not offer is taken.)
OfferedAny(p) == p = None \/ p \in Protos \ NulProtos
Offered(p) == p = None \/ p \in clientAlpn \ NulProtos

ServerSelect(l, p) ==
  /\ IF select = "paused" /\ Offered(p) /\ (l = "chain" \/ (l = "null" /\ leaf = "chain"))
     THEN /\ leaf' = "chain"
          /\ \/ select' = "done" /\ alpn' = p /\ ret' = "ok"
                /\ UNCHANGED <<outLen, refused, alerts>>
             \/ Refuse("internal_error") /\ ret' = "internal_error" /\ alpn' \in {alpn, p}
          /\ UNCHANGED <<sni, clientAlpn>>
     ELSE ret' = "badarg" /\ UNCHANGED <<outLen, gateVars, leaf, alpn>>
  /\ UNCHANGED <<stream, fed, inLen, inEof, mbedVars>>

\* tls_server_refuse.
ServerRefuse(a) ==
  /\ IF select = "paused" /\ a \in CallerAlerts
     THEN Refuse(a) /\ ret' = "ok" /\ UNCHANGED <<sni, clientAlpn>>
     ELSE ret' = "badarg" /\ UNCHANGED <<outLen, gateVars>>
  /\ UNCHANGED <<stream, fed, inLen, inEof, leaf, alpn, mbedVars>>

\* tls_close: Mbed TLS first sends what is pending, and queues a close_notify
\* only when the handshake is over.
Close ==
  /\ IF (mbedPend \/ hs = "over") /\ outLen < OutCap
     THEN outLen' \in outLen + 1..OutCap /\ mbedSent' = TRUE /\ mbedPend' \in BOOLEAN
     ELSE mbedPend' = (mbedPend \/ hs = "over") /\ UNCHANGED <<outLen, mbedSent>>
  /\ ret' = "ok"
  /\ UNCHANGED <<stream, fed, inLen, inEof, gateVars, leaf, alpn, hs, agreed>>

SelectNext ==
  \/ \E n \in 1..Total : Feed(n)
  \/ FeedEof
  \/ \E n \in 1..OutCap : OutTake(n)
  \/ \E call \in Calls : Drive(call)
  \/ \E l \in {"null", "chain", "bare"}, p \in Protos \cup {None} : ServerSelect(l, p)
  \/ \E a \in Alerts : ServerRefuse(a)
  \/ Close

\* The caller feeds what the client sends while there is room, and drives the
\* session: the loop of the package's README ("The API is pull-shaped").
Fairness == /\ WF_selectVars(\E n \in 1..Total : Feed(n))
            /\ WF_selectVars(Drive("handshake"))

SelectSpec == SelectInit /\ [][SelectNext]_selectVars /\ Fairness

-----------------------------------------------------------------------------
\* "Nothing is sent before the selection", and "no ClientHello reaches Mbed
\* TLS without a selection" (package/README.md): while a session is not
\* selected for, every byte fed is still in the input buffer and the only
\* bytes ever put in the output buffer are a refusal's alert.
SilentUntilSelected ==
  select # "done" => /\ inLen = fed /\ hs = "hello" /\ ~mbedSent
                     /\ select # "refused" => outLen = 0

\* A refusal is final and is heard: exactly one fatal alert was queued (it
\* never lacks room), and it is the one whose error every call then returns.
RefusalSent ==
  IF select = "refused"
  THEN Len(alerts) = 1 /\ refused = AlertError(alerts[1])
  ELSE alerts = <<>> /\ refused = None

\* What a client's hello says, read without the engine's algorithm: the
\* records that carry it are well formed and fit the buffers, no extension is
\* malformed or repeated.
Readable(x) ==
  /\ x.msg.type = "client_hello" /\ x.msg.len <= HelloMax /\ x.msg.fields
  /\ Carriers(x) # {}
  /\ LET k == Min(Carriers(x))
     IN  /\ \A i \in 1..k : /\ x.recs[i].type = "handshake" /\ x.recs[i].tls
                             /\ x.recs[i].body \in 1..BodyMax
         /\ BodyOf(x.recs, k) <= HelloMax /\ WireOf(x.recs, k) <= InCap
  /\ LET At(types) == {i \in DOMAIN x.msg.exts : x.msg.exts[i].type \in types}
     IN  /\ At({"overrun", "bad_sni", "long_sni", "bad_alpn"}) = {}
         /\ Cardinality(At({"sni"})) <= 1 /\ Cardinality(At({"alpn"})) <= 1

ClientHello(x) ==
  [sni  |-> IF \E i \in DOMAIN x.msg.exts : x.msg.exts[i].type = "sni"
            THEN (CHOOSE e \in ToSet(x.msg.exts) : e.type = "sni").name ELSE None,
   alpn |-> UNION {e.protos : e \in {d \in ToSet(x.msg.exts) : d.type = "alpn"}}]

\* What each client says, and whether it can be read.
Says == [x \in Streams |-> [readable |-> Readable(x), hello |-> ClientHello(x)]]

\* The caller is only ever asked about a hello that is readable, and is shown
\* its very name and protocols, however the records split it and however it
\* was fed; a readable hello is never refused by the gate but for memory.
SelectorSeesHello ==
  /\ select \in {"paused", "done"} =>
       Says[stream] = [readable |-> TRUE, hello |-> [sni |-> sni, alpn |-> clientAlpn]]
  /\ select = "wait" /\ Says[stream].readable =>
       \A mem \in BOOLEAN : Verdict(mem) \in {"more", "select", "internal_error"}

\* The handshake goes past Mbed TLS's own parse of the hello (the second one
\* after a HelloRetryRequest included) only with the name the caller was
\* shown and the protocol it chose among the client's.
NegotiatedAsSelected ==
  hs \in {"reply", "over"} =>
    /\ select = "done"
    /\ agreed = [sni |-> sni, alpn |-> alpn]
    /\ alpn # None => alpn \in clientAlpn

\* A session never waits on a client that goes on sending: the gate decides,
\* at the latest when the input buffer is full.
HelloDecided == select = "wait" ~> (select # "wait" \/ inEof \/ fed = Total)

\* The gate as its caller knows it.
Gate == INSTANCE TlsGate WITH
  Hellos <- Views, NoHello <- [sni |-> None, alpn |-> {}],
  client <- Says[stream],
  phase  <- CASE select = "wait" -> "reading" [] select = "paused" -> "asking"
              [] select = "done" -> "open" [] OTHER -> "refused",
  shown  <- [sni |-> sni, alpn |-> clientAlpn],
  answer <- IF select = "done" THEN alpn ELSE None,
  deal   <- agreed,
  said   <- alerts \o (IF mbedSent THEN <<"tls">> ELSE <<>>)

ImplementsGate == Gate!Spec
=============================================================================
