---------------------------- MODULE MCTlsSelect ----------------------------
(***************************************************************************)
(* TlsSelect with small buffers: hellos with every kind of extension, and  *)
(* every way a hello can be split, cut short or framed badly.              *)
(***************************************************************************)
EXTENDS TlsSelect

CONSTANTS n1, n2, p1, p2

MCNames == {n1, n2}
MCProtos == {p1, p2}
MCNul == {p2}

Sni(n)  == [type |-> "sni", name |-> n]
Alpn(P) == [type |-> "alpn", protos |-> P]
MCExts == {Sni(n1), Sni(None), Alpn({p1, p2})}
          \cup [type : {"other", "overrun", "bad_sni", "long_sni", "bad_alpn"}]
Bad(type) == [type |-> type]

Hello(len, exts) == [type |-> "client_hello", len |-> len, fields |-> TRUE, exts |-> exts]
Plain == <<Sni(n1), Alpn({p1})>>

Rec(n) == [type |-> "handshake", tls |-> TRUE, body |-> n]
Recs(bodies) == [i \in DOMAIN bodies |-> Rec(bodies[i])]
Stream(recs, msg) == [recs |-> recs, msg |-> msg]

\* What the extensions may be: none, one of each, and two where the second
\* repeats the first, fails after the first was stored, or follows it.
MCExtLists ==
  {<<>>} \cup {<<e>> : e \in MCExts}
  \cup {<<Sni(n1), e>> : e \in {Sni(n2), Bad("long_sni"), Bad("bad_alpn"), Alpn({p1, p2})}}
  \cup {<<Alpn({p1}), e>> : e \in {Alpn({p2}), Bad("bad_sni"), Bad("overrun"), Sni(n2)}}
ByExtensions == {Stream(<<Rec(2)>>, Hello(2, exts)) : exts \in MCExtLists}

\* How the records may carry a hello of 3: whole, split, into a full buffer,
\* with bytes of a next message, cut short; longer ones, up to HelloMax and
\* beyond it; more overhead than the buffer holds.
BySplit == {Stream(Recs(s), Hello(3, Plain)) :
              s \in {<<3>>, <<1, 2>>, <<2, 1>>, <<1, 1, 1>>, <<2, 3>>, <<1>>, <<1, 1>>, <<>>}}
           \cup {Stream(Recs(s), Hello(5, Plain)) : s \in {<<3, 2>>, <<2, 3>>, <<3, 3>>, <<3, 1, 3>>}}
           \cup {Stream(Recs(<<3, 3>>), Hello(n, Plain)) : n \in {6, 7}}
           \cup {Stream(Recs(<<1, 1, 1, 1>>), Hello(4, Plain))}

\* What else may be wrong with a record or a message.
ByFraming == {Stream(<<r, Rec(2)>>, Hello(3, Plain)) :
                r \in {Rec(0), Rec(4), [Rec(1) EXCEPT !.type = "other"], [Rec(1) EXCEPT !.tls = FALSE]}}
             \cup {Stream(<<Rec(1), [Rec(2) EXCEPT !.type = "other"]>>, Hello(3, Plain)),
                   Stream(<<Rec(3)>>, [Hello(3, Plain) EXCEPT !.type = "other"]),
                   Stream(<<Rec(3)>>, [Hello(3, Plain) EXCEPT !.fields = FALSE])}

MCStreams == ByExtensions \cup BySplit \cup ByFraming
=============================================================================
