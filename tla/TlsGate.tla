------------------------------- MODULE TlsGate -------------------------------
(***************************************************************************)
(* What a server session made with TLS_SERVER_SELECT promises its caller   *)
(* (packages/tls-engine/package/README.md, "SNI and ALPN callbacks"): the  *)
(* client's hello is shown to the caller as the client sent it, once;      *)
(* nothing is sent before the caller answers; a refusal is final and sends *)
(* one fatal alert; and TLS is only agreed on what the caller was shown    *)
(* and what it answered.  TlsSelect is shown to implement this.            *)
(***************************************************************************)
EXTENDS Sequences

CONSTANTS Hellos,  \* what a client's hello can tell the caller
          NoHello, \* the one that tells nothing
          Protos,  \* what a caller can answer, None for no protocol
          None,
          Alerts   \* fatal alerts

VARIABLES client,  \* the hello the client sends, and whether it can be read
          phase,   \* "reading", "asking", "open" or "refused"
          shown,   \* the hello shown to the caller
          answer,  \* what the caller answered
          deal,    \* what TLS agreed on
          said     \* what the client has been told: alerts and TLS's own bytes

vars == <<client, phase, shown, answer, deal, said>>

Init == /\ client \in [readable : BOOLEAN, hello : Hellos]
        /\ phase = "reading" /\ shown = NoHello
        /\ answer = None /\ deal = None /\ said = <<>>

\* The hello is whole and readable: the caller is shown it.
Show == /\ phase = "reading" /\ client.readable
        /\ phase' = "asking" /\ shown' = client.hello
        /\ UNCHANGED <<client, answer, deal, said>>

\* An unreadable hello (or no memory to keep it), a refusal by the caller, or
\* an answer that cannot be carried out.
Refuse(a) == /\ \/ phase = "reading" /\ (~client.readable \/ a = "internal_error")
                \/ phase = "asking"
             /\ phase' = "refused" /\ said' = <<a>>
             /\ UNCHANGED <<client, shown, answer, deal>>

\* The caller answers with a protocol the client offered, or with none.
Answer(p) == /\ phase = "asking" /\ p \in shown.alpn \cup {None}
             /\ phase' = "open" /\ answer' = p
             /\ UNCHANGED <<client, shown, deal, said>>

\* TLS is agreed: on the name shown and the protocol answered.
Agree == /\ phase = "open" /\ deal = None
         /\ deal' = [sni |-> shown.sni, alpn |-> answer]
         /\ UNCHANGED <<client, phase, shown, answer, said>>

\* TLS's own bytes reach the client, whether it is agreed or failing.
Speak == /\ phase = "open"
         /\ said' = <<"tls">>
         /\ UNCHANGED <<client, phase, shown, answer, deal>>

Next == \/ Show \/ Agree \/ Speak
        \/ \E a \in Alerts : Refuse(a)
        \/ \E p \in Protos \cup {None} : Answer(p)

Spec == Init /\ [][Next]_vars
=============================================================================
