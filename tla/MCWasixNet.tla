----------------------------- MODULE MCWasixNet -----------------------------
(***************************************************************************)
(* WasixNet with two callers of one pool that holds one connection.        *)
(***************************************************************************)
EXTENDS WasixNet, TLC

CONSTANTS t1, t2, srv1, srv2

BothCallers == {t1, t2}
BothServers == {srv1, srv2}
HostNames == (srv1 :> "one.test") @@ (srv2 :> "two.test")
MethodsUsed == {"POST", "HEAD"}

Plain(framing, len, keep) ==
  [redirect |-> "none", to |-> srv1, framing |-> framing, len |-> len, keep |-> keep, interim |-> FALSE]
AnswersUsed ==
  {[Plain("length", 2, TRUE) EXCEPT !.interim = TRUE], Plain("chunked", 1, TRUE),
   Plain("eof", 1, TRUE),
   [Plain("length", 2, TRUE) EXCEPT !.redirect = "get", !.to = srv2],
   [Plain("length", 0, TRUE) EXCEPT !.redirect = "same", !.to = srv1]}
Perms == Permutations(BothCallers)
=============================================================================
