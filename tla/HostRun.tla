------------------------------- MODULE HostRun -------------------------------
(***************************************************************************)
(* `run` of the gh, buf and ntfy hosts (gh-host.mjs, buf-host.mjs and      *)
(* ntfy-host.mjs, the same loop in each): it spawns a program, feeds it    *)
(* its input and collects its output over pipes with asynchronous reads    *)
(* and writes, until nothing is pending, and waits for it.                 *)
(*                                                                         *)
(* The kernel and the program are external.  A pipe holds PipeMax bytes;   *)
(* a write takes as much as fits, a read what is there; either may fail.   *)
(* The program is any sequence of at most MaxSteps reads ("in"), reads to  *)
(* the end ("eof") and writes ("out", "err"), and ends with it.            *)
(***************************************************************************)
EXTENDS Naturals, Sequences

CONSTANTS MaxInput, \* bytes of input
          PipeMax,
          MaxSteps, \* of the program
          MaxErrors \* reads and writes of one stream that the kernel fails

ASSUME RunAssumption ==
  MaxInput \in Nat /\ PipeMax \in Nat \ {0} /\ MaxSteps \in Nat /\ MaxErrors \in Nat

Outputs == {"out", "err"}
Streams == {"in"} \cup Outputs

\* What is a pipe, and not inherited.
GhStdio == {Streams, Outputs}
BufStdio == {Streams}
NtfyStdio == SUBSET Streams

VARIABLES
  given,   \* the input: bytes 1, 2, ...
  piped,   \* the streams that are pipes
  pc,      \* run: "start", "loop", "wait", "returned" or "threw"
  input,   \* what is left to write
  output,  \* per output, what was read
  pending, \* the streams with an operation submitted
  fds,     \* the parent's ends that are open
  closes,  \* per stream, how often the parent closed it
  answer,  \* per stream, the answer of its operation, or none: a sequence of
           \* at most one
  errors,  \* per stream, the operations that failed
  pipe,    \* per stream, the bytes in the pipe
  lives,   \* the program runs
  steps,   \* what it has left to do
  got,     \* what it has read
  eof,     \* it has seen the end of its input
  put      \* per output, how much it has written to the pipe
host == <<pc, input, output, pending, fds, closes>>
kernel == <<answer, errors>>
program == <<steps, got, put, eof, lives>>
vars == <<given, piped, host, kernel, pipe, program>>

Bytes(n) == [i \in 1..n |-> i]
Programs == UNION {[1..n -> {"in", "eof", "out", "err"}] : n \in 0..MaxSteps}

Init ==
  /\ piped \in GhStdio \cup BufStdio \cup NtfyStdio
  /\ given \in {Bytes(n) : n \in IF "in" \in piped THEN 0..MaxInput ELSE {0}}
  /\ pc = "start" /\ input = given /\ output = [s \in Outputs |-> <<>>]
  /\ pending = {} /\ fds = {} /\ closes = [s \in Streams |-> 0]
  /\ answer = [s \in Streams |-> <<>>] /\ errors = [s \in Streams |-> 0]
  /\ pipe = [s \in Streams |-> <<>>]
  /\ steps \in Programs
  /\ lives = FALSE /\ got = <<>> /\ eof = FALSE /\ put = [s \in Outputs |-> 0]

-----------------------------------------------------------------------------
(* run *)

SpawnFails ==
  /\ pc = "start" /\ pc' = "threw"
  /\ UNCHANGED <<given, piped, input, output, pending, fds, closes, kernel, pipe, program>>

\* write(): what is left is submitted, or the pipe closed when nothing is; a
\* stdin that is not a pipe is left alone.  (Mutants: it goes on after it has
\* closed; nothing is closed.)
WriteSubmitsToo(rest) == {"in"} \cap piped
WriteSubmits(rest) == {"in"} \cap {s \in piped : rest # <<>>}
WriteClosesNever(rest) == {}
WriteCloses(rest) == {"in"} \cap {s \in piped : rest = <<>>}

\* The loop goes on while anything is pending, the pipes in `shut` are closed.
Loop(going, shut, open) ==
  /\ pending' = going /\ pc' = IF going = {} THEN "wait" ELSE "loop"
  /\ fds' = open \ shut
  /\ closes' = [s \in Streams |-> closes[s] + IF s \in shut THEN 1 ELSE 0]

Spawn ==
  /\ pc = "start"
  /\ lives' = TRUE
  /\ Loop(WriteSubmits(input) \cup (Outputs \cap piped), WriteCloses(input), piped)
  /\ UNCHANGED <<given, piped, input, output, kernel, pipe, steps, got, eof, put>>

\* ctx.async.wait and take: any answer there is.  (An id that is not run's own
\* is skipped.)
Taken(s) == pc = "loop" /\ s \in pending /\ answer[s] # <<>> /\ answer' = [answer EXCEPT ![s] = <<>>]
Failed(s) == answer[s][1].failed

\* (Mutant: one write takes it all.)
RestNone(n) == <<>>
Rest(n) == SubSeq(input, n + 1, Len(input))
Wrote ==
  /\ Taken("in")
  /\ LET rest == IF Failed("in") THEN <<>> ELSE Rest(Len(answer["in"][1].bytes))
     IN /\ input' = rest
        /\ Loop((pending \ {"in"}) \cup WriteSubmits(rest), WriteCloses(rest), fds)
  /\ UNCHANGED <<given, piped, output, errors, pipe, program>>

Collect(s, bytes) == [output EXCEPT ![s] = @ \o bytes]
Read(s) ==
  /\ Taken(s)
  /\ output' = Collect(s, answer[s][1].bytes)
  /\ LET shut == {t \in {s} : Failed(s) \/ answer[s][1].bytes = <<>>}
     IN Loop(pending \ shut, shut, fds)
  /\ UNCHANGED <<given, piped, input, errors, pipe, program>>

Wait ==
  /\ pc = "wait" /\ ~lives /\ pc' = "returned"
  /\ UNCHANGED <<given, piped, input, output, pending, fds, closes, kernel, pipe, program>>

-----------------------------------------------------------------------------
(* The kernel and the program *)

Answers(s, failed, bytes) ==
  /\ answer' = [answer EXCEPT ![s] = <<[failed |-> failed, bytes |-> bytes]>>]
  /\ errors' = [errors EXCEPT ![s] = @ + IF failed THEN 1 ELSE 0]
  /\ UNCHANGED <<given, piped, host, program>>
Asked(s) == s \in pending /\ answer[s] = <<>>

DoWrite ==
  /\ Asked("in")
  /\ \/ lives /\ \E n \in 1..(PipeMax - Len(pipe["in"])) :
           /\ n <= Len(input)
           /\ pipe' = [pipe EXCEPT !["in"] = @ \o SubSeq(input, 1, n)]
           /\ Answers("in", FALSE, SubSeq(input, 1, n))
     \/ ~lives /\ Answers("in", TRUE, <<>>) /\ UNCHANGED pipe
DoRead(s) ==
  /\ Asked(s)
  /\ \/ \E n \in 1..Len(pipe[s]) :
           /\ pipe' = [pipe EXCEPT ![s] = SubSeq(@, n + 1, Len(@))]
           /\ Answers(s, FALSE, SubSeq(pipe[s], 1, n))
     \/ ~lives /\ pipe[s] = <<>> /\ Answers(s, FALSE, <<>>) /\ UNCHANGED pipe
Fails(s) == Asked(s) /\ errors[s] < MaxErrors /\ Answers(s, TRUE, <<>>) /\ UNCHANGED pipe

Step(s) == lives /\ steps # <<>> /\ Head(steps) = s
Goes == steps' = Tail(steps)
GetsIn ==
  /\ Step("in") \/ Step("eof")
  /\ \/ /\ "in" \notin piped \/ (pipe["in"] = <<>> /\ "in" \notin fds)
        /\ Goes /\ eof' = ("in" \in piped) /\ UNCHANGED <<got, pipe>>
     \/ \E n \in 1..Len(pipe["in"]) :
          /\ got' = got \o SubSeq(pipe["in"], 1, n)
          /\ pipe' = [pipe EXCEPT !["in"] = SubSeq(@, n + 1, Len(@))]
          /\ IF Step("in") THEN Goes ELSE UNCHANGED steps
          /\ UNCHANGED eof
  /\ UNCHANGED <<given, piped, host, kernel, put, lives>>
Puts(s) ==
  /\ Step(s)
  /\ IF s \in fds /\ s \in piped
       THEN /\ Len(pipe[s]) < PipeMax
            /\ put' = [put EXCEPT ![s] = @ + 1]
            /\ pipe' = [pipe EXCEPT ![s] = Append(@, put[s] + 1)]
            /\ Goes /\ UNCHANGED lives
       ELSE /\ lives' = (s \notin piped) \* SIGPIPE
            /\ Goes /\ UNCHANGED <<put, pipe>>
  /\ UNCHANGED <<given, piped, host, kernel, got, eof>>
Exits ==
  /\ lives /\ steps = <<>> /\ lives' = FALSE
  /\ UNCHANGED <<given, piped, host, kernel, pipe, steps, got, eof, put>>

Run == SpawnFails \/ Spawn \/ Wrote \/ (\E s \in Outputs : Read(s)) \/ Wait
Program == GetsIn \/ (\E s \in Outputs : Puts(s)) \/ Exits
Next ==
  \/ Run \/ Program \/ DoWrite
  \/ \E s \in Outputs : DoRead(s)
  \/ \E s \in Streams : Fails(s)

\* The kernel answers what it can, the program and run go on.
Fairness ==
  /\ WF_vars(Run) /\ WF_vars(Program) /\ WF_vars(DoWrite)
  /\ \A s \in Outputs : WF_vars(DoRead(s))
Spec == Init /\ [][Next]_vars /\ Fairness

-----------------------------------------------------------------------------
\* run returns all that the program wrote, in order, unless a read of it
\* failed (gh-host.mjs:92-123).
OutputExact ==
  pc = "returned" =>
    \A s \in Outputs \cap piped : errors[s] = 0 => output[s] = Bytes(put[s])

\* The program reads its input in order, without a byte twice, and all of it
\* before it sees the end, unless a write failed (gh-host.mjs:82-88, 107-111).
InputExact ==
  /\ got = SubSeq(given, 1, Len(got))
  /\ eof /\ errors["in"] = 0 => got = given

\* So run loses, repeats and reorders nothing in either direction.
StreamsExact == OutputExact /\ InputExact

\* The parent closes each of its pipes once, never while it has an operation
\* submitted on it or before it submits one, so never a descriptor that has
\* become another's; and all of them before it returns.
FdsOnce ==
  /\ pending \subseteq fds
  /\ \A s \in Streams : closes[s] <= 1
  /\ pc = "returned" => fds = {}

\* run ends, whatever the program reads and writes first, and however little a
\* pipe holds.
Returns == pc = "start" ~> pc \in {"returned", "threw"}
=============================================================================
