---------------------------- MODULE HostRunProofs ----------------------------
(***************************************************************************)
(* For every input, pipe, program and number of failures: run loses,       *)
(* repeats and reorders nothing, and closes each of its pipes once.        *)
(***************************************************************************)
EXTENDS HostRun, SequenceTheorems, TLAPS

-----------------------------------------------------------------------------
(* The inductive invariant *)

Seqs == Seq(Nat)
Replies == [failed : BOOLEAN, bytes : Seqs]
TypeOK ==
  /\ piped \subseteq Streams /\ pending \subseteq Streams
  /\ pc \in {"start", "loop", "wait", "returned", "threw"}
  /\ given \in Seqs /\ input \in Seqs /\ got \in Seqs
  /\ output \in [Outputs -> Seqs] /\ pipe \in [Streams -> Seqs]
  /\ closes \in [Streams -> Nat] /\ errors \in [Streams -> Nat] /\ put \in [Outputs -> Nat]
  /\ answer \in [Streams -> Seq(Replies)]
  /\ lives \in BOOLEAN

Begun == pc \notin {"start", "threw"}
Shut(s) == Begun /\ s \in piped \ fds

\* What is open is what has an operation submitted.
Ends ==
  /\ fds = pending /\ pending \subseteq piped
  /\ pc \in {"start", "threw", "wait", "returned"} => pending = {}
  /\ lives => Begun
  /\ \A s \in Streams : /\ closes[s] = IF Shut(s) THEN 1 ELSE 0
                        /\ answer[s] # <<>> => s \in pending

\* The bytes of a stream are numbered: those of q follow the n-th.
Counts(q, n) == \A i \in 1..Len(q) : q[i] = n + i
Reply(s) == answer[s][1]
Came(s) == IF answer[s] = <<>> THEN 0 ELSE Len(Reply(s).bytes)

\* What the program wrote is what was read, what the answer brings, and what is
\* in the pipe; and a pipe is read to its end.
Out(s) ==
  /\ Counts(output[s], 0)
  /\ Counts(pipe[s], Len(output[s]) + Came(s))
  /\ put[s] = Len(output[s]) + Came(s) + Len(pipe[s])
  /\ answer[s] # <<>> =>
       /\ Counts(Reply(s).bytes, Len(output[s]))
       /\ Reply(s).failed => errors[s] # 0
       /\ ~Reply(s).failed /\ Reply(s).bytes = <<>> => ~lives /\ pipe[s] = <<>>
  /\ Shut(s) /\ errors[s] = 0 => ~lives /\ pipe[s] = <<>>

\* The input is what the program has read, what is in the pipe, and what is left
\* to write but for what an answer says is written.
In ==
  /\ Counts(given, 0) /\ Counts(got, 0)
  /\ Counts(pipe["in"], Len(got))
  /\ Counts(input, Len(given) - Len(input))
  /\ Len(got) + Len(pipe["in"]) <= Len(given)
  /\ answer["in"] # <<>> =>
       Came("in") <= Len(input) /\ (Reply("in").failed => errors["in"] # 0)
  /\ pc = "start" \/ "in" \in pending \/ errors["in"] = 0 =>
       Len(got) + Len(pipe["in"]) + Len(input) = Len(given) + Came("in")
  /\ Shut("in") => input = <<>>
  /\ eof /\ errors["in"] = 0 => Len(got) = Len(given)

IInv == TypeOK /\ Ends /\ In /\ \A s \in Outputs : Out(s)

-----------------------------------------------------------------------------
(* Numbered bytes *)

LEMMA CountsNone ==
  ASSUME NEW n
  PROVE  <<>> \in Seqs /\ Len(<<>>) = 0 /\ Counts(<<>>, n)
<1>1. <<>> \in Seqs /\ Len(<<>>) = 0 /\ \A i : i \notin 1..Len(<<>>)  BY SMT DEF Seqs
<1> QED  BY <1>1 DEF Counts

LEMMA CountsBytes ==
  ASSUME NEW n \in Nat
  PROVE  Bytes(n) \in Seqs /\ Len(Bytes(n)) = n /\ Counts(Bytes(n), 0)
<1>1. Bytes(n) \in Seqs /\ Len(Bytes(n)) = n  BY SMT DEF Bytes, Seqs
<1>2. \A i \in 1..n : Bytes(n)[i] = i /\ i = 0 + i  BY SMT DEF Bytes
<1> QED  BY <1>1, <1>2 DEF Counts

LEMMA CountsIs ==
  ASSUME NEW q \in Seqs, Counts(q, 0)
  PROVE  q = Bytes(Len(q))
<1>1. Len(q) \in Nat /\ q \in [1..Len(q) -> Nat]  BY LenProperties DEF Seqs
<1>2. \A i \in 1..Len(q) : q[i] = i  BY <1>1, SMT DEF Counts
<1> QED  BY <1>1, <1>2 DEF Bytes

LEMMA CountsPrefix ==
  ASSUME NEW p \in Seqs, NEW q \in Seqs, Counts(p, 0), Counts(q, 0), Len(q) <= Len(p)
  PROVE  q = SubSeq(p, 1, Len(q))
<1> DEFINE u == SubSeq(p, 1, Len(q))
<1>1. Len(p) \in Nat /\ Len(q) \in Nat  BY LenProperties DEF Seqs
<1>2. \A i \in 1..Len(q) : p[i] = i /\ q[i] = i /\ p[i] \in Nat
  BY <1>1, SMT DEF Counts
<1>3. u \in Seqs /\ Len(u) = Len(q) /\ \A i \in 1..Len(q) : u[i] = p[i]
  BY <1>1, <1>2, SMT DEF Seqs
<1> HIDE DEF u
<1>4. \A i \in 1..Len(q) : q[i] = u[i]  BY <1>2, <1>3
<1> QED  BY <1>3, <1>4, SeqEqual DEF Seqs, u

LEMMA CountsJoin ==
  ASSUME NEW p \in Seqs, NEW q \in Seqs, NEW n \in Int, Counts(p, n), Counts(q, n + Len(p))
  PROVE  p \o q \in Seqs /\ Len(p \o q) = Len(p) + Len(q) /\ Counts(p \o q, n)
<1>1. Len(p) \in Nat /\ Len(q) \in Nat  BY LenProperties DEF Seqs
<1>2. /\ p \o q \in Seqs /\ Len(p \o q) = Len(p) + Len(q)
      /\ \A i \in 1..(Len(p) + Len(q)) :
           (p \o q)[i] = IF i <= Len(p) THEN p[i] ELSE q[i - Len(p)]
  BY ConcatProperties DEF Seqs
<1>3. ASSUME NEW i \in 1..(Len(p) + Len(q))  PROVE (p \o q)[i] = n + i
  <2>1. CASE i <= Len(p)
    <3>1. i \in 1..Len(p)  BY <1>1, <2>1, SMT
    <3> QED  BY <1>2, <2>1, <3>1 DEF Counts
  <2>2. CASE ~(i <= Len(p))
    <3>1. i - Len(p) \in 1..Len(q) /\ n + Len(p) + (i - Len(p)) = n + i  BY <1>1, <2>2, SMT
    <3>2. q[i - Len(p)] = n + Len(p) + (i - Len(p))  BY <3>1 DEF Counts
    <3> QED  BY <1>2, <2>2, <3>1, <3>2
  <2> QED  BY <2>1, <2>2
<1> QED  BY <1>2, <1>3 DEF Counts

LEMMA CountsSplit ==
  ASSUME NEW q \in Seqs, NEW n \in Int, Counts(q, n), NEW k \in 0..Len(q)
  PROVE  /\ SubSeq(q, 1, k) \in Seqs /\ Len(SubSeq(q, 1, k)) = k /\ Counts(SubSeq(q, 1, k), n)
         /\ SubSeq(q, k + 1, Len(q)) \in Seqs /\ Len(SubSeq(q, k + 1, Len(q))) = Len(q) - k
         /\ Counts(SubSeq(q, k + 1, Len(q)), n + k)
<1>1. Len(q) \in Nat /\ k \in Nat /\ \A i \in 1..Len(q) : q[i] \in Nat /\ q[i] = n + i
  BY LenProperties, ElementOfSeq DEF Seqs, Counts
<1>2. /\ SubSeq(q, 1, k) \in Seqs /\ Len(SubSeq(q, 1, k)) = k
      /\ \A i \in 1..k : SubSeq(q, 1, k)[i] = q[i]
  <2>1. \A i \in 1..k : i \in 1..Len(q)  BY <1>1, SMT
  <2> QED  BY <1>1, <2>1, SMT DEF Seqs
<1>3. /\ SubSeq(q, k + 1, Len(q)) \in Seqs /\ Len(SubSeq(q, k + 1, Len(q))) = Len(q) - k
      /\ \A i \in 1..(Len(q) - k) : SubSeq(q, k + 1, Len(q))[i] = q[k + i]
  <2>1. \A i \in (k + 1)..Len(q) : q[i] \in Nat  BY <1>1, SMT
  <2>2. k + 1 \in Int /\ Len(q) \in Int  BY <1>1, SMT
  <2>3. /\ SubSeq(q, k + 1, Len(q)) \in Seq(Nat)
        /\ Len(SubSeq(q, k + 1, Len(q))) = IF k + 1 <= Len(q) THEN Len(q) - (k + 1) + 1 ELSE 0
        /\ \A i \in 1..(Len(q) - (k + 1) + 1) : SubSeq(q, k + 1, Len(q))[i] = q[k + 1 + i - 1]
    BY <2>1, <2>2, SubSeqProperties
  <2> QED  BY <1>1, <2>3, SMT DEF Seqs
<1>4. Counts(SubSeq(q, 1, k), n)
  <2>1. \A i \in 1..k : q[i] = n + i  BY <1>1, SMT
  <2> QED  BY <1>2, <2>1 DEF Counts
<1>5. Counts(SubSeq(q, k + 1, Len(q)), n + k)
  <2>1. \A i \in 1..(Len(q) - k) : q[k + i] = n + k + i  BY <1>1, SMT
  <2> QED  BY <1>3, <2>1 DEF Counts
<1> QED  BY <1>2, <1>3, <1>4, <1>5

-----------------------------------------------------------------------------
(* What a step leaves alone *)

LEMMA Typed ==
  ASSUME TypeOK, NEW s \in Streams
  PROVE  /\ pipe[s] \in Seqs /\ Len(pipe[s]) \in Nat /\ Came(s) \in Nat /\ errors[s] \in Nat
         /\ answer[s] \in Seq(Replies)
         /\ answer[s] # <<>> => /\ Reply(s) \in Replies /\ Reply(s).bytes \in Seqs
                                /\ Came(s) = Len(Reply(s).bytes)
         /\ s \in Outputs => output[s] \in Seqs /\ Len(output[s]) \in Nat /\ put[s] \in Nat
         /\ input \in Seqs /\ got \in Seqs /\ given \in Seqs
         /\ Len(input) \in Nat /\ Len(got) \in Nat /\ Len(given) \in Nat
<1>1. /\ pipe[s] \in Seqs /\ errors[s] \in Nat /\ answer[s] \in Seq(Replies)
      /\ s \in Outputs => output[s] \in Seqs /\ put[s] \in Nat
      /\ input \in Seqs /\ got \in Seqs /\ given \in Seqs
  BY DEF TypeOK
<1>2. answer[s] # <<>> => Reply(s) \in Replies
  <2> SUFFICES ASSUME answer[s] # <<>>  PROVE Reply(s) \in Replies
    OBVIOUS
  <2>1. 1 \in 1..Len(answer[s])  BY <1>1, EmptySeq, SMT
  <2> QED  BY <1>1, <2>1, ElementOfSeq DEF Reply
<1>3. answer[s] # <<>> => Reply(s).bytes \in Seqs  BY <1>2, Zenon DEF Replies
<1>4. \A q \in Seqs : Len(q) \in Nat  BY LenProperties DEF Seqs
<1> QED  BY <1>1, <1>2, <1>3, <1>4, SMT DEF Came

LEMMA OutStays ==
  ASSUME NEW s \in Outputs, Out(s), output'[s] = output[s], answer'[s] = answer[s],
         pipe'[s] = pipe[s], put'[s] = put[s], errors'[s] = errors[s], lives' => lives,
         Shut(s)' => Shut(s)
  PROVE  Out(s)'
BY DEF Out, Came, Reply, Counts

LEMMA InStays ==
  ASSUME In, given' = given, got' = got, input' = input, pipe'["in"] = pipe["in"],
         answer'["in"] = answer["in"], errors'["in"] = errors["in"],
         "in" \in pending' => "in" \in pending, Shut("in")' => Shut("in"), eof' => eof,
         pc' = "start" => pc = "start"
  PROVE  In'
BY DEF In, Came, Reply, Counts

\* The loop goes on, or run is about to wait.
LEMMA OfLoop ==
  ASSUME TypeOK, NEW going, NEW shut, NEW open, Loop(going, shut, open), piped' = piped,
         shut \subseteq open, open \subseteq piped, going = open \ shut,
         \A s \in Streams : /\ closes[s] = IF s \in piped \ open THEN 1 ELSE 0
                            /\ answer'[s] # <<>> => s \in going
  PROVE  /\ Ends' /\ Begun' /\ pending' = going /\ fds' = going
         /\ pending' \subseteq Streams /\ closes' \in [Streams -> Nat]
         /\ pc' \in {"start", "loop", "wait", "returned", "threw"}
<1>1. /\ pending' = going /\ fds' = going /\ pc' = IF going = {} THEN "wait" ELSE "loop"
      /\ closes' = [s \in Streams |-> closes[s] + IF s \in shut THEN 1 ELSE 0]
  BY DEF Loop
<1>2. Begun' /\ pc' \in {"start", "loop", "wait", "returned", "threw"}  BY <1>1 DEF Begun
<1>3. \A s \in Streams : Shut(s)' <=> s \in piped \ going  BY <1>1, <1>2 DEF Shut
<1>4. \A s \in Streams : closes'[s] = IF s \in piped \ going THEN 1 ELSE 0  BY <1>1
<1>5. closes' \in [Streams -> Nat]  BY <1>1
<1>6. Ends'  BY <1>1, <1>2, <1>3, <1>4 DEF Ends
<1> QED  BY <1>1, <1>2, <1>5, <1>6 DEF TypeOK

\* What is not a step of run leaves its ends as they are.
LEMMA EndsStay ==
  ASSUME Ends, UNCHANGED <<host, piped>>, lives' => lives,
         \A s \in Streams : answer'[s] # <<>> => answer[s] # <<>> \/ s \in pending
  PROVE  Ends' /\ \A s \in Streams : Shut(s)' = Shut(s)
BY DEF Ends, host, Shut, Begun

-----------------------------------------------------------------------------
(* run *)

LEMMA OfSpawn ==
  ASSUME IInv, Spawn
  PROVE  IInv'
<1> DEFINE open == piped
           shut == WriteCloses(input)
           going == WriteSubmits(input) \cup (Outputs \cap piped)
<1>1. /\ pc = "start" /\ lives' = TRUE /\ Loop(going, shut, open)
      /\ UNCHANGED <<given, piped, input, output, kernel, pipe, steps, got, eof, put>>
  BY DEF Spawn
<1>2. going = open \ shut /\ shut \subseteq open
  BY DEF WriteSubmits, WriteCloses, IInv, TypeOK, Streams, Outputs
<1>3. \A s \in Streams : ~Shut(s) /\ answer[s] = <<>>  BY <1>1 DEF IInv, Ends, Shut, Begun
<1>4. \A s \in Streams : /\ closes[s] = IF s \in piped \ open THEN 1 ELSE 0
                         /\ answer'[s] # <<>> => s \in going
  BY <1>1, <1>3 DEF IInv, Ends, kernel
<1> HIDE DEF going, shut
<1>5. /\ Ends' /\ Begun' /\ pending' = going /\ fds' = going
      /\ pending' \subseteq Streams /\ closes' \in [Streams -> Nat]
      /\ pc' \in {"start", "loop", "wait", "returned", "threw"}
  BY <1>1, <1>2, <1>4, OfLoop DEF IInv
<1>6. TypeOK'  BY <1>1, <1>5 DEF IInv, TypeOK, kernel
<1>7. \A s \in Streams : Shut(s)' => s \in shut  BY <1>1, <1>2, <1>5 DEF Shut
<1>8. ASSUME NEW s \in Outputs  PROVE Out(s)'
  <2>1. ~(Shut(s)') /\ answer[s] = <<>>
    BY <1>3, <1>7 DEF shut, WriteCloses, Streams, Outputs
  <2> QED  BY <1>1, <2>1 DEF IInv, Out, kernel, Came, Counts
<1>9. In'
  <2>1. "in" \in Streams  BY DEF Streams
  <2>2. Shut("in")' => input = <<>>  BY <1>7, <2>1 DEF shut, WriteCloses
  <2>3. Len(got) + Len(pipe["in"]) + Len(input) = Len(given) + Came("in")
    BY <1>1 DEF IInv, In
  <2> QED  BY <1>1, <1>5, <2>2, <2>3 DEF IInv, In, kernel, Came, Reply, Counts
<1> QED  BY <1>5, <1>6, <1>8, <1>9 DEF IInv

LEMMA OfWrote ==
  ASSUME IInv, Wrote
  PROVE  IInv'
<1> DEFINE rest == IF Failed("in") THEN <<>> ELSE Rest(Came("in"))
           shut == WriteCloses(rest)
           going == (pending \ {"in"}) \cup WriteSubmits(rest)
<1>1. /\ "in" \in Streams /\ "in" \in pending /\ "in" \in piped /\ answer["in"] # <<>>
      /\ answer' = [answer EXCEPT !["in"] = <<>>] /\ pc = "loop"
      /\ input' = rest /\ Loop(going, shut, fds)
      /\ UNCHANGED <<given, piped, output, errors, pipe, program>>
  BY DEF Wrote, Taken, Came, Reply, IInv, Ends, Streams
<1>2. going = fds \ shut /\ shut \subseteq fds /\ fds \subseteq piped
  BY <1>1 DEF WriteSubmits, WriteCloses, IInv, Ends
<1>3. \A s \in Streams : /\ closes[s] = IF s \in piped \ fds THEN 1 ELSE 0
                         /\ answer'[s] # <<>> => s \in going
  BY <1>1 DEF IInv, TypeOK, Ends, Shut, Begun
<1> HIDE DEF going, shut
<1>4. /\ Ends' /\ Begun' /\ pending' = going /\ fds' = going
      /\ pending' \subseteq Streams /\ closes' \in [Streams -> Nat]
      /\ pc' \in {"start", "loop", "wait", "returned", "threw"}
  BY <1>1, <1>2, <1>3, OfLoop DEF IInv
<1>5. answer'["in"] = <<>> /\ answer' \in [Streams -> Seq(Replies)]
      /\ \A s \in Outputs : answer'[s] = answer[s]
  BY <1>1, EmptySeq DEF IInv, TypeOK, Outputs
<1>6. /\ input \in Seqs /\ Len(input) \in Nat /\ Len(given) \in Nat /\ Came("in") \in 0..Len(input)
      /\ Counts(input, Len(given) - Len(input))
  BY <1>1, Typed DEF IInv, In
<1>7. /\ rest \in Seqs /\ Counts(rest, Len(given) - Len(rest))
      /\ ~Failed("in") => Len(rest) = Len(input) - Came("in")
  <2>1. CASE Failed("in")  BY <2>1, CountsNone
  <2>2. CASE ~Failed("in")
    <3> DEFINE k == Came("in")
               n == Len(given) - Len(input)
    <3>1. rest = SubSeq(input, k + 1, Len(input))  BY <2>2 DEF Rest
    <3>2. n \in Int /\ k \in 0..Len(input) /\ Counts(input, n) /\ input \in Seqs  BY <1>6
    <3> HIDE DEF k, n, rest
    <3>3. rest \in Seqs /\ Len(rest) = Len(input) - k /\ Counts(rest, n + k)
      BY <3>1, <3>2, CountsSplit
    <3>4. n + k = Len(given) - Len(rest)
      <4>1. n = Len(given) - Len(input) /\ k \in Nat  BY <1>6 DEF n, k
      <4> QED  BY <1>6, <3>3, <4>1, SMT
    <3> QED  BY <3>3, <3>4 DEF k
  <2> QED  BY <2>1, <2>2
<1>8. TypeOK'  BY <1>1, <1>4, <1>5, <1>7 DEF IInv, TypeOK, program
<1>9. ASSUME NEW s \in Outputs  PROVE Out(s)'
  <2>1. Shut(s)' => Shut(s)
    <3>1. s \notin shut /\ Begun  BY <1>1 DEF shut, WriteCloses, Outputs, Begun
    <3> QED  BY <1>1, <1>2, <1>4, <3>1 DEF Shut
  <2> QED  BY <1>1, <1>5, <2>1, OutStays DEF IInv, program
<1>10. In'
  <2>1. Shut("in")' => rest = <<>>
    <3>1. Shut("in")' => "in" \in shut  BY <1>1, <1>2, <1>4 DEF Shut, IInv, Ends
    <3> QED  BY <3>1 DEF shut, WriteCloses
  <2>2. "in" \in pending' \/ errors["in"] = 0 => ~Failed("in")
    <3>1. Failed("in") => rest = <<>> /\ errors["in"] # 0
      BY <1>1 DEF IInv, In, Failed, Reply
    <3>2. rest = <<>> => "in" \notin going
      <4>1. rest = <<>> => "in" \in shut  BY <1>1 DEF shut, WriteCloses
      <4> QED  BY <1>2, <4>1
    <3> QED  BY <1>4, <3>1, <3>2
  <2>3. "in" \in pending' \/ errors["in"] = 0 =>
          Len(got) + Len(pipe["in"]) + Len(rest) = Len(given)
    <3>1. Len(got) + Len(pipe["in"]) + Len(input) = Len(given) + Came("in")
      BY <1>1 DEF IInv, In
    <3>2. Len(got) \in Nat /\ Len(pipe["in"]) \in Nat  BY <1>1, Typed DEF IInv
    <3>3. Came("in") \in Nat  BY <1>6, SMT
    <3> HIDE DEF rest
    <3> QED  BY <1>6, <1>7, <2>2, <3>1, <3>2, <3>3, SMT
  <2>4. pc' # "start"  BY <1>4 DEF Begun
  <2>5. Came("in")' = 0  BY <1>5 DEF Came
  <2> HIDE DEF rest
  <2>6. /\ given' = given /\ got' = got /\ input' = rest /\ pipe' = pipe /\ errors' = errors /\ eof' = eof
    BY <1>1 DEF program
  <2>7. /\ Counts(given, 0) /\ Counts(got, 0) /\ Counts(pipe["in"], Len(got))
        /\ Len(got) + Len(pipe["in"]) <= Len(given)
        /\ eof /\ errors["in"] = 0 => Len(got) = Len(given)
    BY DEF IInv, In
  <2>8. Len(got) + Len(pipe["in"]) + Len(rest) = Len(given)
          => Len(got) + Len(pipe["in"]) + Len(rest) = Len(given) + 0
    BY <1>6
  <2> QED  BY <1>5, <1>7, <2>1, <2>3, <2>4, <2>5, <2>6, <2>7, <2>8 DEF In, Counts
<1> QED  BY <1>4, <1>8, <1>9, <1>10 DEF IInv

LEMMA OfRead ==
  ASSUME IInv, NEW s \in Outputs, Read(s)
  PROVE  IInv'
<1> DEFINE bytes == Reply(s).bytes
           shut == {t \in {s} : Failed(s) \/ bytes = <<>>}
           going == pending \ shut
<1>1. /\ s \in Streams /\ s \in pending /\ answer[s] # <<>> /\ pc = "loop"
      /\ answer' = [answer EXCEPT ![s] = <<>>]
      /\ output' = [output EXCEPT ![s] = @ \o bytes] /\ Loop(going, shut, fds)
      /\ UNCHANGED <<given, piped, input, errors, pipe, program>>
  BY DEF Read, Taken, Collect, Reply, Streams
<1>2. going = fds \ shut /\ shut \subseteq fds /\ fds \subseteq piped
  BY <1>1 DEF IInv, Ends
<1>3. \A t \in Streams : /\ closes[t] = IF t \in piped \ fds THEN 1 ELSE 0
                         /\ answer'[t] # <<>> => t \in going
  BY <1>1 DEF IInv, TypeOK, Ends, Shut, Begun
<1>4. /\ bytes \in Seqs /\ output[s] \in Seqs /\ Came(s) = Len(bytes)
      /\ Counts(output[s], 0) /\ Counts(bytes, Len(output[s])) /\ Len(output[s]) \in Nat
      /\ Len(bytes) \in Nat /\ Len(pipe[s]) \in Nat
  <2>1. bytes \in Seqs => Len(bytes) \in Nat  BY LenProperties DEF Seqs
  <2> QED  BY <1>1, <2>1, Typed DEF IInv, Out
<1>5. Failed(s) => errors[s] # 0
  BY <1>1 DEF IInv, Out, Failed, Reply
<1>6. ~Failed(s) /\ bytes = <<>> => ~lives /\ pipe[s] = <<>>
  BY <1>1 DEF IInv, Out, Failed, Reply
<1> HIDE DEF going, shut
<1>7. /\ Ends' /\ Begun' /\ pending' = going /\ fds' = going
      /\ pending' \subseteq Streams /\ closes' \in [Streams -> Nat]
      /\ pc' \in {"start", "loop", "wait", "returned", "threw"}
  BY <1>1, <1>2, <1>3, OfLoop DEF IInv
<1>8. answer' \in [Streams -> Seq(Replies)] /\ answer'[s] = <<>>
      /\ \A t \in Streams \ {s} : answer'[t] = answer[t]
  BY <1>1, EmptySeq DEF IInv, TypeOK
<1> DEFINE o == output[s] \o bytes
<1>9. o \in Seqs /\ Len(o) = Len(output[s]) + Len(bytes) /\ Counts(o, 0)
  <2>1. 0 + Len(output[s]) = Len(output[s]) /\ 0 \in Int  BY <1>4
  <2> QED  BY <1>4, <2>1, CountsJoin
<1> HIDE DEF o
<1>10. output' \in [Outputs -> Seqs] /\ output'[s] = o
       /\ \A t \in Outputs \ {s} : output'[t] = output[t]
  BY <1>1, <1>9 DEF IInv, TypeOK, o
<1>11. TypeOK'  BY <1>1, <1>7, <1>8, <1>10 DEF IInv, TypeOK, program
<1>12. \A t \in Streams \ {s} : Shut(t)' => Shut(t)
  <2>1. Begun  BY <1>1 DEF Begun
  <2>2. \A t \in Streams \ {s} : t \notin shut  BY DEF shut
  <2> QED  BY <1>1, <1>2, <1>7, <2>1, <2>2 DEF Shut
<1>13. In'
  <2>1. "in" \in Streams \ {s}  BY DEF Streams, Outputs
  <2>2. pc' # "start"  BY <1>7 DEF Begun
  <2> QED  BY <1>1, <1>2, <1>7, <1>8, <1>12, <2>1, <2>2, InStays DEF IInv, Ends, program
<1>14. ASSUME NEW t \in Outputs  PROVE Out(t)'
  <2>1. CASE t # s
    <3>1. t \in Streams  BY DEF Streams
    <3> QED  BY <1>1, <1>8, <1>10, <1>12, <2>1, <3>1, OutStays DEF IInv, program
  <2>2. CASE t = s
    <3>1. Shut(s)' /\ errors[s] = 0 => ~lives /\ pipe[s] = <<>>
      <4>1. Shut(s)' => s \in shut  BY <1>1, <1>2, <1>7 DEF Shut, IInv, Ends
      <4> QED  BY <1>5, <1>6, <4>1 DEF shut
    <3>2. Came(s)' = 0  BY <1>8 DEF Came
    <3>3. Counts(pipe[s], Len(o)) /\ put[s] = Len(o) + Len(pipe[s])
      <4>1. Counts(pipe[s], Len(output[s]) + Came(s)) /\ put[s] = Len(output[s]) + Came(s) + Len(pipe[s])
        BY DEF IInv, Out
      <4> QED  BY <1>4, <1>9, <4>1
    <3>4. Len(o) + 0 = Len(o)  BY <1>4, <1>9
    <3>5. pipe' = pipe /\ put' = put /\ errors' = errors /\ lives' = lives  BY <1>1 DEF program
    <3>6. /\ Counts(output'[s], 0) /\ Counts(pipe'[s], Len(output'[s]) + Came(s)')
          /\ put'[s] = Len(output'[s]) + Came(s)' + Len(pipe'[s])
      BY <1>9, <1>10, <3>2, <3>3, <3>4, <3>5
    <3> QED  BY <1>8, <2>2, <3>1, <3>5, <3>6 DEF Out, Counts
  <2> QED  BY <2>1, <2>2
<1> QED  BY <1>7, <1>11, <1>13, <1>14 DEF IInv

\* run throws before it begins, or returns.
LEMMA OfEnd ==
  ASSUME IInv, SpawnFails \/ Wait
  PROVE  IInv'
<1>1. /\ UNCHANGED <<given, piped, input, output, pending, fds, closes, kernel, pipe, program>>
      /\ \/ pc = "start" /\ pc' = "threw"
         \/ pc = "wait" /\ pc' = "returned"
  BY DEF SpawnFails, Wait
<1>2. /\ Begun' <=> Begun
      /\ \A s \in Streams : Shut(s)' <=> Shut(s)
  BY <1>1 DEF Begun, Shut
<1>3. TypeOK'  BY <1>1 DEF IInv, TypeOK, kernel, program
<1>4. Ends'  BY <1>1, <1>2 DEF IInv, Ends, kernel, program
<1>5. In'
  <2>1. "in" \in Streams /\ pc' # "start"  BY <1>1 DEF Streams
  <2> QED  BY <1>1, <1>2, <2>1, InStays DEF IInv, kernel, program
<1>6. \A s \in Outputs : Out(s)'
  <2>1. Outputs \subseteq Streams  BY DEF Streams
  <2> QED  BY <1>1, <1>2, <2>1, OutStays DEF IInv, kernel, program
<1> QED  BY <1>3, <1>4, <1>5, <1>6 DEF IInv

-----------------------------------------------------------------------------
(* The kernel *)

LEMMA OfAnswers ==
  ASSUME IInv, NEW s \in Streams, Asked(s), NEW failed \in BOOLEAN, NEW bytes \in Seqs,
         Answers(s, failed, bytes), pipe' \in [Streams -> Seqs]
  PROVE  /\ TypeOK' /\ Ends' /\ Begun /\ pc # "start"
         /\ \A t \in Streams : Shut(t)' = Shut(t)
         /\ Came(s) = 0 /\ answer'[s] # <<>> /\ Came(s)' = Len(bytes)
         /\ Reply(s)'.bytes = bytes /\ Reply(s)'.failed = failed
         /\ errors'[s] = errors[s] + IF failed THEN 1 ELSE 0
         /\ \A t \in Streams \ {s} : answer'[t] = answer[t] /\ errors'[t] = errors[t]
         /\ ~Shut(s)
<1> DEFINE r == [failed |-> failed, bytes |-> bytes]
<1>1. /\ answer' = [answer EXCEPT ![s] = <<r>>]
      /\ errors' = [errors EXCEPT ![s] = @ + IF failed THEN 1 ELSE 0]
      /\ UNCHANGED <<given, piped, host, program>>
      /\ answer[s] = <<>> /\ s \in pending
  BY DEF Answers, Asked
<1>2. r \in Replies /\ r.bytes = bytes /\ r.failed = failed  BY DEF Replies
<1> HIDE DEF r
<1>3. <<r>> \in Seq(Replies) /\ <<r>> # <<>> /\ <<r>>[1] = r  BY <1>2
<1>4. answer'[s] = <<r>> /\ \A t \in Streams \ {s} : answer'[t] = answer[t]
  BY <1>1 DEF IInv, TypeOK
<1>5. errors'[s] = errors[s] + (IF failed THEN 1 ELSE 0)
      /\ errors' \in [Streams -> Nat] /\ \A t \in Streams \ {s} : errors'[t] = errors[t]
  BY <1>1 DEF IInv, TypeOK
<1>6. answer' \in [Streams -> Seq(Replies)]  BY <1>1, <1>3 DEF IInv, TypeOK
<1>7. TypeOK'  BY <1>1, <1>5, <1>6 DEF IInv, TypeOK, host, program
<1>8. Ends' /\ \A t \in Streams : Shut(t)' = Shut(t)
  BY <1>1, <1>4, EndsStay DEF IInv, program
<1>9. Begun /\ pc # "start" /\ ~Shut(s)  BY <1>1 DEF IInv, Ends, Begun, Shut
<1> QED  BY <1>1, <1>2, <1>3, <1>4, <1>5, <1>7, <1>8, <1>9 DEF Came, Reply

\* What a read brings leaves the pipe's front.
LEMMA OfOutAnswer ==
  ASSUME IInv, NEW s \in Outputs, Asked(s), NEW failed \in BOOLEAN, NEW k \in 0..Len(pipe[s]),
         Answers(s, failed, SubSeq(pipe[s], 1, k)),
         pipe' = [pipe EXCEPT ![s] = SubSeq(@, k + 1, Len(@))],
         k = 0 => failed \/ (~lives /\ pipe[s] = <<>>)
  PROVE  IInv'
<1> DEFINE p == pipe[s]
           bytes == SubSeq(p, 1, k)
           rest == SubSeq(p, k + 1, Len(p))
<1>1. s \in Streams /\ p \in Seqs /\ output[s] \in Seqs /\ Len(output[s]) \in Nat /\ Len(p) \in Nat
      /\ pipe \in [Streams -> Seqs]
  <2>1. s \in Streams  BY DEF Streams
  <2> QED  BY <2>1, Typed DEF IInv, TypeOK
<1>2. Came(s) = 0  BY DEF Asked, Came
<1>3. /\ Counts(p, Len(output[s])) /\ put[s] = Len(output[s]) + Len(p) /\ Counts(output[s], 0)
  <2>1. Counts(p, Len(output[s]) + Came(s)) /\ put[s] = Len(output[s]) + Came(s) + Len(p)
        /\ Counts(output[s], 0)
    BY DEF IInv, Out
  <2> QED  BY <1>1, <1>2, <2>1
<1>4. /\ bytes \in Seqs /\ Len(bytes) = k /\ Counts(bytes, Len(output[s]))
      /\ rest \in Seqs /\ Len(rest) = Len(p) - k /\ Counts(rest, Len(output[s]) + k)
  <2>1. Len(output[s]) \in Int  BY <1>1
  <2> HIDE DEF p
  <2> QED  BY <1>1, <1>3, <2>1, CountsSplit DEF p
<1>5. pipe' \in [Streams -> Seqs] /\ pipe'[s] = rest /\ \A t \in Streams \ {s} : pipe'[t] = pipe[t]
  BY <1>1, <1>4
<1> HIDE DEF bytes, rest, p
<1>6. /\ TypeOK' /\ Ends' /\ Begun /\ pc # "start"
      /\ \A t \in Streams : Shut(t)' = Shut(t)
      /\ answer'[s] # <<>> /\ Came(s)' = Len(bytes)
      /\ Reply(s)'.bytes = bytes /\ Reply(s)'.failed = failed
      /\ errors'[s] = errors[s] + IF failed THEN 1 ELSE 0
      /\ \A t \in Streams \ {s} : answer'[t] = answer[t] /\ errors'[t] = errors[t]
      /\ ~Shut(s)
  <2>1. Answers(s, failed, bytes)  BY DEF bytes, p
  <2> QED  BY <1>1, <1>4, <1>5, <2>1, OfAnswers
<1>7. UNCHANGED <<given, piped, pc, input, output, pending, fds, closes, steps, got, put, eof, lives>>
  BY DEF Answers, host, program
<1>8. In'
  <2>1. "in" \in Streams \ {s}  BY DEF Streams, Outputs
  <2> QED  BY <1>5, <1>6, <1>7, <2>1, InStays DEF IInv
<1>9. ASSUME NEW t \in Outputs  PROVE Out(t)'
  <2>1. CASE t # s
    <3>1. t \in Streams  BY DEF Streams
    <3> QED  BY <1>5, <1>6, <1>7, <2>1, <3>1, OutStays DEF IInv
  <2>2. CASE t = s
    <3>1. k \in Nat /\ errors[s] \in Nat  BY <1>1, Typed, SMT DEF IInv
    <3>2. /\ Counts(rest, Len(output[s]) + Len(bytes))
          /\ put[s] = Len(output[s]) + Len(bytes) + Len(rest)
      BY <1>1, <1>3, <1>4, <3>1
    <3>3. failed => errors'[s] # 0  BY <1>6, <3>1
    <3>4. ~failed /\ bytes = <<>> => ~lives /\ rest = <<>>
      <4>1. bytes = <<>> => k = 0  BY <1>4, CountsNone
      <4>2. p = <<>> => rest = <<>>
        <5>1. p = <<>> => Len(p) = 0  BY CountsNone
        <5>2. p = <<>> => Len(rest) = 0  BY <1>1, <1>4, <3>1, <5>1
        <5> QED  BY <1>4, <5>2, EmptySeq DEF Seqs
      <4> QED  BY <4>1, <4>2 DEF p
    <3>5. ~(Shut(s)')  BY <1>1, <1>6
    <3>6. /\ Counts(output'[s], 0)
          /\ Counts(pipe'[s], Len(output'[s]) + Came(s)')
          /\ put'[s] = Len(output'[s]) + Came(s)' + Len(pipe'[s])
          /\ Counts(Reply(s)'.bytes, Len(output'[s]))
          /\ Reply(s)'.failed => errors'[s] # 0
          /\ ~Reply(s)'.failed /\ Reply(s)'.bytes = <<>> => ~lives' /\ pipe'[s] = <<>>
      BY <1>3, <1>4, <1>5, <1>6, <1>7, <3>2, <3>3, <3>4
    <3> QED  BY <2>2, <3>5, <3>6 DEF Out, Counts
  <2> QED  BY <2>1, <2>2
<1> QED  BY <1>6, <1>8, <1>9 DEF IInv

LEMMA OfDoRead ==
  ASSUME IInv, NEW s \in Outputs, DoRead(s)
  PROVE  IInv'
<1>1. s \in Streams /\ pipe[s] \in Seqs /\ Len(pipe[s]) \in Nat /\ pipe \in [Streams -> Seqs]
  <2>1. s \in Streams  BY DEF Streams
  <2> QED  BY <2>1, Typed DEF IInv, TypeOK
<1>2. Asked(s)  BY DEF DoRead
<1>3. ASSUME NEW n \in 1..Len(pipe[s]),
             pipe' = [pipe EXCEPT ![s] = SubSeq(@, n + 1, Len(@))],
             Answers(s, FALSE, SubSeq(pipe[s], 1, n))
      PROVE  IInv'
  <2>1. n \in 0..Len(pipe[s]) /\ n # 0 /\ FALSE \in BOOLEAN  BY <1>1
  <2> QED  BY <1>2, <1>3, <2>1, OfOutAnswer
<1>4. CASE ~lives /\ pipe[s] = <<>> /\ Answers(s, FALSE, <<>>) /\ UNCHANGED pipe
  <2>1. 0 \in 0..Len(pipe[s]) /\ FALSE \in BOOLEAN  BY <1>1
  <2>2. SubSeq(pipe[s], 1, 0) = <<>> /\ SubSeq(pipe[s], 0 + 1, Len(pipe[s])) = pipe[s]
    BY <1>1, <1>4, SMT DEF Seqs
  <2>3. pipe' = [pipe EXCEPT ![s] = SubSeq(@, 0 + 1, Len(@))]  BY <1>1, <1>4, <2>2
  <2> QED  BY <1>2, <1>4, <2>1, <2>2, <2>3, OfOutAnswer
<1> QED  BY <1>3, <1>4 DEF DoRead

LEMMA OfFails ==
  ASSUME IInv, NEW s \in Outputs, Fails(s)
  PROVE  IInv'
<1>1. s \in Streams /\ pipe[s] \in Seqs /\ Len(pipe[s]) \in Nat /\ pipe \in [Streams -> Seqs]
  <2>1. s \in Streams  BY DEF Streams
  <2> QED  BY <2>1, Typed DEF IInv, TypeOK
<1>2. Asked(s) /\ Answers(s, TRUE, <<>>) /\ pipe' = pipe  BY DEF Fails
<1>3. 0 \in 0..Len(pipe[s]) /\ TRUE \in BOOLEAN  BY <1>1
<1>4. SubSeq(pipe[s], 1, 0) = <<>> /\ SubSeq(pipe[s], 0 + 1, Len(pipe[s])) = pipe[s]
  <2>1. SubSeq(pipe[s], 1, 0) = <<>>  BY SubSeqEmpty, SMT
  <2>2. SubSeq(pipe[s], 1, Len(pipe[s])) = pipe[s]  BY <1>1, SubSeqFull DEF Seqs
  <2> QED  BY <2>1, <2>2
<1>5. pipe' = [pipe EXCEPT ![s] = SubSeq(@, 0 + 1, Len(@))]  BY <1>1, <1>2, <1>4
<1> QED  BY <1>2, <1>3, <1>4, <1>5, OfOutAnswer

\* What a write took of the input goes to the end of the pipe.
LEMMA OfInAnswer ==
  ASSUME IInv, Asked("in"), NEW failed \in BOOLEAN, NEW k \in 0..Len(input),
         Answers("in", failed, SubSeq(input, 1, k)),
         pipe' = [pipe EXCEPT !["in"] = @ \o SubSeq(input, 1, k)]
  PROVE  IInv'
<1> DEFINE p == pipe["in"]
           bytes == SubSeq(input, 1, k)
           n == Len(given) - Len(input)
           q == p \o bytes
<1>1. /\ "in" \in Streams /\ p \in Seqs /\ input \in Seqs /\ pipe \in [Streams -> Seqs]
      /\ Len(p) \in Nat /\ Len(input) \in Nat /\ Len(got) \in Nat /\ Len(given) \in Nat
      /\ errors["in"] \in Nat
  <2>1. "in" \in Streams  BY DEF Streams
  <2> QED  BY <2>1, Typed DEF IInv, TypeOK
<1>2. "in" \in pending /\ Came("in") = 0  BY DEF Asked, Came
<1>3. /\ Counts(p, Len(got)) /\ Counts(input, n) /\ Counts(given, 0) /\ Counts(got, 0)
      /\ Len(got) + Len(p) + Len(input) = Len(given)
      /\ eof /\ errors["in"] = 0 => Len(got) = Len(given)
  <2>1. Len(got) + Len(p) + Len(input) = Len(given) + Came("in")  BY <1>2 DEF IInv, In
  <2> QED  BY <1>1, <1>2, <2>1 DEF IInv, In
<1>4. n = Len(got) + Len(p) /\ n \in Int /\ Len(got) \in Int  BY <1>1, <1>3
<1>5. bytes \in Seqs /\ Len(bytes) = k /\ Counts(bytes, n)
  <2> HIDE DEF n
  <2> QED  BY <1>1, <1>3, <1>4, CountsSplit
<1> HIDE DEF bytes, p, n
<1>6. q \in Seqs /\ Len(q) = Len(p) + k /\ Counts(q, Len(got))
  BY <1>1, <1>3, <1>4, <1>5, CountsJoin
<1> HIDE DEF q
<1>7. pipe' \in [Streams -> Seqs] /\ pipe'["in"] = q /\ \A s \in Outputs : pipe'[s] = pipe[s]
  BY <1>1, <1>6 DEF q, p, bytes, Outputs
<1>8. /\ TypeOK' /\ Ends' /\ Begun /\ pc # "start"
      /\ \A t \in Streams : Shut(t)' = Shut(t)
      /\ answer'["in"] # <<>> /\ Came("in")' = Len(bytes)
      /\ Reply("in")'.failed = failed
      /\ errors'["in"] = errors["in"] + IF failed THEN 1 ELSE 0
      /\ \A t \in Streams \ {"in"} : answer'[t] = answer[t] /\ errors'[t] = errors[t]
      /\ ~Shut("in")
  <2>1. Answers("in", failed, bytes)  BY DEF bytes
  <2> QED  BY <1>1, <1>5, <1>7, <2>1, OfAnswers
<1>9. UNCHANGED <<given, piped, pc, input, output, pending, fds, closes, steps, got, put, eof, lives>>
  BY DEF Answers, host, program
<1>10. \A s \in Outputs : Out(s)'
  <2>1. Outputs \subseteq Streams \ {"in"}  BY DEF Streams, Outputs
  <2> QED  BY <1>7, <1>8, <1>9, <2>1, OutStays DEF IInv
<1>11. In'
  <2>1. k \in Nat /\ k <= Len(input)  BY <1>1
  <2>2. /\ Len(got) + Len(q) <= Len(given)
        /\ Len(got) + Len(q) + Len(input) = Len(given) + Len(bytes)
    <3>1. Len(got) + Len(p) + Len(input) = Len(given)  BY <1>3
    <3>2. Len(q) = Len(p) + k /\ Len(bytes) = k  BY <1>5, <1>6
    <3>3. Len(p) \in Nat /\ Len(input) \in Nat /\ Len(got) \in Nat /\ Len(given) \in Nat
      BY <1>1
    <3> QED  BY <2>1, <3>1, <3>2, <3>3, SMT
  <2>3. errors'["in"] = 0 => errors["in"] = 0  BY <1>1, <1>8
  <2>4. failed => errors'["in"] # 0  BY <1>1, <1>8
  <2>5. ~(Shut("in")') /\ Came("in")' <= Len(input)  BY <1>1, <1>5, <1>8, <2>1
  <2> QED  BY <1>3, <1>6, <1>7, <1>8, <1>9, <2>2, <2>3, <2>4, <2>5 DEF In, Counts, n
<1> QED  BY <1>8, <1>10, <1>11 DEF IInv

LEMMA OfDoWrite ==
  ASSUME IInv, DoWrite \/ Fails("in")
  PROVE  IInv'
<1>1. /\ "in" \in Streams /\ pipe["in"] \in Seqs /\ Len(pipe["in"]) \in Nat /\ Len(input) \in Nat
      /\ pipe \in [Streams -> Seqs]
  <2>1. "in" \in Streams  BY DEF Streams
  <2> QED  BY <2>1, Typed DEF IInv, TypeOK
<1>2. Asked("in")  BY DEF DoWrite, Fails
<1>3. ASSUME NEW n \in 1..(PipeMax - Len(pipe["in"])), n <= Len(input),
             pipe' = [pipe EXCEPT !["in"] = @ \o SubSeq(input, 1, n)],
             Answers("in", FALSE, SubSeq(input, 1, n))
      PROVE  IInv'
  <2>1. n \in 0..Len(input) /\ FALSE \in BOOLEAN
    <3>1. PipeMax \in Nat  BY RunAssumption
    <3> QED  BY <1>1, <1>3, <3>1
  <2> QED  BY <1>2, <1>3, <2>1, OfInAnswer
<1>4. CASE Answers("in", TRUE, <<>>) /\ pipe' = pipe
  <2>1. 0 \in 0..Len(input) /\ TRUE \in BOOLEAN  BY <1>1
  <2>2. SubSeq(input, 1, 0) = <<>>  BY SubSeqEmpty, SMT
  <2>3. pipe["in"] \o <<>> = pipe["in"]  BY <1>1, ConcatEmptySeq DEF Seqs
  <2>4. pipe' = [pipe EXCEPT !["in"] = @ \o SubSeq(input, 1, 0)]  BY <1>1, <1>4, <2>2, <2>3
  <2> QED  BY <1>2, <1>4, <2>1, <2>2, <2>4, OfInAnswer
<1> QED  BY <1>3, <1>4 DEF DoWrite, Fails

-----------------------------------------------------------------------------
(* The program *)

LEMMA OfGetsIn ==
  ASSUME IInv, GetsIn
  PROVE  IInv'
<1>1. /\ UNCHANGED <<given, piped, host, kernel, put, lives>> /\ lives
      /\ \/ /\ "in" \notin piped \/ (pipe["in"] = <<>> /\ "in" \notin fds)
            /\ eof' = ("in" \in piped) /\ UNCHANGED <<got, pipe>>
         \/ \E n \in 1..Len(pipe["in"]) :
              /\ got' = got \o SubSeq(pipe["in"], 1, n)
              /\ pipe' = [pipe EXCEPT !["in"] = SubSeq(@, n + 1, Len(@))]
              /\ UNCHANGED eof
  BY DEF GetsIn, Step
<1> DEFINE p == pipe["in"]
<1>2. /\ "in" \in Streams /\ p \in Seqs /\ pipe \in [Streams -> Seqs] /\ got \in Seqs
      /\ Len(p) \in Nat /\ Len(input) \in Nat /\ Len(got) \in Nat /\ Len(given) \in Nat
      /\ Came("in") \in Nat
  <2>1. "in" \in Streams  BY DEF Streams
  <2> QED  BY <2>1, Typed DEF IInv, TypeOK
<1>3. Ends' /\ \A t \in Streams : Shut(t)' = Shut(t)
  BY <1>1, EndsStay DEF IInv, kernel
<1>4. CASE /\ "in" \notin piped \/ (pipe["in"] = <<>> /\ "in" \notin fds)
           /\ eof' = ("in" \in piped) /\ UNCHANGED <<got, pipe>>
  <2>1. TypeOK'  BY <1>1, <1>4 DEF IInv, TypeOK, host, kernel
  <2>2. \A s \in Outputs : Out(s)'
    <3>1. Outputs \subseteq Streams  BY DEF Streams
    <3> QED  BY <1>1, <1>3, <1>4, <3>1, OutStays DEF IInv, kernel, host
  <2>3. eof' /\ errors["in"] = 0 => Len(got) = Len(given)
    <3> SUFFICES ASSUME eof', errors["in"] = 0  PROVE Len(got) = Len(given)
      OBVIOUS
    <3>1. "in" \in piped /\ p = <<>> /\ "in" \notin fds  BY <1>4
    <3>2. Shut("in") /\ answer["in"] = <<>>  BY <1>1, <1>2, <3>1 DEF IInv, Ends, Shut
    <3>3. input = <<>> /\ Came("in") = 0  BY <3>2 DEF IInv, In, Came
    <3>4. Len(got) + Len(p) + Len(input) = Len(given) + Came("in")  BY DEF IInv, In
    <3>5. Len(p) = 0 /\ Len(input) = 0  BY <3>1, <3>3, CountsNone
    <3> QED  BY <1>2, <3>3, <3>4, <3>5
  <2>4. In'  BY <1>1, <1>2, <1>3, <1>4, <2>3 DEF IInv, In, host, kernel, Came, Reply, Counts
  <2> QED  BY <1>3, <2>1, <2>2, <2>4 DEF IInv
<1>5. ASSUME NEW n \in 1..Len(p), got' = got \o SubSeq(p, 1, n),
             pipe' = [pipe EXCEPT !["in"] = SubSeq(@, n + 1, Len(@))], UNCHANGED eof
      PROVE  IInv'
  <2> DEFINE bytes == SubSeq(p, 1, n)
             rest == SubSeq(p, n + 1, Len(p))
             g == got \o bytes
  <2>1. /\ Counts(p, Len(got)) /\ Counts(got, 0) /\ n \in 0..Len(p) /\ Len(got) \in Int
        /\ 0 + Len(got) = Len(got) /\ 0 \in Int
    BY <1>2 DEF IInv, In
  <2> HIDE DEF p
  <2>2. /\ bytes \in Seqs /\ Len(bytes) = n /\ Counts(bytes, Len(got))
        /\ rest \in Seqs /\ Len(rest) = Len(p) - n /\ Counts(rest, Len(got) + n)
    BY <1>2, <2>1, CountsSplit
  <2> HIDE DEF bytes, rest
  <2>3. g \in Seqs /\ Len(g) = Len(got) + n /\ Counts(g, 0)
    BY <1>2, <2>1, <2>2, CountsJoin
  <2>4. got' = g  BY <1>5 DEF bytes
  <2> HIDE DEF g
  <2>5. pipe' \in [Streams -> Seqs] /\ pipe'["in"] = rest /\ \A s \in Outputs : pipe'[s] = pipe[s]
    BY <1>2, <1>5, <2>2 DEF p, rest, Outputs
  <2>6. TypeOK'  BY <1>1, <2>3, <2>4, <2>5 DEF IInv, TypeOK, host, kernel
  <2>7. \A s \in Outputs : Out(s)'
    <3>1. Outputs \subseteq Streams  BY DEF Streams
    <3> QED  BY <1>1, <1>3, <2>5, <3>1, OutStays DEF IInv, kernel, host
  <2>8. In'
    <3>1. n \in Nat  BY <1>2
    <3>2. Len(g) + Len(rest) = Len(got) + Len(p)  BY <1>2, <2>2, <2>3, <3>1
    <3>3. /\ Len(got) + Len(p) <= Len(given)
          /\ eof /\ errors["in"] = 0 => Len(got) = Len(given)
          /\ pc = "start" \/ "in" \in pending \/ errors["in"] = 0 =>
               Len(got) + Len(p) + Len(input) = Len(given) + Came("in")
      BY DEF IInv, In, p
    <3>4. eof /\ errors["in"] = 0 => Len(g) = Len(given)
      BY <1>2, <2>3, <3>1, <3>3
    <3>5. Counts(rest, Len(g))  BY <2>2, <2>3
    <3>6. Came("in")' = Came("in")  BY <1>1 DEF kernel, Came, Reply
    <3>7. /\ Counts(given, 0) /\ Counts(input, Len(given) - Len(input))
          /\ answer["in"] # <<>> =>
               Came("in") <= Len(input) /\ (Reply("in").failed => errors["in"] # 0)
          /\ Shut("in") => input = <<>>
      BY DEF IInv, In
    <3>8. UNCHANGED <<given, input, pending, answer, errors, eof, pc>> /\ Reply("in")' = Reply("in")
      BY <1>1, <1>5 DEF host, kernel, Reply
    <3> QED
      BY <1>2, <1>3, <2>3, <2>4, <2>5, <3>2, <3>3, <3>4, <3>5, <3>6, <3>7, <3>8 DEF In, Counts
  <2> QED  BY <1>3, <2>6, <2>7, <2>8 DEF IInv
<1> QED  BY <1>1, <1>4, <1>5

LEMMA OfPuts ==
  ASSUME IInv, NEW s \in Outputs, Puts(s)
  PROVE  IInv'
<1>1. /\ UNCHANGED <<given, piped, host, kernel, got, eof>> /\ lives
      /\ \/ /\ s \in fds /\ lives' = lives
            /\ put' = [put EXCEPT ![s] = @ + 1]
            /\ pipe' = [pipe EXCEPT ![s] = Append(@, put[s] + 1)]
         \/ /\ lives' \in BOOLEAN /\ UNCHANGED <<put, pipe>>
  BY DEF Puts, Step
<1> DEFINE p == pipe[s]
<1>2. /\ s \in Streams /\ p \in Seqs /\ pipe \in [Streams -> Seqs] /\ put \in [Outputs -> Nat]
      /\ Len(p) \in Nat /\ Len(output[s]) \in Nat /\ Came(s) \in Nat /\ put[s] \in Nat
  <2>1. s \in Streams  BY DEF Streams
  <2> QED  BY <2>1, Typed DEF IInv, TypeOK
<1>3. Ends' /\ \A t \in Streams : Shut(t)' = Shut(t)
  BY <1>1, EndsStay DEF IInv, kernel
<1>4. CASE lives' \in BOOLEAN /\ UNCHANGED <<put, pipe>>
  <2>1. TypeOK'  BY <1>1, <1>4 DEF IInv, TypeOK, host, kernel
  <2>2. \A t \in Outputs : Out(t)'
    <3>1. Outputs \subseteq Streams  BY DEF Streams
    <3> QED  BY <1>1, <1>3, <1>4, <3>1, OutStays DEF IInv, kernel, host
  <2>3. In'
    <3>1. "in" \in Streams  BY DEF Streams
    <3> QED  BY <1>1, <1>3, <1>4, <3>1, InStays DEF IInv, kernel, host
  <2> QED  BY <1>3, <2>1, <2>2, <2>3 DEF IInv
<1>5. CASE /\ s \in fds /\ lives' = lives
           /\ put' = [put EXCEPT ![s] = @ + 1]
           /\ pipe' = [pipe EXCEPT ![s] = Append(@, put[s] + 1)]
  <2> DEFINE q == Append(p, put[s] + 1)
  <2>1. q \in Seqs /\ Len(q) = Len(p) + 1 /\ q[Len(p) + 1] = put[s] + 1
        /\ \A i \in 1..Len(p) : q[i] = p[i]
    <3>1. put[s] + 1 \in Nat  BY <1>2
    <3> HIDE DEF p
    <3> QED  BY <1>2, <3>1, AppendProperties, SMT DEF Seqs
  <2>2. /\ Counts(p, Len(output[s]) + Came(s)) /\ put[s] = Len(output[s]) + Came(s) + Len(p)
    BY DEF IInv, Out
  <2> HIDE DEF q, p
  <2>3. Counts(q, Len(output[s]) + Came(s))
    <3> SUFFICES ASSUME NEW i \in 1..Len(q)  PROVE q[i] = Len(output[s]) + Came(s) + i
      BY DEF Counts
    <3>1. CASE i \in 1..Len(p)  BY <2>1, <2>2, <3>1 DEF Counts
    <3>2. CASE i = Len(p) + 1  BY <1>2, <2>1, <2>2, <3>2
    <3> QED  BY <1>2, <2>1, <3>1, <3>2
  <2>4. pipe' \in [Streams -> Seqs] /\ pipe'[s] = q /\ \A t \in Streams \ {s} : pipe'[t] = pipe[t]
    BY <1>2, <1>5, <2>1 DEF p, q
  <2>5. put' \in [Outputs -> Nat] /\ put'[s] = put[s] + 1 /\ \A t \in Outputs \ {s} : put'[t] = put[t]
    BY <1>2, <1>5
  <2>6. TypeOK'  BY <1>1, <1>5, <2>4, <2>5 DEF IInv, TypeOK, host, kernel
  <2>7. In'
    <3>1. "in" \in Streams \ {s}  BY DEF Streams, Outputs
    <3> QED  BY <1>1, <1>3, <2>4, <3>1, InStays DEF IInv, kernel, host
  <2>8. ASSUME NEW t \in Outputs  PROVE Out(t)'
    <3>1. CASE t # s
      <4>1. t \in Streams  BY DEF Streams
      <4> QED  BY <1>1, <1>3, <1>5, <2>4, <2>5, <3>1, <4>1, OutStays DEF IInv, kernel, host
    <3>2. CASE t = s
      <4>1. put'[s] = Len(output[s]) + Came(s) + Len(q)  BY <1>2, <2>1, <2>2, <2>5
      <4>2. ~Shut(s) /\ ~(Shut(s)')  BY <1>2, <1>3, <1>5 DEF Shut
      <4>3. answer[s] # <<>> => ~(~Reply(s).failed /\ Reply(s).bytes = <<>>)
        BY <1>1 DEF IInv, Out
      <4>4. /\ Counts(output[s], 0)
            /\ answer[s] # <<>> =>
                 Counts(Reply(s).bytes, Len(output[s])) /\ (Reply(s).failed => errors[s] # 0)
        BY DEF IInv, Out
      <4>5. UNCHANGED <<output, answer, errors>> /\ Came(s)' = Came(s) /\ Reply(s)' = Reply(s)
        BY <1>1 DEF host, kernel, Came, Reply
      <4> QED  BY <2>3, <2>4, <3>2, <4>1, <4>2, <4>3, <4>4, <4>5 DEF Out, Counts
    <3> QED  BY <3>1, <3>2
  <2> QED  BY <1>3, <2>6, <2>7, <2>8 DEF IInv
<1> QED  BY <1>1, <1>4, <1>5

LEMMA OfExits ==
  ASSUME IInv, Exits
  PROVE  IInv'
<1>1. /\ lives /\ ~lives' /\ lives' \in BOOLEAN
      /\ UNCHANGED <<given, piped, host, kernel, pipe, steps, got, eof, put>>
  BY DEF Exits
<1>2. Ends' /\ \A t \in Streams : Shut(t)' = Shut(t)
  BY <1>1, EndsStay DEF IInv, kernel
<1>3. TypeOK'  BY <1>1 DEF IInv, TypeOK, host, kernel
<1>4. Outputs \subseteq Streams /\ "in" \in Streams  BY DEF Streams
<1>5. \A t \in Outputs : Out(t)'  BY <1>1, <1>2, <1>4, OutStays DEF IInv, kernel, host
<1>6. In'  BY <1>1, <1>2, <1>4, InStays DEF IInv, kernel, host
<1> QED  BY <1>2, <1>3, <1>5, <1>6 DEF IInv

-----------------------------------------------------------------------------
(* The theorems *)

LEMMA Starts == Init => IInv
<1> SUFFICES ASSUME Init  PROVE IInv
  OBVIOUS
<1>1. PICK n \in Nat : given = Bytes(n)
  <2>1. MaxInput \in Nat  BY RunAssumption
  <2>2. PICK n \in IF "in" \in piped THEN 0..MaxInput ELSE {0} : given = Bytes(n)  BY DEF Init
  <2>3. n \in Nat  BY <2>1, <2>2
  <2> QED  BY <2>2, <2>3
<1>2. given \in Seqs /\ Len(given) \in Nat /\ Counts(given, 0)  BY <1>1, CountsBytes
<1>3. /\ piped \subseteq Streams /\ pc = "start" /\ input = given /\ output = [s \in Outputs |-> <<>>]
      /\ pending = {} /\ fds = {} /\ closes = [s \in Streams |-> 0]
      /\ answer = [s \in Streams |-> <<>>] /\ errors = [s \in Streams |-> 0]
      /\ pipe = [s \in Streams |-> <<>>]
      /\ lives = FALSE /\ got = <<>> /\ eof = FALSE /\ put = [s \in Outputs |-> 0]
  BY DEF Init, GhStdio, BufStdio, NtfyStdio, Streams
<1>4. <<>> \in Seqs /\ Len(<<>>) = 0 /\ \A k : Counts(<<>>, k)  BY CountsNone
<1>5. <<>> \in Seq(Replies)  BY EmptySeq
<1>6. TypeOK  BY <1>2, <1>3, <1>4, <1>5 DEF TypeOK
<1>7. Outputs \subseteq Streams /\ "in" \in Streams /\ ~Begun  BY <1>3 DEF Streams, Begun
<1>8. \A s \in Streams : ~Shut(s) /\ Came(s) = 0 /\ answer[s] = <<>> /\ pipe[s] = <<>>
  BY <1>3, <1>7 DEF Shut, Came
<1>9. Ends  BY <1>3, <1>7, <1>8 DEF Ends
<1>10. In
  <2>1. Len(given) - Len(given) = 0 /\ 0 + 0 <= Len(given) /\ 0 + 0 + Len(given) = Len(given) + 0
    BY <1>2
  <2> QED  BY <1>2, <1>3, <1>4, <1>7, <1>8, <2>1 DEF In
<1>11. \A s \in Outputs : Out(s)
  <2>1. 0 = 0 + 0 + 0  OBVIOUS
  <2> QED  BY <1>3, <1>4, <1>7, <1>8, <2>1 DEF Out
<1> QED  BY <1>6, <1>9, <1>10, <1>11 DEF IInv

LEMMA Steps == IInv /\ [Next]_vars => IInv'
<1> SUFFICES ASSUME IInv, [Next]_vars  PROVE IInv'
  OBVIOUS
<1>1. CASE UNCHANGED vars
  <2>1. UNCHANGED <<given, piped, host, kernel, program, pipe>>  BY <1>1 DEF vars
  <2>2. Ends' /\ \A t \in Streams : Shut(t)' = Shut(t)
    BY <2>1, EndsStay DEF IInv, kernel, program
  <2>3. TypeOK'  BY <2>1 DEF IInv, TypeOK, host, kernel, program
  <2>4. Outputs \subseteq Streams /\ "in" \in Streams  BY DEF Streams
  <2>5. \A t \in Outputs : Out(t)'  BY <2>1, <2>2, <2>4, OutStays DEF IInv, kernel, host, program
  <2>6. In'  BY <2>1, <2>2, <2>4, InStays DEF IInv, kernel, host, program
  <2> QED  BY <2>2, <2>3, <2>5, <2>6 DEF IInv
<1>2. CASE Spawn  BY <1>2, OfSpawn
<1>3. CASE Wrote  BY <1>3, OfWrote
<1>4. ASSUME NEW s \in Outputs, Read(s)  PROVE IInv'  BY <1>4, OfRead
<1>5. CASE SpawnFails \/ Wait  BY <1>5, OfEnd
<1>6. CASE GetsIn  BY <1>6, OfGetsIn
<1>7. ASSUME NEW s \in Outputs, Puts(s)  PROVE IInv'  BY <1>7, OfPuts
<1>8. CASE Exits  BY <1>8, OfExits
<1>9. CASE DoWrite  BY <1>9, OfDoWrite
<1>10. ASSUME NEW s \in Outputs, DoRead(s)  PROVE IInv'  BY <1>10, OfDoRead
<1>11. ASSUME NEW s \in Streams, Fails(s)  PROVE IInv'
  <2>1. CASE s = "in"  BY <1>11, <2>1, OfDoWrite
  <2>2. CASE s \in Outputs  BY <1>11, <2>2, OfFails
  <2> QED  BY <2>1, <2>2 DEF Streams
<1> QED
  BY <1>1, <1>2, <1>3, <1>4, <1>5, <1>6, <1>7, <1>8, <1>9, <1>10, <1>11 DEF Next, Run, Program

LEMMA Always == Spec => []IInv
BY Starts, Steps, PTL DEF Spec

\* run closes each of its pipes once, never while it has an operation submitted
\* on it, and all of them before it returns (gh-host.mjs, run).
THEOREM ClosedOnce == Spec => []FdsOnce
<1>1. IInv => FdsOnce  BY DEF IInv, Ends, Shut, FdsOnce
<1> QED  BY <1>1, Always, PTL

\* What the program wrote is what run returns, and the program reads the input it
\* was given, unless the kernel failed an operation (gh-host.mjs, run).
THEOREM Lossless == Spec => []StreamsExact
<1>1. IInv => InputExact
  <2> SUFFICES ASSUME IInv  PROVE InputExact
    OBVIOUS
  <2>1. "in" \in Streams  BY DEF Streams
  <2>2. /\ given \in Seqs /\ got \in Seqs /\ Counts(given, 0) /\ Counts(got, 0)
        /\ Len(got) <= Len(given) /\ (eof /\ errors["in"] = 0 => Len(got) = Len(given))
    BY <2>1, Typed DEF IInv, In
  <2>3. got = SubSeq(given, 1, Len(got))  BY <2>2, CountsPrefix
  <2>4. got = Bytes(Len(got)) /\ given = Bytes(Len(given))  BY <2>2, CountsIs
  <2> QED  BY <2>2, <2>3, <2>4 DEF InputExact
<1>2. IInv => OutputExact
  <2> SUFFICES ASSUME IInv, pc = "returned", NEW s \in Outputs \cap piped, errors[s] = 0
               PROVE  output[s] = Bytes(put[s])
    BY DEF OutputExact
  <2>1. s \in Streams /\ s \in Outputs  BY DEF Streams
  <2>2. Shut(s) /\ answer[s] = <<>>  BY <2>1 DEF IInv, Ends, Shut, Begun
  <2>3. pipe[s] = <<>> /\ Came(s) = 0 /\ Counts(output[s], 0)
        /\ put[s] = Len(output[s]) + Came(s) + Len(pipe[s])
    BY <2>1, <2>2 DEF IInv, Out, Came
  <2>4. output[s] \in Seqs /\ Len(output[s]) \in Nat  BY <2>1, Typed DEF IInv
  <2>5. put[s] = Len(output[s])  BY <2>3, <2>4, CountsNone
  <2> QED  BY <2>3, <2>4, <2>5, CountsIs
<1> QED  BY <1>1, <1>2, Always, PTL DEF StreamsExact
=============================================================================
