------------------------------- MODULE PnpmHost -------------------------------
(***************************************************************************)
(* The operations that pnpm's wasm starts through its host imports         *)
(* (pnpm-host.mjs, pnpm_host): requests, publishes from a staged upload,   *)
(* spawned programs.  Every worker of the process has an instance of the   *)
(* module, with a ready map of its own; the ids and completions of         *)
(* ctx.async, the files of /tmp/.wasi-pnpm, the memory and the kernel's    *)
(* connections, descriptors and processes are shared by all of them.       *)
(*                                                                         *)
(* pnpm and the kernel are external.  pnpm, in any worker, starts          *)
(* operations, waits for a completion, asks every operation it waits for   *)
(* for its answer, and may cancel one instead of reading it.               *)
(***************************************************************************)
EXTENDS Integers, Sequences, FiniteSets

CONSTANTS Workers,
          Uploads,   \* handles of uploads, below
          Pids,      \* pids the kernel may give
          MaxUpload, \* MAX_UPLOAD, in chunks of one size
          MaxOps,    \* bound on the operations
          Careful    \* what pnpm does not do: cancel a publish or close its
                     \* upload while "upload.end" sends it, or end the upload
                     \* of one it has cancelled

ASSUME HostAssumption ==
  /\ Pids \subseteq Nat \ {0} /\ MaxUpload \in Nat /\ MaxOps \in Nat
  /\ Careful \subseteq {"upload.end"}

-----------------------------------------------------------------------------
(* Handles *)

FD_HANDLE == 268435456    \* 0x10000000
PROC_HANDLE == 536870912  \* 0x20000000
SYNTHETIC == 1073741824   \* 0x40000000
NoFd == -1                \* null

FdHandle(fd) == FD_HANDLE + fd
IsFdHandle(h) == FD_HANDLE <= h /\ h < PROC_HANDLE
IsProcHandle(h) == PROC_HANDLE <= h /\ h < SYNTHETIC
IsSynthetic(h) == h >= SYNTHETIC
\* A child's handle holds its pid and the descriptor of its stdin.
\* (Mutant: descriptor 0 is taken for none.)
ProcHandleFrom0(pid, stdin) == PROC_HANDLE + pid * 1024 + (IF stdin = NoFd THEN 0 ELSE stdin)
ProcHandle(pid, stdin) == PROC_HANDLE + pid * 1024 + (IF stdin = NoFd THEN 0 ELSE stdin + 1)
ProcOf(h) ==
  LET rest == h - PROC_HANDLE
      stdin == (rest % 1024) - 1
  IN [pid |-> rest \div 1024, stdin |-> IF stdin < 0 THEN NoFd ELSE stdin]

\* The kernel's object or the file that a handle is for.
Object(h) ==
  IF IsFdHandle(h) THEN [type |-> "fd", n |-> h - FD_HANDLE]
  ELSE IF IsProcHandle(h) THEN [type |-> "proc", n |-> ProcOf(h).pid]
  ELSE IF IsSynthetic(h) THEN [type |-> "file", n |-> h - SYNTHETIC]
  ELSE [type |-> "net", n |-> h]
Stdin(h) == IF IsProcHandle(h) /\ ProcOf(h).stdin # NoFd
              THEN {[type |-> "fd", n |-> ProcOf(h).stdin]} ELSE {}

-----------------------------------------------------------------------------
VARIABLES
  cors,    \* the transport is a plain page's (net-traits)
  ops,     \* what was started, in the order of the ids: "get", "put",
           \* "spawn", "publish", or "lost" for an id pnpm was not given
  async,   \* ctx.async, per id: "held", "pending", "done", or "gone"
  wake,    \* some id is done that no wait_completion has returned
  answer,  \* per id, the handles in its answer
  ready,   \* per worker, the ids with an answer in its ready map
  results, \* the ids with a file result-<id>
  over,    \* the ids pnpm has read the answer of or cancelled
  open,    \* the kernel's connections, descriptors and processes, and the
           \* files of synthetic responses
  mine,    \* the handles pnpm has
  ended,   \* those of processes whose stdin it has closed, and of
           \* synthetic responses it has read
  lost,    \* the handles that were in an answer the host dropped, and the
           \* stdin of each child it closed without it: open for good
  upload,  \* per upload: its chunk files, its marker (the id of the request,
           \* 0 without one), the id once requested, what pnpm wrote and did
  blocks,  \* the staged requests in memory, by id
  sent,    \* per id, the bodies of the publishes sent for it
  failed,  \* the ids of the publishes whose upload.end answered EIO
  pc       \* per worker, what it is in the middle of
objects == <<open, mine, ended, lost>>
answers == <<async, wake, answer, ready, results, over>>
staging == <<upload, blocks, sent, failed>>
vars == <<cors, ops, answers, objects, staging, pc>>

Ids == 1..MaxOps
Idle == [at |-> "idle"]
Started == 1..Len(ops)
NoUpload == [dir |-> FALSE, chunks |-> <<>>, marker |-> 0, id |-> 0, wrote |-> 0,
             left |-> FALSE] \* left: ended or closed, pnpm is done with it

Init ==
  /\ cors \in BOOLEAN
  /\ ops = <<>> /\ async = [i \in Ids |-> "gone"] /\ wake = FALSE
  /\ answer = [i \in Ids |-> {}] /\ ready = [w \in Workers |-> {}]
  /\ results = {} /\ over = {}
  /\ open = {} /\ mine = {} /\ ended = {} /\ lost = {}
  /\ upload = [u \in Uploads |-> NoUpload]
  /\ blocks = {} /\ sent = [i \in Ids |-> <<>>] /\ failed = {}
  /\ pc = [w \in Workers |-> Idle]

\* The kernel's numbers are the least that are not in use, allocate()'s are
\* random, so taken for new.
Least(type, used) ==
  CHOOSE n \in 0..Cardinality(used) : /\ [type |-> type, n |-> n] \notin used
                                      /\ \A m \in 0..(n - 1) : [type |-> type, n |-> m] \in used
Net == [type |-> "net", n |-> Least("net", open)]
File == [type |-> "file", n |-> Least("file", open \cup {Object(h) : h \in ended})]
HandleOf(o) == IF o.type = "file" THEN SYNTHETIC + o.n ELSE o.n

\* ctx.async.resolve(): a new id that is done at once, with these handles.
Resolve(what, handles) ==
  /\ ops' = Append(ops, what)
  /\ async' = [async EXCEPT ![Len(ops) + 1] = "done"]
  /\ answer' = [answer EXCEPT ![Len(ops) + 1] = handles]
  /\ wake' = TRUE
  /\ UNCHANGED <<ready, results, over>>
\* An answer with a response of the host's own: its body is a file.
Synthetic(what) ==
  /\ open' = open \cup {File}
  /\ Resolve(what, {HandleOf(File)})
  /\ UNCHANGED <<mine, ended, lost>>

CanStart(w) == pc[w] = Idle /\ Len(ops) < MaxOps

-----------------------------------------------------------------------------
(* operation_start *)

\* A GET: the kernel does it, and completes the id.
Get(w) ==
  /\ CanStart(w)
  /\ ops' = Append(ops, "get")
  /\ async' = [async EXCEPT ![Len(ops) + 1] = "pending"]
  /\ UNCHANGED <<cors, wake, answer, ready, results, over, objects, staging, pc>>
Complete(i) ==
  /\ async[i] = "pending"
  /\ async' = [async EXCEPT ![i] = "done"] /\ wake' = TRUE
  /\ \/ open' = open \cup {Net} /\ answer' = [answer EXCEPT ![i] = {HandleOf(Net)}]
     \/ UNCHANGED <<open, answer>>
  /\ UNCHANGED <<cors, ops, ready, results, over, mine, ended, lost, staging, pc>>

\* A publish with its body in the request is sent before operation_start
\* returns (sendNow), or refused, or too large, or cannot be sent.
Put(w) ==
  /\ CanStart(w)
  /\ \/ Synthetic("put")
     \/ ~cors /\ open' = open \cup {Net} /\ Resolve("put", {HandleOf(Net)}) /\ UNCHANGED <<mine, ended, lost>>
  /\ UNCHANGED <<cors, staging, pc>>

\* spawnGit, spawnSh, spawnCommand: a child with stdin and output piped or
\* not (out stands for stdout and stderr), or an error.
Spawn(w) ==
  /\ CanStart(w)
  /\ \/ Resolve("spawn", {}) /\ UNCHANGED objects
     \/ \E in, out \in BOOLEAN, pid \in Pids :
          LET infd == IF in THEN Least("fd", open) ELSE NoFd
              piped == IF in THEN {[type |-> "fd", n |-> infd]} ELSE {}
              outfd == Least("fd", open \cup piped)
          IN /\ [type |-> "proc", n |-> pid] \notin open
             /\ open' = open \cup piped \cup {[type |-> "proc", n |-> pid]}
                          \cup (IF out THEN {[type |-> "fd", n |-> outfd]} ELSE {})
             /\ Resolve("spawn", {ProcHandle(pid, infd)} \cup IF out THEN {FdHandle(outfd)} ELSE {})
             /\ UNCHANGED <<mine, ended, lost>>
  /\ UNCHANGED <<cors, staging, pc>>

\* upload.create, whose answer pnpm reads at once.
Create(w, u) ==
  /\ pc[w] = Idle /\ ~upload[u].dir /\ ~upload[u].left
  /\ upload' = [upload EXCEPT ![u].dir = TRUE]
  /\ UNCHANGED <<cors, ops, answers, objects, blocks, sent, failed, pc>>

\* upload.write: refused when it is too large, else a file named by the
\* number of files there are.
Write(w, u) ==
  /\ pc[w] = Idle /\ upload[u].dir /\ ~upload[u].left
  /\ Len(upload[u].chunks) < MaxUpload
  /\ upload' = [upload EXCEPT ![u].chunks = Append(@, upload[u].wrote + 1), ![u].wrote = @ + 1]
  /\ UNCHANGED <<cors, ops, answers, objects, blocks, sent, failed, pc>>

\* A publish whose body is the upload: the id is only held, the request is
\* staged in pnpm's memory and the marker says where; or malloc fails, and the
\* answer is another id's.
Publish(w, u) ==
  /\ CanStart(w) /\ upload[u].dir /\ ~upload[u].left /\ upload[u].id = 0
  /\ \/ /\ cors /\ Synthetic("put")
        /\ upload' = [upload EXCEPT ![u].id = Len(ops) + 1]
        /\ UNCHANGED <<blocks, sent, failed>>
     \/ /\ ~cors
        /\ ops' = Append(ops, "publish")
        /\ async' = [async EXCEPT ![Len(ops) + 1] = "held"]
        /\ upload' = [upload EXCEPT ![u].id = Len(ops) + 1, ![u].marker = Len(ops) + 1]
        /\ blocks' = blocks \cup {Len(ops) + 1}
        /\ UNCHANGED <<wake, answer, ready, results, over, objects, sent, failed>>
     \/ /\ ~cors /\ Len(ops) + 2 <= MaxOps
        /\ ops' = ops \o <<"lost", "put">>
        /\ async' = [async EXCEPT ![Len(ops) + 1] = "held", ![Len(ops) + 2] = "done"]
        /\ wake' = TRUE /\ over' = over \cup {Len(ops) + 1}
        /\ upload' = [upload EXCEPT ![u].id = Len(ops) + 2]
        /\ UNCHANGED <<answer, ready, results, objects, blocks, sent, failed>>
  /\ UNCHANGED <<cors, pc>>

-----------------------------------------------------------------------------
(* upload.end (sendDeferred), in the worker that starts it *)

\* pnpm ends an upload it has made the request for.
EndMarker(w, u) ==
  /\ pc[w] = Idle /\ upload[u].dir /\ ~upload[u].left /\ upload[u].id # 0
  /\ "upload.end" \in Careful => upload[u].id \notin over
  /\ upload' = [upload EXCEPT ![u].left = TRUE]
  /\ IF upload[u].marker = 0
       THEN wake' = TRUE /\ UNCHANGED pc
       ELSE pc' = [pc EXCEPT ![w] = [at |-> "staged", u |-> u, id |-> upload[u].marker]]
            /\ UNCHANGED wake
  /\ UNCHANGED <<cors, ops, async, answer, ready, results, over, objects, blocks, sent, failed>>

\* The staged request is copied, cleared and freed, and its marker removed.
EndStaged(w) ==
  /\ pc[w].at = "staged"
  /\ blocks' = blocks \ {pc[w].id}
  /\ upload' = [upload EXCEPT ![pc[w].u].marker = 0]
  /\ pc' = [pc EXCEPT ![w].at = "body"]
  /\ UNCHANGED <<cors, ops, answers, objects, sent, failed>>

\* uploadChunks: by number, however readdir orders them.  (Mutant: as readdir
\* gives them, the last first.)
Unsorted(n) == [i \in 1..n |-> n + 1 - i]
InOrder(n) == [i \in 1..n |-> i]
\* uploadBody and uploadRemove.
EndBody(w) ==
  LET u == pc[w].u
      order == InOrder(Len(upload[u].chunks))
  IN /\ pc[w].at = "body"
     /\ pc' = [pc EXCEPT ![w] = [at |-> "send", u |-> u, id |-> @.id,
                                 body |-> [i \in DOMAIN order |-> upload[u].chunks[order[i]]]]]
     /\ \/ upload' = [upload EXCEPT ![u].chunks = <<>>, ![u].dir = FALSE]
        \/ UNCHANGED upload \* uploadRemove failed
     /\ UNCHANGED <<cors, ops, answers, objects, blocks, sent, failed>>

\* The result is in its file before upload.end's own id is done.  (Mutant: the
\* other way round.)
StepsResolveFirst == <<"resolve", "result">>
Steps == <<"result", "resolve">>
Then(w) == IF pc[w].at = Steps[1] THEN [pc[w] EXCEPT !.at = Steps[2]] ELSE Idle

\* sendNow: the answer's head, or a synthetic one.
EndSend(w) ==
  /\ pc[w].at = "send"
  /\ sent' = [sent EXCEPT ![pc[w].id] = Append(@, pc[w].body)]
  /\ \E o \in {Net, File} :
       /\ open' = open \cup {o}
       /\ pc' = [pc EXCEPT ![w] = [at |-> Steps[1], id |-> @.id, handle |-> HandleOf(o)]]
  /\ UNCHANGED <<cors, ops, answers, mine, ended, lost, upload, blocks, failed>>
EndResult(w) ==
  /\ pc[w].at = "result"
  /\ results' = results \cup {pc[w].id}
  /\ answer' = [answer EXCEPT ![pc[w].id] = {pc[w].handle}]
  /\ pc' = [pc EXCEPT ![w] = Then(w)]
  /\ UNCHANGED <<cors, ops, async, wake, ready, over, objects, staging>>
EndResolve(w) ==
  /\ pc[w].at = "resolve"
  /\ wake' = TRUE
  /\ pc' = [pc EXCEPT ![w] = Then(w)]
  /\ UNCHANGED <<cors, ops, async, answer, ready, results, over, objects, staging>>
\* The catch of upload.end: a chunk cannot be read, or a synthetic head or the
\* result cannot be written.  The id of the publish is not answered, and its
\* marker is gone; a result that is not written loses the answer's handle.
EndFails(w) ==
  /\ pc[w].at \in {"body", "send", "result"}
  /\ failed' = failed \cup {pc[w].id}
  /\ sent' = IF pc[w].at = "send" THEN [sent EXCEPT ![pc[w].id] = Append(@, pc[w].body)] ELSE sent
  /\ lost' = IF pc[w].at = "result" THEN lost \cup {pc[w].handle} ELSE lost
  /\ wake' = TRUE
  /\ pc' = [pc EXCEPT ![w] = Idle]
  /\ UNCHANGED <<cors, ops, async, answer, ready, results, over, open, mine, ended, upload, blocks>>

-----------------------------------------------------------------------------
(* Waiting, reading, cancelling, closing *)

\* wait_completion, after which pnpm asks everything it waits for: a deferred
\* answer has no completion of its own.
WaitCompletion(w) ==
  /\ pc[w] = Idle /\ wake
  /\ wake' = FALSE
  /\ pc' = [pc EXCEPT ![w] = [at |-> "ask", ids |-> Started \ over]]
  /\ UNCHANGED <<cors, ops, async, answer, ready, results, over, objects, staging>>

Asking(w, i) == pc[w].at = "ask" /\ i \in pc[w].ids
AskedOf(i) == {w \in Workers : i \in ready[w]}
Asked(w, i) ==
  LET left == pc[w].ids \ {i}
  IN pc' = [pc EXCEPT ![w] = IF left = {} THEN Idle ELSE [at |-> "ask", ids |-> left]]

\* response_len: in the ready map, or the kernel's (take), or a file
\* (deferredResult), or -1.  An answer of the kernel's that is longer than
\* MAX_RESPONSE becomes an error, without its handle.
ResponseLen(w, i) ==
  /\ Asking(w, i) /\ i \notin ready[w]
  /\ IF async[i] = "done" \/ i \in results
       THEN /\ ready' = [ready EXCEPT ![w] = @ \cup {i}]
            /\ async' = [async EXCEPT ![i] = IF @ = "done" THEN "gone" ELSE @]
            /\ results' = IF async[i] = "done" THEN results ELSE results \ {i}
            /\ \/ UNCHANGED <<answer, lost>>
               \/ /\ async[i] = "done" /\ ops[i] \in {"get", "put"}
                  /\ answer' = [answer EXCEPT ![i] = {}] /\ lost' = lost \cup answer[i]
            /\ UNCHANGED pc
       ELSE Asked(w, i) /\ UNCHANGED <<ready, async, results, answer, lost>>
  /\ UNCHANGED <<cors, ops, wake, over, open, mine, ended, staging>>
\* response_read.
ResponseRead(w, i) ==
  /\ Asking(w, i) /\ i \in ready[w] /\ i \notin over
  /\ ready' = [ready EXCEPT ![w] = @ \ {i}]
  /\ over' = over \cup {i}
  /\ mine' = mine \cup answer[i]
  /\ Asked(w, i)
  /\ answer' = [answer EXCEPT ![i] = {}]
  /\ UNCHANGED <<cors, ops, async, wake, results, open, ended, lost, staging>>

Sending == {pc[w].id : w \in {v \in Workers : pc[v].at \notin {"idle", "ask"}}}
\* closeUnread: a child's output and the child, a response file, a connection.
\* (Mutant: only the handle.)
ClosedUnreadOne(i) == {Object(h) : h \in {x \in answer[i] : ~IsFdHandle(x)}}
ClosedUnread(i) == {Object(h) : h \in answer[i]}
\* The stdin of a child that closeUnread and closeChild leave open.
StdinLeft(h) == {FdHandle(o.n) : o \in Stdin(h)}
Requested(i) == async[i] = "done" /\ ops[i] = "get"
\* operation_cancel, in the worker that asked, if one has: an answer in the
\* ready map or in a file is closed, the kernel closes a request's (external),
\* and one that was there at once and was not asked for is dropped.
Cancel(w, i) ==
  /\ i \in Started \ over /\ AskedOf(i) \subseteq {w}
  /\ pc[w] = Idle \/ Asking(w, i)
  /\ "upload.end" \in Careful => i \notin Sending
  /\ over' = over \cup {i}
  /\ results' = results \ {i}
  /\ ready' = [ready EXCEPT ![w] = @ \ {i}]
  /\ \/ /\ i \in results \cup ready[w] \/ Requested(i)
        /\ open' = open \ ClosedUnread(i)
        /\ lost' = lost \cup UNION {StdinLeft(h) : h \in answer[i]}
     \/ /\ async[i] = "done" /\ ~Requested(i)
        /\ lost' = lost \cup answer[i] /\ UNCHANGED open
     \/ /\ i \notin results \cup ready[w] /\ async[i] # "done" /\ UNCHANGED <<open, lost>>
  /\ async' = [async EXCEPT ![i] = "gone"]
  /\ IF pc[w] = Idle THEN UNCHANGED pc ELSE Asked(w, i)
  /\ answer' = [answer EXCEPT ![i] = {}]
  /\ UNCHANGED <<cors, ops, wake, mine, ended, staging>>

\* resource.close and resource_close of a handle (closeChild, syntheticClose).
Close(w, h) ==
  /\ pc[w] = Idle /\ h \in mine
  /\ mine' = mine \ {h} /\ ended' = ended \ {h}
  /\ open' = open \ {Object(h)}
  /\ lost' = IF h \in ended THEN lost ELSE lost \cup StdinLeft(h)
  /\ UNCHANGED <<cors, ops, answers, staging, pc>>
\* process.closeStdin, process.end, process.endDetached.
CloseStdin(w, h) ==
  /\ pc[w] = Idle /\ h \in mine \ ended /\ Stdin(h) # {}
  /\ ended' = ended \cup {h}
  /\ open' = open \ Stdin(h)
  /\ UNCHANGED <<cors, ops, answers, mine, lost, staging, pc>>
\* stream.read of a synthetic response: its file is read and removed.
ReadSynthetic(w, h) ==
  /\ pc[w] = Idle /\ h \in mine \ ended /\ IsSynthetic(h)
  /\ ended' = ended \cup {h}
  /\ open' = open \ {Object(h)}
  /\ UNCHANGED <<cors, ops, answers, mine, lost, staging, pc>>
Reads(w, u) == pc[w].at \in {"staged", "body"} /\ pc[w].u = u
\* resource.close and resource_close of an upload (uploadRemove): a directory
\* with a marker stays.
CloseUpload(w, u) ==
  /\ pc[w] = Idle /\ upload[u].dir
  /\ "upload.end" \in Careful => \A v \in Workers : ~Reads(v, u)
  /\ upload' = [upload EXCEPT ![u].chunks = <<>>, ![u].left = TRUE,
                              ![u].dir = upload[u].marker # 0]
  /\ UNCHANGED <<cors, ops, answers, objects, blocks, sent, failed, pc>>

Start(w) ==
  \/ Get(w) \/ Put(w) \/ Spawn(w)
  \/ \E u \in Uploads : Create(w, u) \/ Write(w, u) \/ Publish(w, u) \/ EndMarker(w, u)
Ending(w) == EndStaged(w) \/ EndBody(w) \/ EndSend(w) \/ EndResult(w) \/ EndResolve(w)
             \/ EndFails(w)
Asks(w) == WaitCompletion(w) \/ \E i \in Ids : ResponseLen(w, i) \/ ResponseRead(w, i)
Drops(w) ==
  \/ \E i \in Ids : Cancel(w, i)
  \/ \E h \in mine : Close(w, h) \/ CloseStdin(w, h) \/ ReadSynthetic(w, h)
  \/ \E u \in Uploads : CloseUpload(w, u)
Next == (\E i \in Ids : Complete(i)) \/ \E w \in Workers : Start(w) \/ Ending(w) \/ Asks(w) \/ Drops(w)

\* The kernel completes what it was given, and the workers go on with what
\* they are in, and wait.
Fairness ==
  /\ \A i \in Ids : WF_vars(Complete(i))
  /\ \A w \in Workers : WF_vars(Ending(w)) /\ WF_vars(Asks(w))
Spec == Init /\ [][Next]_vars /\ Fairness

-----------------------------------------------------------------------------
Answers == UNION {answer[i] : i \in {j \in Started \ over :
             async[j] = "done" \/ j \in results \/ \E w \in Workers : j \in ready[w]}}
InEnd == {pc[w].handle : w \in {v \in Workers : pc[v].at = "result"}}
Reachable == mine \cup Answers \cup InEnd

\* What a handle is for: the thing itself, and a child's stdin while it is open.
For(h) == IF h \notin ended THEN {Object(h)} \cup Stdin(h)
          ELSE IF IsSynthetic(h) THEN {} ELSE {Object(h)}

\* Nothing else leaks: every connection, descriptor, process and response
\* file that is open is one that pnpm has the handle of, or an answer it can
\* still read says so, or one of those the host loses where the code drops a
\* handle: operation_cancel of a publish or a spawn it was not asked about
\* (pnpm-host.mjs:806-813), a child closed before its stdin (654-659, 769-779),
\* an answer over the limit (765), a result that is not written (727-731).
\* What it loses is open for good, and nobody has it under another handle.
NoLeak ==
  /\ \A o \in open : \E h \in Reachable \cup lost : o \in For(h)
  /\ \A h \in lost : For(h) \subseteq open /\ \A g \in Reachable : For(g) \cap For(h) = {}

\* Nothing is closed under pnpm: what a handle it has, or can still read, is
\* for is open, and no two handles are for one thing, whatever the kernel's
\* numbers (pnpm-host.mjs:375-393).
HandlesHold ==
  /\ \A h \in Reachable : For(h) \subseteq open
  /\ \A g, h \in Reachable : For(g) \cap For(h) # {} => g = h

\* A publish is sent at most once, and with all of what pnpm wrote to its
\* upload, in order; and the memory its request is staged in is freed once,
\* with its marker, so a marker never says where something else may be by now
\* and nothing stays behind (pnpm-host.mjs:481-494, 520-548).
SentWhole ==
  /\ \A u \in Uploads : upload[u].id # 0 =>
       sent[upload[u].id] \in {<<>>, <<[k \in 1..upload[u].wrote |-> k]>>}
  /\ blocks = {upload[u].marker : u \in Uploads} \ {0}

\* pnpm never waits for good: it always comes to where every operation is
\* answered or cancelled, except a publish whose upload has not been ended, or
\* whose upload.end has answered EIO.  In particular upload.end wakes whoever
\* waits for the publish (pnpm-host.mjs:547, 726-732).
Owed(i) == i \in Started \ over /\ \A u \in Uploads : upload[u].id = i => upload[u].marker = 0
Answered == []<>(\A i \in Ids : Owed(i) => i \in failed)
=============================================================================
