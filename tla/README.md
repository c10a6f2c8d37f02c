# homescoop: specifications

TLA+ specifications of the parts of homescoop that keep state, checked with TLC
and, where it says so below, proved with TLAPS. homescoop is a set of recipes
that build programs and libraries for the SLICC kernel (WebAssembly programs in
a browser), with the code that makes those programs run there: a TLS engine,
patches of the WASIX libc, shims for Emscripten programs, a few Rust crates and
tools, and the pipeline that tests, merges and publishes the packages.

Paths are those of the repository. A comment such as `(slicc-fork.js:9-14)` in a
module names the lines a definition or property comes from; PROJECT.json maps
every definition to its lines and lists the hazards the properties are for.

## The parts of the system

| Part | State it keeps | Operations | Works with | Model |
| --- | --- | --- | --- | --- |
| `packages/tls-engine` (TLS for the kernel's proxy and Node's `tls`) | leaves (key and chain) and trust stores with reference counts, sessions with buffers, a hello gate and an Mbed TLS context | create, free, import, feed, drive, select, refuse, read, write, close | the kernel's JavaScript calls it; Mbed TLS under it | TlsHandles, TlsSelect, TlsGate |
| `packages/wasix-sysroot/patches` (libc) | the signal table and who has seeded it, thread masks, named semaphores, the interval timer, epoll's lists | sigaction, signal delivery, sem_open/close/unlink, setitimer, poll | the kernel's dispositions, handles and delivery | SigAction, NamedSem (timers, poll and files: not modelled) |
| `shims/slicc` (Emscripten programs) | the stack of forked parents, exited children, aliases of exec'd ones, the umask, popen's table | fork, exec, spawn, wait, exit, kill, popen, select | the kernel's processes and streams, Asyncify | SliccFork, ForkProcs (popen, select, jobs: not modelled) |
| `packages/wasi-hf` (Hugging Face downloads; retired, source kept) | `<file>.incomplete`, the file, the attempts of one run | pin, fetch, resume, verify, publish | the Hub over HTTP, the file system | HfFetch |
| the pipeline (`.github/workflows/ladder-build.yml` and `scripts/`) | pull requests' tarballs, main, the merge group, publish jobs, npm's versions and tag | push, run, group check, land, publish, re-run | GitHub's queue, artifacts and concurrency groups, npm | Ladder |
| `crates/wasix-net` (HTTP client) | idle connections, deadlines, a response being read | request, retry, redirect, read, drop | the kernel's sockets, servers, proxies | WasixNet |
| `packages/wasi-pnpm/package/host` (what pnpm's wasm imports) | results ready or deferred by operation, uploads staged in files, handles | start, wait, read, cancel, close, in several workers | pnpm's wasm, the kernel's asynchronous operations and files | PnpmHost |
| hosts of `wasi-gh`, `wasi-buf`, `wasi-ntfy` | the pipes and pending operations of one `run` | spawn a program, feed it, collect its output | the kernel's pipes, the program | HostRun |
| `packages/webrtc-audio-processing` (`index.js`) | the ring of references, a filling frame, views of the wasm's memory | cancel, reset, stats | the wasm, audio callbacks | EchoRing, EchoQueue |
| `crates/wasix-command`, `wasix-ureq`; mount, wasi-dig, uv-shim | at most one child or one call | one call after another | the kernel | no |
| recipes, patches, certificates, browser harness, recipe scripts | files | pure functions of files | each other, through CI | no |

How they interact: a recipe's program is linked with the libc patches or the
shims, which forward to the kernel (external here); the kernel calls
`__wasm_signal` back and calls the TLS engine; the pipeline ships all of them.
Apart from that the parts share no state, so they are modelled one by one, each
with the part of the kernel, of Mbed TLS, or of GitHub and npm that it sees.

What is hard in each, and what makes it correct:

* **tls-engine.** References move between caller and sessions in any order, and
  every call of Mbed TLS may fail halfway: counts must stay exact and no
  configuration may point at a freed chain. The hello gate parses the client's
  bytes in front of Mbed TLS: nothing may go out before the caller has chosen,
  the caller must see exactly the client's hello however it is split, a refusal
  must reach the client, the gate must decide before its buffer is full, and
  what is negotiated later (also from a second hello) must be what was chosen.
* **Signals.** Handlers nest through deliveries inside the mask calls of other
  handlers; the table and its report to the kernel are two steps; the table is
  seeded once, by whichever thread comes first. Masks must hold and come back,
  one-shot handlers must run once, libc and kernel must agree, and nobody may
  spin for ever.
* **Named semaphores.** The kernel's call is outside the table's lock and
  handles are reused: an open `sem_t` must stay the semaphore it was opened for,
  and handles must be counted exactly also when malloc fails.
* **fork.** One kernel process plays several, nested: each must keep its own
  memory, directory, umask, descriptors and children, and each status must be
  reaped once, by its parent, under the pid fork gave.
* **Downloads.** A kill at any point, a server that ignores ranges, corrupts or
  cuts short, and a revision that moves between runs.
* **HTTP client.** Threads share a pool of connections whose servers close them
  whenever they like: every response must be the answer to its own request,
  a repeat must not make a server act twice but where the protocol leaves no
  choice, and credentials must not follow a redirect to another host.
* **pnpm's host.** Operations complete in the kernel, are asked for in one
  worker and cancelled in another, and pass through three places on their way:
  nothing may leak, nothing pnpm still has may be closed, and a staged upload
  must be sent once and whole.
* **run.** A program that fills its output before it reads its input, pipes that
  hold little, three operations that complete in any order.
* **Echo canceller.** Chunks of any length against frames and a ring, output
  written over input, memory that moves: references must stay in step.
* **Pipeline.** Pull requests are built before they are merged, published after,
  by jobs that several pushes, re-runs and dispatches interleave, against a
  registry that lags.

## Modules

`M` is checked through `MCM` (constants, symmetry) and the `.cfg` named in the
run. Proofs are in `MProofs`, those of TlsHandles and TlsSelect together in
`TlsProofs`, those of SigAction and NamedSem in `SysrootProofs`, those of HfFetch
and Ladder in `DeliveryProofs` (so TlsSelect's `Init`, `Next` and `Spec` are
`SelectInit`, ..., NamedSem's `SemInit`, ..., Ladder's `LadderInit`, ...).

### TlsHandles, TlsProofs: leaves, stores and sessions

Source: `slicc_tls_engine.c`. Variables: the allocated leaves, stores and
sessions; the handles the caller has not freed; the counts; per leaf the head of
its chain ("own" when it is for the leaf's key) and the length; per session its
leaf, store, gate state, whether it has started and the chains its Mbed TLS
configuration points to (`conf`). One action per exported function, each with
its failing outcomes: a constructor that fails after taking references gives
them back, `tls_leaf_add_cert` leaves a foreign certificate at the head of a
chain it refuses. The engine is single-threaded, so an exported call is atomic.
The caller is assumed not to use a handle after freeing it.

### TlsSelect, TlsGate, TlsProofs: the hello gate

One session made with `TLS_SERVER_SELECT`, from creation to the end of its
handshake. A client is a stream of records carrying one message with a list of
extensions, bytes are counted and not stored. `Scan`, `Assemble` and `Parse`
follow `hello_assemble` and `hello_parse`, `Drive` is `tls_handshake`,
`tls_read` or `tls_write` with the gate in front, `Mbed` is Mbed TLS with
everything it might do: take any bytes, read any hello out of them, answer or
not, fail anywhere, ask for a second hello. After the handshake only `Drive`
and `Close` are left, the data path is not modelled. `TlsGate` is what the
package's README promises the caller (show, answer or refuse, agree, speak);
`ImplementsGate` maps TlsSelect to it.

### SigAction, SysrootProofs: sigaction and signal handlers

Source: `sigaction.c`, and `pthread_sigmask` in `sigmask.c`. Every thread has a
stack of the calls it is in: a `sigaction` with its steps (seed, store, report)
and activations of `__wasm_signal` (reset, tell, mask, call, restore). The
kernel delivers a signal a thread does not block while the thread runs the
program or has just returned from a host call, which is where WASIX checks for
signals; so deliveries nest inside the steps of others, as they do in the code.
`raced` collects the signals whose disposition two threads changed at once: the
code's report is outside its lock, and what happens then is under "Also seen".

### NamedSem, SysrootProofs: sem_open, sem_close, sem_unlink

Source: `sem.c`. The kernel's step and the table's step of each call are
separate actions; malloc may fail; the kernel reuses handles whose count is 0.
A use is one `sem_open` with the `sem_close` of what it returned, each called by
whatever thread, so that as many calls overlap as there are uses. A program
closes only what it has open. That the table's array grows is not modelled:
it happens under the lock and changes no entry.

### SliccFork, ForkProcs, SliccForkProofs: fork, exec, spawn and wait

Source: `slicc-fork.js`, `slicc_exec.c`, `slicc_spawn.c`, `slicc_signals.c`.
`stack` holds the snapshots of the parents that wait; the variables of the
running process are those of the realm. `kernel` is FALSE for the node realm,
where a spawned program has ended when spawn returns. `ForkProcs` is what
programs are promised of processes (a state of its own each, children reaped
once by their parent), and `Processes` the refinement.

`Careful` names what the programs refrain from because the emulation does not
hide it. Without "wait" the refinement fails (run fork_wait, a finding), and
without "pid" for the same reason: `slicc_wait_js` passes on any pid, and the kernel
knows one process (slicc_spawn.c:157); a program would have to wait for a pid that
its parent or child spawned. Without "rmdir" it fails because `finish()` ignores a `chdir` back that fails
(slicc-fork.js:141). Without "umask" it fails because a child's `umask` stays
when the parent comes back: the snapshot (slicc-fork.js:108) does not have
`Module.sliccUmask`. slicc-fork.js:9-14 lists the cwd but not the umask among
what is restored; the file system itself has no current directory that is
removed, so these two are taken as limits of the emulation, not as findings.

### HfFetch, DeliveryProofs: one file of `hf download`

Source: `download.rs`. A file is a sequence of blocks, each with the commit it
is from and the offset it was served for, so that a block at the wrong place or
of another commit can be told. A run may be killed in every state and loses some
or all of what it had not synced; the next run starts over with what is there.
`synced` is what a kill leaves: a `sync_data` or `sync_all` that succeeds covers the
whole part, whatever came before, and one that fails covers nothing, whether the code
notices (download.rs:402) or not (381, 391). History variables: `had` (the file was
once there), `diskFailed` (a write or sync of the part failed, and none succeeded
since) and `risked` (the file was removed for such a part); a file published like that
may itself lose blocks to a kill. Removing a file does not fail.

### Ladder, DeliveryProofs: from a pull request to npm

Source: `ladder-build.yml`, `ladder-merge-resolve.mjs`, `merge-group-check.mjs`,
`npm-publish.mjs`, `assert-certified-publish.mjs`, `list-touched-packages.mjs`,
`npm-parity.mjs`. A tree of a package is its version and the edits made to it;
builds are reproducible, so it stands for the tarball as well. Actions: push a
head, its run, expiry of its artifact, the group and its check, landing (with a
job per package touched), and the steps of a job (arrive in the concurrency
group, start, resolve, guard, publish, check again, or fail at any of them),
re-runs, dispatches, and the registry serving later what it has. `Bumped` says
whether a change to what is published raises the version, as
`docs/versioning.md` asks.

### WasixNet, WasixNetProofs: the HTTP agent

Source: `http/mod.rs` and `http/wire.rs`. A call is a thread's `run`: it takes an
idle connection or makes one, writes, reads a head (interim answers skipped),
repeats once on a fresh connection when a reused one broke, follows redirects
after reading a little of their body, and then its caller reads the body, drops
it, or meets an error. A connection (the `made` first of `Conns` exist) is what
the server has been asked and what the client has not read yet; items on it carry the exchange they belong to, so
a response that is another's can be told. Servers answer each request once, in
order, and may be lost with any part of what they sent. They send nothing
unasked: the 408 some servers send to an idle connection before closing it
would be taken for the next request's answer, since `finish` can only see what
has already arrived. A caller does not read on after an error (a timeout inside
a chunk's size line loses its first bytes). Proxies only change the pool's key
and are left out, as is parsing.

### PnpmHost, PnpmHostProofs: pnpm's asynchronous operations

Source: `pnpm-host.mjs`. The workers of one process each have an instance with a
`ready` map; ids, completions, files, memory and kernel objects are shared. The
multi-step calls are step by step: upload.end (marker, body, send, result file,
resolve), wait and ask. Handles are the code's numbers, with their packing of
pid and stdin. The code drops a handle in four places: `operation_cancel` of a publish
or spawn that was answered at once and not asked about (pnpm-host.mjs:806-813), the
stdin of a child that is closed first (654-659, 769-779), an answer over
`MAX_RESPONSE` (765), and a result that `upload.end` cannot write (727-731). `lost` has
the handles these leave behind. `failed` has the publishes whose `upload.end` answered
EIO. `Careful` names what pnpm does not do because the host has no answer to it:
cancel a publish or close its upload while another worker is in upload.end of it, or
end the upload of one it has cancelled ("upload.end"). A marker or a staged request that
cannot be written, read or removed is left out.

### HostRun, HostRunProofs: running a program with pipes

Source: `gh-host.mjs`, with the same loop in `buf-host.mjs` and `ntfy-host.mjs`
(they differ in which streams are pipes). The program is every short sequence of
reads, reads to the end and writes.

### EchoRing, EchoQueue, EchoRingProofs: references in step

Source: `index.js`. Samples are numbered, so that what leaves `cancel` says which
mic and which reference sample went into it. `EchoQueue` is the package README's
promise of the reference queue; `ImplementsQueue` maps the ring to it.

## Runs

| Run | Config | Question | Bounds |
| --- | --- | --- | --- |
| tls_handles | MCTlsHandles | Are counts exact and configurations valid in every order of calls? | 2 leaves, 1 store, 2 sessions, chains up to 2 |
| tls_select | MCTlsSelect | Does the gate show what was sent, decide, stay silent, and implement TlsGate? | every kind of extension alone and in conflicting pairs, every split of a 3-byte hello, buffers one record past the limits |
| hf_fetch | MCHfFetch | What do kills and bad servers leave, and does a fetch end? | commits of 3 and 2 blocks, sync every 2, 3 runs, 2 stalls |
| sig_action | MCSigAction | Do masks nest, one-shot handlers run once, libc and kernel agree, and calls return? | 2 threads, 2 signals, 4 kinds of action, nesting 3 deep, 2 sigactions, 2 sends |
| named_sem | MCNamedSem | Is an open semaphore always the one opened? | 4 uses at a time, 2 names, 2 handles, 3 addresses, 4 objects |
| fork_procs | MCSliccFork | Is the emulation a set of processes, for careful programs? | forks 2 deep, 2 kernel processes, 1 descriptor, 2 directories |
| fork_wait | MCForkWait | ... also for programs that wait for any child? (no) | the same without descriptors |
| ladder | MCLadder | Does npm get what landed, in order, and nothing silently lost? | 2 pull requests, 2 packages, 3 heads, 2 jobs, 1 re-run, 1 publish served late, versions to 3 |
| pnpm_host | MCPnpmHost | Does an operation leak, lose what pnpm holds, or leave pnpm waiting? | 2 workers, 2 pids, 2 operations, 1 upload of 2 chunks |
| host_run | MCHostRun | Is every byte carried, every pipe closed once, and does run end? | 3 bytes of input, pipes of 2, programs of 3 steps, 1 error per stream |
| echo_ring | MCEchoRing | Does the ring stay a queue, and the output in step? | frames of 3, ring of 5, 3 calls with chunks up to 7, 1 failed frame |
| wasix_net | MCWasixNet | Is every response its request's own, and what is repeated or sent where? | 2 callers, 2 hosts, a pool of 1, 2 connections, 3 exchanges, 1 redirect, 5 kinds of answer |

Why the bounds are enough. The engine's hazards take two sessions that share a
leaf, a second leaf to move to, and a caller that frees early. The gate's
arithmetic has boundaries at empty, exact and one more; each buffer constant is
small and the streams sit on both sides of each. Three nested handlers are one
more than the pair that disturb each other's masks; a third semaphore thread
acts between two others. A fork in a fork is where a snapshot of a snapshot can
go wrong. Three runs of a download are one that leaves a part, one that resumes
it and one that finds the result; files of 3 and 2 blocks with a sync every 2
end on both sides of a sync. A connection is misused by two calls, the one that
had it and the one that gets it, and a third exchange is a redirect's or a
later call's; a pool of one is full with one. In pnpm's host one worker ends
what another waits for. A pipe smaller than the input and than the output of a
step makes program and host wait on each other if they can. A chunk longer than
the ring, one that fills it and one that does neither are the ring's cases.
Two jobs of one package in either order, one of
them run again, show what orders do to npm.

Deadlock is checked in tls_handles. Elsewhere the system really may stop (a
closed session, all runs used, the process ended, every bound reached), so it is
off; what must not stop there is stated by the liveness properties.

### What the runs show

tls_handles. `RefsExact`: freed exactly when the
caller and all sessions have let go. `NoDanglingChain`: Mbed TLS never points to
a freed chain. `ServerPresentsItsLeaf`: an open server session presents its own
leaf, with a chain that begins with the key's certificate.
`PresentedChainStable`: never replaced afterwards.

tls_select. `SilentUntilSelected`, `RefusalSent`, `SelectorSeesHello` (compared
with `Readable` and `ClientHello`, which read the stream without the engine's
algorithm), `NegotiatedAsSelected`, `HelloDecided` (the gate decides if the client goes on), and
`ImplementsGate`.

hf_fetch. `InPlace` (every block at its offset), `OnlyVerified` (with a sha256,
only one commit's content), `NeverLost` (a revision that stays never leaves the
user with neither file nor complete part), both unless the file was removed for a part
whose writes or syncs had failed (`risked`), `HealsToOk` (however far it had come,
a fetch from a server that has become well ends with the file).

sig_action. `MasksNest`, `OneShot`, `AgreesWithKernel`, `SigactionReturns`.
`AgreesWithKernel` is about states in which nobody is between a change of the
table and its report (`Settled`), and it and `OneShot` leave out signals that two
threads changed at once (`raced`).

named_sem. `SemIsTheirs` (an open `sem_t` is the semaphore it was opened for, and
one pointer per semaphore), `HandlesCounted`.

fork_procs. `RefsExact`, `Processes`.

ladder. `ShipsWhatLanded` (what is on npm was built from the tree that landed,
by a run main's checks judged), `PassedPublishes` (a group that passed is not
refused later, but for expired artifacts and later versions), `NothingSilent`
(no green job without its release on npm), `TagNeverBack` (latest never moves to
a lower version while the registry serves each publish at once).

pnpm_host. `NoLeak` (whatever is open, pnpm has the handle of or can still read, or
the host lost in one of the four places where it drops a handle; what it lost stays
open, and nobody has it under another handle),
`HandlesHold` (what it has is open, and no two handles are one thing),
`SentWhole` (a publish is sent at most once, with all of its upload in order, and
its staging freed once), `Answered` (it always comes to where nothing pnpm waits for
is unanswered, but for a publish whose upload.end answered EIO).

host_run. `StreamsExact` (nothing lost, repeated or reordered in either
direction), `FdsOnce` (each pipe closed once, with nothing submitted on it),
`Returns`.

echo_ring. `RingWindow` (the ring holds the last references, the others are
taken or counted), `Delayed` (a sample comes out one frame later, processed or as
it was), `LockStep` (while each call brings as much reference as mic, a sample is cancelled
with the reference that came with it),
`ImplementsQueue`.

wasix_net. `OwnAnswer`, `RetriedOnce`, `CredentialsStay`. A reused connection that
breaks is taken for one the server had closed before (mod.rs:381), but a server
may have acted and been lost before it answered: `RetriedOnce` allows that second
time, for a POST too, and no third.

### Findings

**fork_wait.** An emulated child's `wait(-1)` reaps its parent's program.

Also seen. Each of these was reached by changing a constant or leaving out a
condition as said; they are not runs, because what they contradict is either not
said precisely in the repository, or needs a run of its own for a smaller question.

* hf: the part's name does not say its commit, and a file without a sha256 is
  checked by length only, so a run on a newer commit can finish an older one's
  part (download.rs:323; require of an "ok" file without a sha that all its
  blocks be of one commit). A part whose write or sync failed (381, 385, 391, 403) is
  taken as it is once it is whole (328-330), without a sync: the file is removed for it
  (315), and a kill before the rename (317) loses both (leave `~risked` out of
  `NeverLost`).
* sigaction: two threads that set one signal can report in the other order, for
  good, and both can copy a one-shot entry before either resets it (leave
  `raced` out of `AgreesWithKernel` and `OneShot`). When another thread's change to
  SIG_DFL comes between the kernel's decision to deliver and the copy,
  `default_handler` calls `SIG_IGN` for a signal that is ignored by default
  (`fate` is then "trapped"), which patches/README.md:92 says never happens.
* ladder: a release that keeps a version still being published is skipped, green
  (`Bumped` FALSE); the guard that compares contents is never reached. A
  concurrency group keeps one waiting job, so a third push cancels the second's (a
  red job, run again by hand). With a registry that serves an old tag, an older
  version's job can pass the guard and move the tag back.
* `kill` does not translate the pid of a child that exec'd (slicc_signals.c:107;
  waits do), and `nextPid` counts on whatever pids the kernel gives
  (slicc-fork.js:61).
* pnpm's host: the four losses above each leave something open for good (leave `lost`
  out of `NoLeak`). pnpm-host.test.mjs:582-599 cancels an unread spawn whose stdin is
  piped, and looks only at the two outputs and the kill. `upload.end`'s catch (727-731)
  leaves the publish's id unanswered when a chunk cannot be read or the result cannot be
  written, though its marker is gone, so nothing can be repeated (leave `failed` out of
  `Answered`); a publish may have been sent by then. A `malloc` that fails leaks the held
  id; cancelling a deferred publish leaves its upload's directory; a descriptor above
  1022 or a pid of 2^19 does not fit a handle.
* popen's 33rd stream is closed and its child waited for, though that child may
  never notice (slicc_popen.c:118).

## Fairness

Only the runs with liveness properties rest on it, and only on these:

* TlsSelect: the client's bytes are fed while there is room and the caller drives
  the session, the loop the package's README asks for. A client may still stop:
  its stream ends.
* HfFetch: the command goes on with its next step until it ends or is killed (a
  sequential program). `HealsToOk` is about a server and disk that have become
  well, `healed`, and not about ones that keep failing.
* SigAction: a thread goes on with the libc's code and a handler returns. No
  fairness for signals, sends or the program's own calls.

* PnpmHost: the kernel completes what it was given, and a worker goes on with the
  call it is in, waits, and asks. HostRun: the kernel reads and writes when it can,
  the program takes its steps, run takes the answers there are.

No specification assumes that calls are made, that a merge happens or that an
outage ends.

## Theorems

**TlsProofs**, of TlsHandles: for all finite sets of leaves, stores and sessions
(`HandlesAssumption`): `TypeCorrect`, `CountsExact`, `NoUseAfterFree`,
`PresentsItsLeaf` and `ChainStable`. The properties are not inductive: a count is
exact after `SessionFree` only if no freed session still holds a leaf, and a
configuration stays valid only if it points to nothing but the session's own leaf
or chain. `HandlesInv` adds `FreedIsBlank`, `ConfOfSession`, `ConfBySelect` (what a
gate's state says of the configuration) and `Chains`. Leaves and stores are
counted alike, so the counting is proved once, as lemmas on `Exact` for creating
(`ExactMake`), releasing (`ExactFree`) and moving (`ExactMove`) a reference, and
each action has a lemma that cites them.

**TlsProofs**, of TlsSelect: for all streams, names, protocols and buffer sizes with
room for one alert (`SelectAssumption`): `Silent`, `RefusalsAreHeard`, `Negotiated`,
`SeesHello` and `GateKept`. The invariant of the first three is that the gate is shut
until selected (`Shut`: nothing consumed, nothing sent by Mbed TLS) and that the choice
is one of the shown protocols (`Chosen`). The room for the alert follows from `Shut`:
nothing is queued before it.

`SeesHello` is that the algorithm agrees with its reading (`Readable`, `ClientHello`) on
every stream. `Recursion` gives the recursive functions `Bodies` and `Parses` their
equations (a CHOOSE says nothing until its function exists), and `Upward` is induction
on a set. A scan that ends with a whole message has passed exactly the records that
`Framed` asks for (`WholeIsFramed`), and over such records it can only ask for more, and
not in a full buffer (`FramedIsRead`). `ReadUpto` is the invariant of the parse: what is
stored after i extensions is what they say, each type at most once, or it has stopped at
one that is wrong, repeated or met no memory. `HeardInv` carries this through a session.
`GateKept` is the refinement: `StepGate` takes each action to one of the gate's
(`SpeakStep`, `GateRefusal`) or to a stutter, and rests on `SeesHello` for what is shown
and refused.

**EchoRingProofs**, for every length of frame, ring and chunk (`RingAssumption`):
`Window` (`RingWindow`) and `RefinesQueue` (every step of the ring is a Push, a
Take or nothing to the queue of EchoQueue). The ring's indices are remainders;
`AtOnce` says which of two values a remainder has, and `PushKeeps` that what is
overwritten is what was given up. The invariant adds the ranges of what moves
(`Ranges`). `DelayedByAFrame` (`Delayed`) and `PairedInLockStep` (`LockStep`) are about
what `cancel` hands out: `HandedOut` counts it, `Filling` says which samples are in the
mic and reference frames, and `Coming` which are in the output that is handed out next.
`Paired` adds that in lock step the ring holds as many references as the frame has
samples, so that none is dropped and none is missing.

**WasixNetProofs**, for all callers, servers, answers and bounds
(`NetAssumption`): `OwnAnswers` (`OwnAnswer`), `Credentials` (`CredentialsStay`)
and `Retried` (`RetriedOnce`). That a response is its own needs to know where
connections are and what is on them: `IInv` says that each is in the pool once,
or with one call, or with nobody (`OneOwner`), that nothing is on its way on an
idle one (`PoolClean`), that what is unread on a call's connection is the answer
to its exchange from the part the call has come to (`Good`, `From`), and that a
request's credentials were for the host of its connection (`Honest`). `StepOf`
and `StepOfConn` reduce a step of one call, or of one connection, to what it does
to that one. `LInv` counts: an exchange has one request at most that a server may
still act on, none acted on one without a loss noticed since, and a call whose
reused connection may still break has lost none; `Quiet` covers the steps that
neither send, lose nor begin anything.

**HostRunProofs**, for every input, pipe, program and number of failures
(`RunAssumption`): `ClosedOnce` (`FdsOnce`) and `Lossless` (`StreamsExact`). The
bytes of a stream are numbered (`Counts`), so where each one is follows from
lengths: `Out` says that what was read, what the answer brings and what is in the
pipe is what the program wrote, and that a pipe is given up at its end or after
a failure; `In` says the same of the input, whose write is counted once its answer
is there. `Ends` says that what is open is what has an operation submitted.

**DeliveryProofs**, of HfFetch: for all sizes, runs, stalls and distances of two syncs
(`FetchAssumption`): `InPlaceHolds` (`InPlace`), `OnlyVerifiedHolds`
(`OnlyVerified`) and `NeverLostHolds` (`NeverLost`, when no commit's file is empty:
the argument speaks of a part that is there, and an empty file needs none). `TypeOK` has
the blocks in their places; to keep them there, `InBody` says that a body goes on where
the part ended. `OnDisk` says that a kill between two attempts takes nothing of the part
unless the disk had failed, and `InSwap` that a part about to be published is complete,
verified when there is a sha256, and noted in `risked` if the disk had failed. `Spare`
is what `NeverLost` lacks: where the file should be there and is not, the part is one to
publish, the disk has not failed on it, so that a kill leaves it, and no answer is being
written over it.

**DeliveryProofs**, of Ladder: for all requests and packages and every bound
(`LadderAssumption`): `WhatShipsLanded` (`ShipsWhatLanded`) and `NeverBack`
(`TagNeverBack`); and `PassedIsPublished` (`PassedPublishes`) and `NothingIsLost`
(`NothingSilent`) when each release raises its version (`Bumped`), without which they
do not hold ("Also seen"). All four need main: that each commit is the merge of a green
request with the very tree its run built (`MergeOf`), that later trees have the edits of
the earlier, are told apart by them, and have no lower version (`InOrder`). To put such a
commit on main a member of a group must have started from main's head: `Based` derives
it from the check that the merged tree is the member's own (`Binds`), since the tree
would lack the edits of what landed in between. `Joined` says what a group remembers of a
request while its head moves on, `RegistryInv` how what npm serves trails what it has.
`LegInv` says that a job with a tarball has that of the newest release it covers, and,
between the guard and the publish, a version not below the tag: nobody else's publish
comes between, as one job of a package is active at a time. `Answered` gives each release
on main a job that covers no other; its bytes are therefore that release's, and by
`OneRelease` no other release is on npm under that version. `History` is what no step
takes back (main, merged requests, npm), stated once for all steps (`StepKeeps`).

**SliccForkProofs**, for all pids, descriptors, memories, directories, depths and
numbers of forks (`ForkAssumption`): `StreamsCounted` (`RefsExact`), which needs
nothing of the programs, and `EmulatesProcesses`, the refinement `Processes`, for
programs that are careful in all four ways (`AllCareful`). Counting descriptors in a
nested stack is a sum over its snapshots: `Counted` says what one description has, and a
fork adds, an end removes, one snapshot's part. The refinement maps the running process
and the snapshots to processes, and needs the tables of all of them at once: that the
pids of the stack form one chain of parents, all given out by `nextPid` (`Chain`); that
a child in a table has exited or exec'd, and is in one table (`Reapable`); that an
alias leads to a kernel process that is there, and no other alias does (`Aliased`),
not even from another process's table, else a reaped child could be reaped again; whose
children the kernel's processes are (`Theirs`); and that the directories to go back to
are there (`Kept`). Each action is then a Step, Fork, Leave, Reap, ... of ForkProcs, or
a stutter.

**SysrootProofs**, of SigAction: for all threads, signals and masks and all bounds
(`SigAssumption`): `HandlersNest` (`MasksNest`), `KernelAgrees`
(`AgreesWithKernel`) and `RunsOnce` (`OneShot`). `OnTop` says that what is in the
middle of a change has no frame above it, since signals are delivered neither
there nor before the mask is set. `NestOf` describes the frames of one stack: a
handler's frame blocks what it asked for, the frames above it put that back when
they return, none of them is of a signal it blocks, and the first has the program's
own mask to restore. `Seeds` and `Agree` say where the kernel's disposition is
while it differs from the table's, `Alone` that outside `raced` one thread changes
a signal at a time. `Shots` follows a one-shot action, by the number of its
`sigaction` (`Numbered`): it is with the call (`Before`), then in the table and with
the frame that copied it until that resets it, then with the frame alone (`After`),
and it has run only once it is in none of these.

**SysrootProofs**, of NamedSem: for all uses, names, handles and addresses, the uses finite
(`SemAssumption`): `SemStays` (`SemIsTheirs`) and `CountsAgree` (`HandlesCounted`). A
handle given back to the kernel may lead to another object while the entry of its
`sem_t` is still in the table. What makes this sound is that the entry is then used
by closes alone: `HandlesCounted` says that a handle with an object has as many
openers as the kernel counts (`Kernel` ties the two), so the object of a `sem_t`
someone has does not go. `CountStep` reduces a step to the one use that moves
(`Moves`, `Others`).

**PnpmHostProofs**, for any number of workers, operations, uploads and chunks
(`HostAssumption`): `HandlesHolding` (`HandlesHold`), `NothingLeaks` (`NoLeak`) and
`SendsWhole` (`SentWhole`). The first two are for as long as a child's handle has room
for its numbers: pids below 2^19 (`PidsFit`) and at most 1022 things open (`Few`), since
the kernel gives out the least free descriptor; the code does not check either, and
beyond them two children's handles may meet. The first needs no care of pnpm's, the
others that it does not touch an upload that is being sent ("upload.end"). `StepInv` is what the other
invariants rest on: what a new id starts with (`Blank`), that a publish stays out of the
kernel until it is sent (`Known`), that one worker at a time sends an upload and no
answer of its publish is there before (`Senders`, `Staged`). For the handles, `Held`
says who has which: pnpm, each answer that can still be read, each upload.end whose
result is not in its file yet, and the lost ones, which are nobody's. `HandleInv` is that these are apart and what they are for
is open (`Good`), and `Covers` that nothing else is. Every step then gains handles for
new objects, gives one holder's to another, closes some or ends a stdin, and the four
lemmas on these (`Gain`, `Give`, `CloseSome`, `EndOne`) are about any such function.
That nothing is lost while it is being sent is `Wanted`. `WholeInv` follows the chunks:
an upload has what was written until it is read (`FillOf`), and the worker that sends it
carries all of it (`MidOf`).

Only model-checked: every liveness property. Liveness and ENABLED are outside the
prover's reach.

## Assumptions on what is outside the repository

* Mbed TLS takes and gives bytes only through `bio_recv` and `bio_send`, and calls
  `on_selected` for each hello it has read.
* The kernel delivers signals at host calls and while the program runs, opens and
  counts semaphore handles, and reports a child's exit once. Its pids differ from
  the ones `nextPid` gives (`ForkAssumption`); nothing in the repository ensures it.
  That those differ from each other is the code's `nextPid ++`.
* A kill loses at most what no sync has covered, and leaves a prefix; a sync that
  succeeds covers all of the part; a file cannot fail to be removed.
* GitHub's queue checks a group against the head it will land on; a concurrency
  group runs one job and keeps one; artifacts expire; npm refuses to replace a
  version, and may serve a publish late.
* pnpm asks every operation it waits for after each completion, and reads or
  cancels an answer in the worker that asked for it. Cancelling an unread request
  in the kernel closes its connection; closing a descriptor does not fail.
* `wap_process` turns a frame into a frame, may fail, and may grow the memory.
* HTTP servers answer each request once, in order, and send nothing unasked.

## Not modelled

The data path of a TLS session after its handshake, the key log and name
verification; unnamed semaphores, pselect's masks, raise, timers, poll and epoll;
posix_spawn's file actions and PATH search, popen, job control; the list of files
of a download and its workers; requests that touch several packages, waves of two
recipes of one npm name; the builds and reviews themselves; proxies and parsing in
wasix-net; the wasm half of the echo canceller. Most of the repository's lines
are certificates, browser harnesses (`scripts/browser-cert`, the `cert/lib` of
packages, `run-wasm-cli.mjs`), recipe scripts and tests: straight-line code that
drives a browser or a program and records what it sees, with no state of its own
that outlives a step. The components table of
PROJECT.json gives each part's reason.

## Plan

Order of work, the most central first (done: TlsHandles, TlsSelect, SigAction,
NamedSem, HfFetch, SliccFork, Ladder, PnpmHost, HostRun, EchoRing, WasixNet).

1. SliccSpawn and popen over SliccFork: the file actions, the table of 32 pipes.
2. SigAction with pselect's masks (`__homescoop_poll_masked`) and the interval
   timer; TlsRead, the data path after the gate.
3. Ladder with requests of several packages and waves; the work queue of HfFetch.

To keep the number of runs small, new questions go into the runs there are, or
replace weaker ones.
