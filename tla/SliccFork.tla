------------------------------ MODULE SliccFork ------------------------------
(***************************************************************************)
(* fork() in one slicc process whose kernel cannot fork it: slicc-fork.js  *)
(* snapshots the parent at its fork(), runs the child in its place, and    *)
(* puts the parent back when the child ends, so that of a chain of         *)
(* emulated processes the innermost one runs.  With it the exec, spawn and *)
(* wait of slicc_exec.c and slicc_spawn.c, which hand programs to the      *)
(* kernel and pids back.                                                   *)
(*                                                                         *)
(* The kernel and the file system are external.  All the emulated          *)
(* processes are one kernel process, and what they spawn are its children. *)
(***************************************************************************)
EXTENDS Naturals, Sequences, FiniteSets

CONSTANTS KPids,    \* pids of kernel processes, beside this one's
          ForkPids, \* pids nextPid may give, in their order
          SelfPid,  \* this process's
          Mems, Dirs, Masks, Fds, Descs, \* memory contents, directories,
                    \* umasks, descriptors, open file descriptions
          Statuses, \* wait statuses of programs that ended
          Running, Stopped, None,
          Careful,  \* what the programs do not do: "wait" for any child while
                    \* the kernel has another process's, wait for the "pid" of
                    \* another's, "rmdir" of the cwd of a process that waits,
                    \* change the "umask" in a child
          MaxDepth  \* bound on the forks in a fork

ASSUME ForkAssumption ==
  /\ Careful \subseteq {"wait", "pid", "rmdir", "umask"}
  /\ MaxDepth \in Nat
  /\ {Running, Stopped, None} \cap Statuses = {} /\ Running # None
  /\ SelfPid \notin KPids /\ None \notin KPids \cup {SelfPid}
  /\ ForkPids \in Seq({ForkPids[i] : i \in DOMAIN ForkPids})
  /\ \A i \in DOMAIN ForkPids :
       /\ ForkPids[i] \notin KPids \cup {SelfPid, None}
       /\ \A l \in DOMAIN ForkPids : ForkPids[i] = ForkPids[l] => i = l

VARIABLES
  kernel,  \* whether there is one (Module.sliccKernel), or the node realm,
           \* where a spawned program runs at once
  pid,     \* SliccFork.pid: the process that runs
  ppid,    \* SliccFork.ppid
  stack,   \* SliccFork.stack: snapshots of the ones that wait, innermost last
  forks,   \* how many pids nextPid has given
  mem,     \* linear memory, with the stack and Asyncify's state
  cwd,     \* FS.cwd()
  umask,   \* Module.sliccUmask
  fds,     \* FS.streams: each open descriptor's description
  refs,    \* how many streams each description has
  dirs,    \* the directories there are
  exited,  \* Module.sliccExited: exited children, with their statuses
  aliases, \* Module.sliccAliases: fork pid -> kernel pid
  kprocs,  \* the kernel's children: st is None (no such process), Running or
           \* a status; told is FALSE while a stop is not reported; of is the
           \* emulated process whose child it is, None for one that exec'd
  got,     \* the last answer of a wait
  over     \* the process itself has ended
local == <<mem, cwd, umask, fds>>
vars == <<kernel, pid, ppid, stack, forks, local, refs, dirs, exited, aliases, kprocs, got, over>>

Empty == [x \in {} |-> None]
With(f, c, s) == [x \in DOMAIN f \cup {c} |-> IF x = c THEN s ELSE f[x]]
Without(f, c) == [x \in DOMAIN f \ {c} |-> f[x]]
Innermost == stack[Len(stack)]
NoProc == [st |-> None, told |-> TRUE, of |-> None]

\* The streams of a descriptor table that share a description.
Streams(table, d) == Cardinality({f \in DOMAIN table : table[f] = d})

Init ==
  /\ kernel \in BOOLEAN
  /\ pid = SelfPid /\ ppid = None
  /\ stack = <<>> /\ forks = 0
  /\ mem \in Mems /\ cwd \in Dirs /\ umask \in Masks
  /\ dirs = Dirs
  /\ fds = Empty /\ refs = [d \in Descs |-> 0]
  /\ exited = Empty /\ aliases = Empty
  /\ kprocs = [k \in KPids |-> NoProc]
  /\ got = [by |-> Running, child |-> Running, status |-> Running]
  /\ over = FALSE

-----------------------------------------------------------------------------
(* What a process does to itself *)

WriteMem(v) ==
  /\ ~over /\ mem' = v
  /\ UNCHANGED <<pid, ppid, stack, forks, cwd, umask, fds, refs, dirs, exited, aliases, kprocs, got, over>>
Chdir(d) ==
  /\ ~over /\ d \in dirs /\ cwd' = d
  /\ UNCHANGED <<pid, ppid, stack, forks, mem, umask, fds, refs, dirs, exited, aliases, kprocs, got, over>>
\* FS.rmdir, which refuses the cwd; a directory is gone for every process.
Rmdir(d) ==
  /\ ~over /\ d \in dirs /\ d # cwd /\ dirs' = dirs \ {d}
  /\ "rmdir" \in Careful => \A i \in DOMAIN stack : stack[i].cwd # d
  /\ UNCHANGED <<pid, ppid, stack, forks, local, refs, exited, aliases, kprocs, got, over>>
\* __syscall_umask.
Umask(m) ==
  /\ ~over /\ umask' = m
  /\ "umask" \in Careful => stack = <<>>
  /\ UNCHANGED <<pid, ppid, stack, forks, mem, cwd, fds, refs, dirs, exited, aliases, kprocs, got, over>>
OpenFd(f, d) ==
  /\ ~over /\ f \notin DOMAIN fds /\ refs[d] = 0
  /\ fds' = With(fds, f, d) /\ refs' = [refs EXCEPT ![d] = 1]
  /\ UNCHANGED <<pid, ppid, stack, forks, mem, cwd, umask, dirs, exited, aliases, kprocs, got, over>>
CloseFd(f) ==
  /\ ~over /\ f \in DOMAIN fds
  /\ fds' = Without(fds, f) /\ refs' = [refs EXCEPT ![fds[f]] = @ - 1]
  /\ UNCHANGED <<pid, ppid, stack, forks, mem, cwd, umask, dirs, exited, aliases, kprocs, got, over>>

-----------------------------------------------------------------------------
(* fork, exec, spawn and exit *)

\* begin: dupStreams.
Duped == [d \in Descs |-> refs[d] + Streams(fds, d)]
Begin ==
  /\ ~over /\ Len(stack) < MaxDepth /\ forks < Len(ForkPids)
  /\ forks' = forks + 1
  /\ stack' = Append(stack, [pid |-> pid, ppid |-> ppid, childPid |-> ForkPids[forks'],
                             mem |-> mem, cwd |-> cwd, fds |-> fds,
                             exited |-> exited, aliases |-> aliases])
  /\ pid' = ForkPids[forks'] /\ ppid' = pid
  /\ refs' = Duped
  /\ exited' = Empty /\ aliases' = Empty
  /\ UNCHANGED <<local, dirs, kprocs, got, over>>

\* finish: the child's streams are closed and the parent comes back; its
\* child has exited with a status, or stands for the kernel process k.
\* (Mutant: the streams stay open.)
ClosedNot(table) == refs
Closed(table) == [d \in Descs |-> refs[d] - Streams(table, d)]
MemBack(snap) == snap.mem
Finish(status, k) ==
  LET snap == Innermost IN
  /\ stack' = SubSeq(stack, 1, Len(stack) - 1)
  /\ refs' = Closed(fds) /\ fds' = snap.fds
  /\ cwd' = IF snap.cwd \in dirs THEN snap.cwd ELSE cwd
  /\ exited' = IF k = None THEN With(snap.exited, snap.childPid, status) ELSE snap.exited
  /\ aliases' = IF k = None THEN snap.aliases ELSE With(snap.aliases, snap.childPid, k)
  /\ pid' = snap.pid /\ ppid' = snap.ppid
  /\ mem' = MemBack(snap)
  /\ UNCHANGED <<umask, dirs, got, over>>

\* exit, a return from main, or a crash.
Exit(status) ==
  /\ ~over
  /\ IF stack # <<>> THEN Finish(status, None)
     ELSE over' = TRUE /\ UNCHANGED <<pid, ppid, stack, local, refs, dirs, exited, aliases, got>>
  /\ UNCHANGED <<forks, kprocs>>

\* A process that the kernel starts, for the emulated process p, or for none.
Started(k, p) ==
  /\ kernel /\ kprocs[k] = NoProc
  /\ kprocs' = [kprocs EXCEPT ![k] = [st |-> Running, told |-> TRUE, of |-> p]]
\* nextPid, for a program that spawnSync has run to its end.
RanAtOnce == ~kernel /\ forks < Len(ForkPids) /\ forks' = forks + 1 /\ UNCHANGED kprocs

\* execve of an emulated child: the child ends at once and its pid stands for
\* the kernel process, or it ends as the program did, which has run by then.
Exec(k) == ~over /\ stack # <<>> /\ Started(k, None) /\ Finish(None, k) /\ UNCHANGED forks
ExecAndWait(status) == ~over /\ stack # <<>> /\ RanAtOnce /\ Finish(status, None)

\* posix_spawn; and kernelFork, which only a process that is not emulated
\* tries: both give a kernel process with a pid of the kernel's.
Spawn(k) ==
  /\ ~over /\ Started(k, pid)
  /\ UNCHANGED <<pid, ppid, stack, forks, local, refs, dirs, exited, aliases, got, over>>
SpawnSync(status) ==
  /\ ~over /\ RanAtOnce
  /\ exited' = With(exited, ForkPids[forks'], status)
  /\ UNCHANGED <<pid, ppid, stack, local, refs, dirs, aliases, got, over>>

-----------------------------------------------------------------------------
(* The kernel's processes, and signals to them *)

OnlyKernel == UNCHANGED <<pid, ppid, stack, forks, local, refs, dirs, exited, aliases, got, over>>
KernelExit(k, status) ==
  /\ kprocs[k].st = Running
  /\ kprocs' = [kprocs EXCEPT ![k].st = status, ![k].told = TRUE]
  /\ OnlyKernel
KernelStop(k) ==
  /\ kprocs[k].st = Running /\ kprocs[k].told
  /\ kprocs' = [kprocs EXCEPT ![k].told = FALSE]
  /\ OnlyKernel

\* kill: the pid goes to the kernel as it is.
Signalled(c) == c
Kill(c, status) ==
  /\ ~over /\ c # pid /\ Signalled(c) \in KPids
  /\ KernelExit(Signalled(c), status)

-----------------------------------------------------------------------------
(* wait4: the reaped child, or no change for one that would block or ECHILD *)

Answer(c, status) == got' = [by |-> pid, child |-> c, status |-> status]
OnlyWaited == UNCHANGED <<pid, ppid, stack, forks, local, refs, dirs, over>>

\* A child that has exited here.
WaitExited(c) ==
  /\ ~over /\ c \in DOMAIN exited
  /\ exited' = Without(exited, c) /\ Answer(c, exited[c])
  /\ OnlyWaited /\ UNCHANGED <<aliases, kprocs>>

\* kernel.wait(k), reported to the program as c.  (Mutant: the alias
\* outlives the process.)
AliasesKept(c, gone) == aliases
AliasesAfter(c, gone) == IF gone THEN Without(aliases, c) ELSE aliases
KernelWait(k, c) ==
  /\ ~over /\ kernel
  /\ \/ /\ kprocs[k].st \in Statuses
        /\ kprocs' = [kprocs EXCEPT ![k] = NoProc]
        /\ aliases' = AliasesAfter(c, TRUE) /\ Answer(c, kprocs[k].st)
     \/ /\ kprocs[k].st = Running /\ ~kprocs[k].told
        /\ kprocs' = [kprocs EXCEPT ![k].told = TRUE]
        /\ aliases' = AliasesAfter(c, FALSE) /\ Answer(c, Stopped)
  /\ OnlyWaited /\ UNCHANGED exited

\* A child by its pid: one that exec'd by its alias, another by its own.
Own(k) == kprocs[k].of = pid \/ \E c \in DOMAIN aliases : aliases[c] = k
WaitAlias(c) == c \in DOMAIN aliases /\ KernelWait(aliases[c], c)
\* What the kernel says is for the child of this process that exec'd it.
NameOf(k) == IF \E c \in DOMAIN aliases : aliases[c] = k
             THEN CHOOSE c \in DOMAIN aliases : aliases[c] = k ELSE k
WaitKernel(k) == ("pid" \in Careful => Own(k)) /\ KernelWait(k, NameOf(k))

\* Any child: one that has exited here first, else what the kernel has for
\* this process, under the pid that stands for it.
WaitAny ==
  \/ \E c \in DOMAIN exited : WaitExited(c)
  \/ /\ exited = Empty
     /\ "wait" \in Careful => \A k \in KPids : kprocs[k] = NoProc \/ Own(k)
     /\ \E k \in KPids : KernelWait(k, NameOf(k))

-----------------------------------------------------------------------------
Pids == {SelfPid} \cup KPids \cup {ForkPids[i] : i \in DOMAIN ForkPids}

Self ==
  \/ \E v \in Mems : WriteMem(v)
  \/ \E d \in Dirs : Chdir(d) \/ Rmdir(d)
  \/ \E m \in Masks : Umask(m)
  \/ \E f \in Fds : CloseFd(f) \/ \E d \in Descs : OpenFd(f, d)
Acts ==
  \/ Self
  \/ Begin
  \/ \E status \in Statuses :
       \/ Exit(status) \/ ExecAndWait(status) \/ SpawnSync(status)
       \/ \E k \in KPids : KernelExit(k, status)
       \/ \E c \in Pids : Kill(c, status)
  \/ \E k \in KPids : Exec(k) \/ Spawn(k) \/ KernelStop(k) \/ WaitKernel(k)
  \/ \E c \in Pids : WaitAlias(c) \/ WaitExited(c)
  \/ WaitAny
Next == Acts /\ UNCHANGED kernel

Spec == Init /\ [][Next]_vars

-----------------------------------------------------------------------------
(* Properties *)

Tables == UNION {[S -> Descs] : S \in SUBSET Fds}
\* A description has as many streams as the tables of the live processes, the
\* one that runs and the ones that wait, have descriptors for it: a pipe sees
\* its writer go exactly when the last process that has it is done
\* (slicc-fork.js:9-14).
RefsExact ==
  \A d \in Descs :
    refs[d] = Streams(fds, d)
              + Cardinality({x \in (DOMAIN stack) \X Fds :
                               x[2] \in DOMAIN stack[x[1]].fds /\ stack[x[1]].fds[x[2]] = d})

\* What the programs see: every process that runs or waits with its own
\* memory, directory, umask and descriptors, and the children it has not
\* reaped, which are in its tables, in the kernel, or running here.
KidsOf(p, ex, al, here) ==
  [c \in DOMAIN ex \cup DOMAIN al \cup {k \in KPids : kprocs[k].st # None /\ kprocs[k].of = p} \cup here |->
     CASE c \in DOMAIN ex -> ex[c]
       [] c \in DOMAIN al -> kprocs[al[c]].st
       [] c \in here      -> Running
       [] OTHER           -> kprocs[c].st]
Waiting == {stack[i].pid : i \in DOMAIN stack}
SnapOf(p) == stack[CHOOSE i \in DOMAIN stack : stack[i].pid = p]
procs ==
  [p \in {pid} \cup Waiting |->
     IF p = pid THEN [mem |-> mem, cwd |-> cwd, umask |-> umask, fds |-> fds]
     ELSE [mem |-> SnapOf(p).mem, cwd |-> SnapOf(p).cwd, umask |-> umask, fds |-> SnapOf(p).fds]]
kids ==
  [p \in {pid} \cup Waiting |->
     IF p = pid THEN KidsOf(p, exited, aliases, {})
     ELSE KidsOf(p, SnapOf(p).exited, SnapOf(p).aliases, {SnapOf(p).childPid})]

Procs == INSTANCE ForkProcs WITH
  States <- [mem : Mems, cwd : Dirs, umask : Masks, fds : Tables]

\* The emulation is a set of processes as ForkProcs describes them: a child
\* begins as its parent's copy and never changes it, and each status is reaped
\* once, by the parent, under the pid fork gave it (slicc-fork.js:9-22,
\* slicc_spawn.c:129-172).
Processes == Procs!Spec
=============================================================================
