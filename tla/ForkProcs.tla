------------------------------ MODULE ForkProcs ------------------------------
(***************************************************************************)
(* What fork, exec, wait and exit promise the programs that use the slicc  *)
(* shims, whatever stands behind them: every process has a state of its    *)
(* own, which only its own steps change; a forked child begins with its    *)
(* parent's; and the status of a child is reaped once, by its parent.      *)
(***************************************************************************)
CONSTANTS Pids, States, Statuses, Running, Stopped

VARIABLES
  procs, \* the state of each process that is alive
  kids,  \* per process alive: its children not reaped yet, each with its
         \* status, or Running
  got    \* the last answer of a wait: who asked, which child, what

Live == DOMAIN procs
NoKids == [c \in {} |-> Running]
With(f, c, s) == [x \in DOMAIN f \cup {c} |-> IF x = c THEN s ELSE f[x]]
Without(f, c) == [x \in DOMAIN f \ {c} |-> f[x]]

\* p does something to itself.
Step(p) ==
  /\ p \in Live
  /\ \E s \in States : procs' = [procs EXCEPT ![p] = s]
  /\ UNCHANGED <<kids, got>>

Fork(p, c) ==
  /\ p \in Live /\ c \notin Live
  /\ procs' = With(procs, c, procs[p])
  /\ kids' = With([kids EXCEPT ![p] = With(@, c, Running)], c, NoKids)
  /\ UNCHANGED got

\* A child that is a program of its own: spawned, or forked into a process
\* that this module does not follow.
Spawn(p, c, s) ==
  /\ p \in Live /\ c \notin DOMAIN kids[p]
  /\ kids' = [kids EXCEPT ![p] = With(@, c, s)]
  /\ UNCHANGED <<procs, got>>
ChildEnds(p, c, s) ==
  /\ p \in Live /\ c \in DOMAIN kids[p] /\ kids[p][c] = Running /\ c \notin Live
  /\ kids' = [kids EXCEPT ![p][c] = s]
  /\ UNCHANGED <<procs, got>>

\* c is gone, with a status, or Running when another program has replaced it.
Leave(p, c, s) ==
  /\ {p, c} \subseteq Live /\ c \in DOMAIN kids[p]
  /\ procs' = Without(procs, c)
  /\ kids' = Without([kids EXCEPT ![p][c] = s], c)
  /\ UNCHANGED got

Reap(p, c, s) ==
  /\ p \in Live /\ c \in DOMAIN kids[p] /\ kids[p][c] = s /\ s # Running
  /\ kids' = [kids EXCEPT ![p] = Without(@, c)]
  /\ got' = [by |-> p, child |-> c, status |-> s]
  /\ UNCHANGED procs
Report(p, c) ==
  /\ p \in Live /\ c \in DOMAIN kids[p] /\ kids[p][c] = Running
  /\ got' = [by |-> p, child |-> c, status |-> Stopped]
  /\ UNCHANGED <<procs, kids>>

Next ==
  \E p \in Live :
    \/ Step(p)
    \/ \E c \in Pids :
         \/ Fork(p, c) \/ Report(p, c)
         \/ Spawn(p, c, Running) \/ Leave(p, c, Running)
         \/ \E s \in Statuses : Spawn(p, c, s) \/ ChildEnds(p, c, s) \/ Leave(p, c, s) \/ Reap(p, c, s)

Init ==
  /\ \E p \in Pids, s \in States : procs = [q \in {p} |-> s] /\ kids = [q \in {p} |-> NoKids]
  /\ got = [by |-> Running, child |-> Running, status |-> Running]
Spec == Init /\ [][Next]_<<procs, kids, got>>
=============================================================================
