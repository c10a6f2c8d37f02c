------------------------------- MODULE Ladder -------------------------------
(***************************************************************************)
(* homescoop's own pipeline, from a pull request to npm (ladder-build.yml  *)
(* and the scripts it runs).  A pull request's run builds the package it   *)
(* touches and keeps the tarball; the merge queue puts requests on main    *)
(* after a group check that builds nothing; a push to main publishes the   *)
(* kept tarballs, one job ("leg") for each package.                        *)
(*                                                                         *)
(* GitHub and npm are external: the queue, the concurrency groups, npm's   *)
(* dist-tag, and a registry that may serve a publish late.  Builds are     *)
(* reproducible, so a tree of a package stands for the tarball built from  *)
(* it.  Each request touches one package; each package has its own npm     *)
(* name and the tag latest.                                                *)
(***************************************************************************)
EXTENDS Naturals, Sequences, SequencesExt, FiniteSetsExt

CONSTANTS PRs, Pkgs,
          LastVersion,  \* bound on versions
          MaxPushes,    \* bound on the heads of all pull requests
          MaxLegs,      \* bound on the publish jobs
          MaxReruns,    \* bound on their re-runs
          MaxLate,      \* bound on the publishes the registry serves late
          Bumped,       \* whether a request that changes package/ or
                        \* recipe.yaml also raises the version
          None

ASSUME LadderAssumption ==
  /\ {LastVersion, MaxPushes, MaxLegs, MaxReruns, MaxLate} \subseteq Nat
  /\ LastVersion >= 1
  /\ Bumped \in BOOLEAN
  /\ None \notin PRs \cup Pkgs

VARIABLES
  prs,   \* the pull requests: see Requests
  main,  \* main's first-parent commits: the request merged, the packages' trees
  group, \* the merge group: its members, and whether its check passed
  legs,  \* the publish jobs: see Legs
  npm,   \* the registry: each package's versions, and its tag
  seen,  \* what it serves of them
  late   \* how many publishes it did not serve at once
ladderVars == <<prs, main, group, legs, npm, seen, late>>

Versions == 1 .. LastVersion

\* A package's tree: its version, and the edits made to it since the start.
Trees == [v : Versions, edits : SUBSET (PRs \X (1 .. MaxPushes))]
Root == [v |-> 1, edits |-> {}]

\* What a request changes in its package: the published part and its version,
\* only what it is built from, or the published part and the publish path.
Kinds == {"release", "build", "gate"}

\* tree is the package's at the request's head, base the one it started from;
\* run is its head's run, and kept says that the run's tarball has not expired.
Requests == [state : {"none", "open", "merged"}, pkg : Pkgs \cup {None}, kind : Kinds,
             head : 0 .. MaxPushes, base : Trees, tree : Trees,
             run : {"running", "green"}, kept : BOOLEAN]

\* A job publishes what the commits from base to sha did to its package.
\* "refused" is a refusal of the scripts, "failed" anything else that is red.
Legs == [pkg : Pkgs, base : Nat, sha : Nat, again : 0 .. MaxReruns, bytes : Trees,
         st : {"detect", "pending", "running", "resolved", "guarded", "recheck",
               "published", "skipped", "refused", "failed", "cancelled"}]

Tip == main[Len(main)]
NoGroup == [members |-> <<>>, passed |-> FALSE]
Releases(p, k) == prs[p].pkg = k /\ prs[p].kind # "build"

LadderInit ==
  /\ prs = [p \in PRs |-> [state |-> "none", pkg |-> None, kind |-> "release",
                           head |-> 0, base |-> Root, tree |-> Root,
                           run |-> "running", kept |-> FALSE]]
  /\ main = <<[pr |-> None, trees |-> [k \in Pkgs |-> Root]]>>
  /\ group = NoGroup
  /\ legs = <<>>
  /\ npm = [k \in Pkgs |-> [on |-> [v \in {1} |-> Root], latest |-> 1]]
  /\ seen = [k \in Pkgs |-> [has |-> {1}, latest |-> 1]]
  /\ late = 0

(*------------------------- A pull request and its run ----------------------*)

\* The version a request gives its package.
Raised(kind, base, v) ==
  IF kind = "build" THEN v = base.v ELSE Bumped => v > base.v

\* A request is opened on main, or its head is pushed again, with or without
\* main merged into it.  A run starts at the new head and cancels the older.
Push(p) ==
  /\ prs[p].state \in {"none", "open"}
  /\ FoldFunction(LAMBDA req, n : req.head + n, 0, prs) < MaxPushes
  /\ \E k \in Pkgs, kind \in Kinds, v \in Versions, updated \in BOOLEAN :
       LET head == prs[p].head + 1
           base == IF updated THEN Tip.trees[k] ELSE prs[p].base
       IN /\ prs[p].state = "open" => k = prs[p].pkg /\ kind = prs[p].kind
          /\ prs[p].state = "none" => updated
          /\ Raised(kind, base, v)
          /\ prs' = [prs EXCEPT ![p] =
               [state |-> "open", pkg |-> k, kind |-> kind, head |-> head, base |-> base,
                tree |-> [v |-> v, edits |-> base.edits \cup {<<p, head>>}],
                run |-> "running", kept |-> TRUE]]
  /\ UNCHANGED <<main, group, legs, npm, seen, late>>

\* npm-parity: neither behind the tag nor on npm with other contents.
AtPar(k, tree) ==
  /\ tree.v >= seen[k].latest
  /\ tree.v \in seen[k].has => npm[k].on[tree.v] = tree

\* The run ends green: it built the package, npm-parity let it pass, and so did
\* its other jobs, the reviews with them.  (A run that is red is one that never
\* ends here.)  A request that changes the publish path ran its own checks.
RunEnds(p) ==
  /\ prs[p].head > 0 /\ prs[p].run = "running"
  /\ prs[p].kind = "gate" \/ AtPar(prs[p].pkg, prs[p].tree)
  /\ prs' = [prs EXCEPT ![p].run = "green"]
  /\ UNCHANGED <<main, group, legs, npm, seen, late>>

\* Tarballs are kept for some days.
Expire(p) ==
  /\ prs[p].state = "merged" /\ prs[p].kept
  /\ prs' = [prs EXCEPT ![p].kept = FALSE]
  /\ UNCHANGED <<main, group, legs, npm, seen, late>>

(*------------------------------ The merge queue ----------------------------*)

\* git's merge of a request into the trees: a version that both sides changed,
\* differently, is a conflict.
Conflicts(trees, req) ==
  /\ trees[req.pkg].v # req.base.v /\ req.tree.v # req.base.v
  /\ trees[req.pkg].v # req.tree.v

\* The trees after the first i of the members: the version of the last one that
\* changed it, and everyone's edits.
After(members, i) ==
  [k \in Pkgs |->
     LET own == {j \in 1 .. i : members[j].req.pkg = k}
         raised == {j \in own : members[j].req.tree.v # members[j].req.base.v}
     IN [v |-> IF raised = {} THEN Tip.trees[k].v ELSE members[Max(raised)].req.tree.v,
         edits |-> Tip.trees[k].edits \cup UNION {members[j].req.tree.edits : j \in own}]]

\* The queue makes a merge commit for each green request, one on the other.
FormGroup ==
  /\ group = NoGroup
  /\ \E n \in 1 .. 3 : \E order \in [1 .. n -> PRs] :
       /\ IsInjective(order)
       /\ \A i \in 1 .. n : prs[order[i]].state = "open" /\ prs[order[i]].run = "green"
       /\ LET members == [i \in 1 .. n |-> [pr |-> order[i], req |-> prs[order[i]]]]
          IN /\ \A i \in 1 .. n : ~Conflicts(After(members, i - 1), members[i].req)
             /\ group' = [members |-> members, passed |-> FALSE]
  /\ UNCHANGED <<prs, main, legs, npm, seen, late>>

\* What the publish decides for version v of package k, merged with request p.
Resolved(k, v, p) ==
  IF v \in seen[k].has THEN "skipped"
  ELSE IF /\ p # None
          /\ prs[p].kind # "gate"
          /\ prs[p].pkg = k /\ prs[p].run = "green" /\ prs[p].kept
          /\ prs[p].tree.v = v
       THEN "resolved" ELSE "refused"

\* (Mutant: no package is compared.)
BindsNot(members, i) == TRUE

\* The tree of a member's package is the one its tarball was built from, and
\* no other member touches it.
Binds(members, i) ==
  /\ \A j \in DOMAIN members \ {i} : members[j].req.pkg # members[i].req.pkg
  /\ After(members, Len(members))[members[i].req.pkg] = members[i].req.tree

\* (Mutant: the publish is not tried.)
WouldPublishNot(members, i) == TRUE

\* And the push is going to publish it, or to skip it.
WouldPublish(members, i) ==
  LET req == members[i].req IN
  req.kind # "build" =>
    Resolved(req.pkg, After(members, i)[req.pkg].v, members[i].pr) # "refused"

Unmoved(m) == prs[m.pr].state = "open" /\ prs[m.pr].head = m.req.head

\* merge-group-check.mjs.  The queue drops a group that fails.
CheckGroup ==
  /\ group # NoGroup /\ ~group.passed
  /\ group' = IF \A i \in DOMAIN group.members :
                   /\ Unmoved(group.members[i])
                   /\ Binds(group.members, i)
                   /\ WouldPublish(group.members, i)
              THEN [group EXCEPT !.passed = TRUE] ELSE NoGroup
  /\ UNCHANGED <<prs, main, legs, npm, seen, late>>

\* What a push publishes: a job for each package that its commits release,
\* from the main before it to the main after it.
NewLeg(k, base, sha) ==
  [pkg |-> k, base |-> base, sha |-> sha, again |-> 0, bytes |-> Root, st |-> "detect"]
\* (Mutant: from the last commit's parent.)
PushBaseParent == Len(main) + Len(group.members) - 1
PushBase == Len(main)
Released(before, members) ==
  {members[i].req.pkg : i \in {j \in DOMAIN members :
     Len(main) + j > before /\ members[j].req.kind # "build"}}

\* main moves to the head of a group that passed; the queue drops a group one
\* of whose requests moved.
Land ==
  /\ group.passed
  /\ IF \A i \in DOMAIN group.members : Unmoved(group.members[i])
     THEN LET members == group.members
              sha == Len(main) + Len(members)
          IN \E pkgs \in SetToSeqs(Released(PushBase, members)) :
             /\ Len(legs) + Len(pkgs) <= MaxLegs
             /\ main' = main \o [i \in DOMAIN members |->
                                   [pr |-> members[i].pr, trees |-> After(members, i)]]
             /\ prs' = [p \in PRs |-> IF \E i \in DOMAIN members : members[i].pr = p
                                      THEN [prs[p] EXCEPT !.state = "merged"] ELSE prs[p]]
             /\ legs' = legs \o [i \in DOMAIN pkgs |-> NewLeg(pkgs[i], PushBase, sha)]
     ELSE UNCHANGED <<prs, main, legs>>
  /\ group' = NoGroup
  /\ UNCHANGED <<npm, seen, late>>

(*------------------------------- Publishing --------------------------------*)

\* workflow_dispatch for a package: from the first commit of main to its tip.
Dispatch(k) ==
  /\ Len(legs) < MaxLegs
  /\ legs' = Append(legs, NewLeg(k, 1, Len(main)))
  /\ UNCHANGED <<prs, main, group, npm, seen, late>>

\* A job's tarball goes with the job's runner.
Goes(leg, st) ==
  [leg EXCEPT !.st = st,
              !.bytes = IF st \in {"guarded", "recheck"} THEN @ ELSE Root]
Moves(i, st) == legs' = [legs EXCEPT ![i] = Goes(@, st)]
Others == UNCHANGED <<prs, main, group, npm, seen, late>>

\* Someone re-runs a job that is not green.
Rerun(i) ==
  /\ legs[i].st \in {"refused", "failed", "cancelled"}
  /\ FoldFunction(LAMBDA leg, n : leg.again + n, 0, legs) < MaxReruns
  /\ legs' = [legs EXCEPT ![i].st = "detect", ![i].again = @ + 1]
  /\ Others

\* (Mutant: the jobs do not wait for each other.)
BusyNot(k) == FALSE

Busy(k) == \E i \in DOMAIN legs :
  legs[i].pkg = k /\ legs[i].st \in {"running", "resolved", "guarded", "recheck"}

\* A job enters its npm name's concurrency group, where only the newest that
\* waits keeps its place; and it starts, one at a time.
Arrive(i) ==
  /\ legs[i].st = "detect"
  /\ legs' = [j \in DOMAIN legs |->
       IF j = i THEN [legs[j] EXCEPT !.st = "pending"]
       ELSE IF legs[j].pkg = legs[i].pkg /\ legs[j].st = "pending"
            THEN [legs[j] EXCEPT !.st = "cancelled"] ELSE legs[j]]
  /\ Others
StartLeg(i) ==
  /\ legs[i].st = "pending" /\ ~Busy(legs[i].pkg)
  /\ Moves(i, "running")
  /\ Others

\* The newest of the commits that released the package, else the last.
TouchingCommit(leg) ==
  LET touching == {c \in leg.base + 1 .. leg.sha : Releases(main[c].pr, leg.pkg)}
  IN IF touching = {} THEN leg.sha ELSE CHOOSE c \in touching : \A d \in touching : d <= c

\* ladder-merge-resolve.mjs
Resolve(i) ==
  LET leg == legs[i]
      c == TouchingCommit(leg)
      p == main[c].pr
      decision == Resolved(leg.pkg, main[c].trees[leg.pkg].v, p)
  IN /\ leg.st = "running"
     /\ legs' = [legs EXCEPT ![i].st = decision,
                             ![i].bytes = IF decision = "resolved" THEN prs[p].tree ELSE @]
     /\ Others

\* What assert-certified-publish.mjs says of the tarball: already on npm with
\* these contents, or with others, or below the tag, or to be published.
Certified(k, tree) ==
  IF tree.v \in seen[k].has
  THEN IF npm[k].on[tree.v] = tree THEN "skipped" ELSE "refused"
  ELSE IF tree.v < seen[k].latest THEN "refused" ELSE "guarded"

Guard(i) ==
  /\ legs[i].st = "resolved"
  /\ Moves(i, Certified(legs[i].pkg, legs[i].bytes))
  /\ Others

\* The registry's entry once it took a tarball.
Tagged(reg, tree) ==
  [on |-> [w \in DOMAIN reg.on \cup {tree.v} |-> IF w = tree.v THEN tree ELSE reg.on[w]],
   latest |-> tree.v]

\* npm publish, which npm refuses for a version it has.  The job may still
\* fail when npm took it.
NpmPublish(i) ==
  LET k == legs[i].pkg
      v == legs[i].bytes.v
      now == Tagged(npm[k], legs[i].bytes)
  IN /\ legs[i].st = "guarded"
     /\ IF v \in DOMAIN npm[k].on
        THEN Moves(i, "recheck") /\ UNCHANGED <<npm, seen, late>>
        ELSE /\ npm' = [npm EXCEPT ![k] = now]
             /\ \/ seen' = [seen EXCEPT ![k] = [has |-> DOMAIN now.on, latest |-> v]] /\ UNCHANGED late
                \/ late < MaxLate /\ late' = late + 1 /\ UNCHANGED seen
             /\ \/ Moves(i, "published") \/ Moves(i, "failed")
     /\ UNCHANGED <<prs, main, group>>

\* "Cannot publish over": right if npm has these contents; and it fails when
\* the registry does not serve them in time.
Recheck(i) ==
  LET says == Certified(legs[i].pkg, legs[i].bytes) IN
  /\ legs[i].st = "recheck"
  /\ Moves(i, IF says = "guarded" THEN "failed" ELSE says)
  /\ Others

\* An outage, a lost runner, a hand that cancels the job.
LegFails(i) ==
  /\ legs[i].st \in {"running", "resolved", "guarded"}
  /\ Moves(i, "failed")
  /\ Others

\* The registry catches up.
Serve(k) ==
  /\ seen[k] # [has |-> DOMAIN npm[k].on, latest |-> npm[k].latest]
  /\ seen' = [seen EXCEPT ![k] = [has |-> DOMAIN npm[k].on, latest |-> npm[k].latest]]
  /\ UNCHANGED <<prs, main, group, legs, npm, late>>

Leg(i) == Arrive(i) \/ StartLeg(i) \/ Resolve(i) \/ Guard(i) \/ NpmPublish(i) \/ Recheck(i)

LadderNext ==
  \/ \E p \in PRs : Push(p) \/ RunEnds(p) \/ Expire(p)
  \/ FormGroup \/ CheckGroup \/ Land
  \/ \E k \in Pkgs : Dispatch(k) \/ Serve(k)
  \/ \E i \in DOMAIN legs : Leg(i) \/ Rerun(i) \/ LegFails(i)

LadderSpec == LadderInit /\ [][LadderNext]_ladderVars
-----------------------------------------------------------------------------

\* Every version on npm was built by a green run that main's own checks judged,
\* from the very tree that its merge put on main: what ships was reviewed, and
\* is what main has, whatever else was merged, pushed or re-run meanwhile.
ShipsWhatLanded ==
  \A k \in Pkgs : \A v \in DOMAIN npm[k].on \ {1} :
    \E c \in 2 .. Len(main) :
      /\ main[c].trees[k] = npm[k].on[v] /\ npm[k].on[v].v = v
      /\ LET req == prs[main[c].pr] IN
           req.pkg = k /\ req.kind = "release" /\ req.run = "green" /\ req.tree = npm[k].on[v]

\* While the registry has served each publish at once, no publish moves the tag back, in
\* whatever order the jobs of several pushes come, fail and are run again.
TagNeverBack == [][late = 0 => \A k \in Pkgs : npm'[k].latest >= npm[k].latest]_ladderVars

\* A group that passed is one that publishes: what landed is only refused when
\* its tarball has expired or npm already has a later version.
PassedPublishes ==
  \A i \in DOMAIN legs :
    LET c == TouchingCommit(legs[i])
        p == main[c].pr
    IN legs[i].st = "refused" /\ c > legs[i].base /\ Releases(p, legs[i].pkg) =>
         \/ ~prs[p].kept
         \/ \E v \in DOMAIN npm[legs[i].pkg].on : v > main[c].trees[legs[i].pkg].v

\* Nothing is lost silently: for each release on main there is a job, and one
\* that is not green unless npm has that very release.  (A change of the
\* publish path releases nothing, by rule.)
NothingSilent ==
  \A c \in 2 .. Len(main) : \A k \in Pkgs :
    Releases(main[c].pr, k) /\ prs[main[c].pr].kind = "release" =>
      LET v == main[c].trees[k].v IN
      \E i \in DOMAIN legs :
        /\ legs[i].pkg = k /\ c \in legs[i].base + 1 .. legs[i].sha
        /\ legs[i].st \in {"published", "skipped"} =>
             v \in DOMAIN npm[k].on /\ npm[k].on[v] = main[c].trees[k]
=============================================================================
