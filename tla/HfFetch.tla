------------------------------- MODULE HfFetch -------------------------------
(***************************************************************************)
(* `hf download` of one file, over any number of runs of the command: the  *)
(* commit a run pins, the skip of a file that looks complete, the loop of  *)
(* attempts that grow <file>.incomplete out of Range answers, the checks   *)
(* of its size and sha256, and the remove and the rename that publish it.  *)
(* A run may be killed between any two of these steps, and some of the     *)
(* blocks that no sync had covered are gone then.                          *)
(*                                                                         *)
(* A file is a sequence of blocks, and a block is <<origin, offset>>: the  *)
(* commit whose content it is (or Bad, for bytes no commit has), and the   *)
(* place in the file it was served for.  SyncEvery and the sizes are in    *)
(* blocks; a sha256 is equal exactly when the blocks are.                  *)
(***************************************************************************)
EXTENDS Integers, Sequences

CONSTANTS Commits,   \* what the revision may resolve to
          Bad,       \* the origin of corrupted blocks
          Size,      \* [Commits -> Nat]: the size the Hub lists at a commit
          Corrupts,  \* whether the server may send Bad blocks
          MaxStalls, \* MAX_STALLS
          SyncEvery, \* SYNC_EVERY
          NoFile,    \* there is no such file
          MaxRuns    \* bound on the runs of the command

ASSUME FetchAssumption ==
  /\ Size \in [Commits -> Nat]
  /\ Corrupts \in BOOLEAN
  /\ MaxStalls \in Nat \ {0} /\ SyncEvery \in Nat \ {0} /\ MaxRuns \in Nat
  /\ Bad \notin Commits /\ NoFile \notin Seq((Commits \cup {Bad}) \X Nat)

VARIABLES
  lfs,      \* whether the Hub lists a sha256, and
  moves,    \* whether the revision may resolve to another commit in each run
  part,     \* <file>.incomplete
  synced,   \* how many of its blocks a kill leaves
  diskFailed, \* a write or a sync of it failed, and no sync succeeded since
  dest,     \* the file itself
  pc,       \* where the command is: "none" (not running), "top" of the
            \* loop, "body" (reading an answer), "swap" (dest removed, part
            \* not renamed yet), or how it ended: "ok", "skipped", "err"
  commit,   \* the commit of this run
  before,   \* before: the length of part when the attempt began
  start,    \* start: where its answer began to write
  from,     \* the offset of the first block of that answer
  unsynced, \* unsynced: blocks written since the last sync_data
  stalls,   \* stalls
  restarted,\* restarted
  healed,   \* the server and the disk do not fail any more
  runs,     \* runs begun
  had,      \* whether dest was ever there
  risked    \* whether dest was ever removed for a part whose last sync failed
vars == <<lfs, moves, part, synced, diskFailed, dest, pc, commit, before, start, from, unsynced, stalls,
          restarted, healed, runs, had, risked>>

Ended == {"ok", "skipped", "err"}
Running == pc \in {"top", "body", "swap"}

Content(c) == [i \in 1..Size[c] |-> <<c, i>>]
Want == Size[commit]
LenOf(f) == IF f = NoFile THEN 0 ELSE Len(f)
Blocks(f) == IF f = NoFile THEN <<>> ELSE f

\* complete: the declared size and no unfinished download beside it.
Complete(c) == part = NoFile /\ dest # NoFile /\ Len(dest) = Size[c]

Init ==
  /\ lfs \in BOOLEAN /\ moves \in BOOLEAN
  /\ part = NoFile /\ synced = 0 /\ diskFailed = FALSE
  /\ dest = NoFile
  /\ pc = "none"
  /\ commit \in Commits
  /\ before = 0 /\ start = 0 /\ from = 0 /\ unsynced = 0 /\ stalls = 0 /\ restarted = FALSE
  /\ healed = FALSE
  /\ runs = 0 /\ had = FALSE /\ risked = FALSE

\* run: pin a commit, skip the file or begin to fetch it; fetch gives up at
\* once when dest or its parent is not what it should be.
Start(c, force) ==
  /\ pc \in Ended \cup {"none"} /\ runs < MaxRuns
  /\ moves \/ c = commit
  /\ runs' = runs + 1 /\ commit' = c
  /\ IF ~force /\ Complete(c)
       THEN pc' = "skipped"
       ELSE pc' = "top" \/ (pc' = "err" /\ ~healed)
  /\ stalls' = 0 /\ restarted' = FALSE
  /\ UNCHANGED <<part, synced, diskFailed, dest, before, start, from, unsynced, healed, had, risked>>

\* What a step that leaves part' has put on the disk: all of it, with a sync
\* that succeeds; what was there before, without one; and what was there
\* before after a write or a sync that fails.
Covered == IF synced < LenOf(part') THEN synced ELSE LenOf(part')
Synced == synced' = LenOf(part') /\ diskFailed' = FALSE
NotSynced == synced' = Covered /\ diskFailed' = (diskFailed /\ part' # NoFile)
DiskFailed == ~healed /\ synced' = Covered /\ diskFailed' = TRUE

\* What fetch makes of an attempt that leaves the part p and began with b
\* blocks: Retry ...
Stalled(p, b) == IF LenOf(p) # b THEN 0 ELSE stalls + 1
Retry(p, b) ==
  /\ part' = p
  /\ stalls' = Stalled(p, b)
  /\ pc' = IF stalls' >= MaxStalls THEN "err" ELSE "top"
  /\ UNCHANGED <<dest, restarted, had, risked>>
\* ... Fatal ...
Fatal(p) ==
  /\ part' = p
  /\ pc' = "err"
  /\ UNCHANGED <<dest, stalls, restarted, had, risked>>
\* ... and Done, by the size and the sha256 of the part.
WrongSize(p, b) ==
  /\ LenOf(p) # Want
  /\ part' = IF LenOf(p) > Want THEN NoFile ELSE p
  /\ stalls' = Stalled(p, b)
  /\ pc' = IF stalls' >= MaxStalls THEN "err" ELSE "top"
  /\ UNCHANGED <<dest, restarted, had>>
WrongSumKept(p) == \* (mutant) the part stays
  /\ LenOf(p) = Want /\ lfs /\ Blocks(p) # Content(commit)
  /\ part' = p
  /\ pc' = IF restarted THEN "err" ELSE "top"
  /\ restarted' = TRUE
  /\ UNCHANGED <<dest, stalls, had>>
WrongSum(p) ==
  /\ LenOf(p) = Want /\ lfs /\ Blocks(p) # Content(commit)
  /\ part' = NoFile
  /\ pc' = IF restarted THEN "err" ELSE "top"
  /\ restarted' = TRUE
  /\ UNCHANGED <<dest, stalls, had>>
PublishAny(p) == \* (mutant) unverified
  /\ LenOf(p) = Want
  /\ part' = p
  /\ dest' = NoFile
  /\ pc' = "swap"
  /\ UNCHANGED <<stalls, restarted, had>>
Publish(p) ==
  /\ LenOf(p) = Want /\ (lfs => Blocks(p) = Content(commit))
  /\ part' = p
  /\ dest' = NoFile
  /\ pc' = "swap"
  /\ UNCHANGED <<stalls, restarted, had>>
Done(p, b) == WrongSize(p, b) \/ WrongSum(p) \/ Publish(p)
Risks == risked' = (risked \/ (pc' = "swap" /\ diskFailed'))

\* The variables of an attempt end with it.
Forget == before' = 0 /\ start' = 0 /\ from' = 0 /\ unsynced' = 0

\* fs::rename.
Rename ==
  /\ pc = "swap"
  /\ \/ dest' = part /\ part' = NoFile /\ NotSynced /\ pc' = "ok" /\ had' = TRUE
     \/ ~healed /\ pc' = "err" /\ UNCHANGED <<dest, part, synced, diskFailed, had>>
  /\ UNCHANGED <<commit, before, start, from, unsynced, stalls, restarted, healed, runs, risked>>

\* The part an attempt goes on with: one longer than the file is removed.
Kept == IF LenOf(part) > Want THEN NoFile ELSE part
Have == LenOf(Kept)
\* Nothing is left to ask for.
WholeNever == FALSE \* (mutant) a whole part is asked for again
Whole == Have = Want /\ Have > 0

\* attempt, up to the answer.  A whole part is done with as it is: nothing
\* syncs what an earlier run could not.
AlreadyWhole ==
  /\ pc = "top" /\ Whole
  /\ Done(Kept, LenOf(part)) /\ NotSynced /\ Risks
  /\ UNCHANGED <<commit, before, start, from, unsynced, healed, runs>>

\* The call fails, or answers 408, 425, 429 or 5xx.
AnswerRetry ==
  /\ pc = "top" /\ ~Whole /\ ~healed
  /\ Retry(Kept, LenOf(part)) /\ NotSynced
  /\ UNCHANGED <<commit, before, start, from, unsynced, healed, runs>>
\* An answer with a body: 200 serves the file from its beginning, 206 from
\* the offset its Content-Range says.
Answers == [status : {200}, at : {0}] \cup [status : {206}, at : 0..(Have + 1)]
ResumesAny(a) == a.status = 206 \* (mutant) whatever its range
Resumes(a) == a.status = 206 /\ a.at = Have
\* A 206 of another range, or a 416.
AnswerRefuse ==
  /\ pc = "top" /\ ~Whole /\ ~healed
  /\ Retry(NoFile, LenOf(part)) /\ NotSynced
  /\ UNCHANGED <<commit, before, start, from, unsynced, healed, runs>>
\* Any other status; the part cannot be opened, or set_len fails.
AnswerFatal ==
  /\ pc = "top" /\ ~Whole /\ ~healed
  /\ Fatal(Kept) /\ NotSynced
  /\ UNCHANGED <<commit, before, start, from, unsynced, healed, runs>>

\* The status and headers of an answer that is accepted, and set_len.
AnswerBody(a) ==
  /\ pc = "top" /\ ~Whole
  /\ a.status = 206 => Resumes(a)
  /\ before' = LenOf(part)
  /\ start' = IF Resumes(a) THEN Have ELSE 0
  /\ from' = a.at
  /\ part' = SubSeq(Blocks(Kept), 1, start') /\ NotSynced
  /\ unsynced' = 0
  /\ pc' = "body"
  /\ UNCHANGED <<dest, commit, stalls, restarted, healed, runs, had, risked>>

\* One body.read with something in it, its write_all and its sync_data, whose
\* failure changes nothing.
Sending == pc = "body" /\ Len(part) <= Want
SyncDue == unsynced + 1 >= SyncEvery
ReadBlock(origin) ==
  /\ Sending
  /\ healed => origin = commit /\ Len(part) < Want
  /\ part' = Append(part, <<origin, from + (Len(part) - start) + 1>>)
  /\ IF SyncDue
       THEN unsynced' = 0 /\ (Synced \/ DiskFailed)
       ELSE unsynced' = unsynced + 1 /\ NotSynced
  /\ UNCHANGED <<dest, pc, commit, before, start, from, stalls, restarted, healed, runs, had, risked>>

\* The end of the body, or a block too many, and sync_all.
BodyEndsUnsynced == \* (mutant) without sync_all
  /\ pc = "body"
  /\ healed => Len(part) >= Want
  /\ Done(part, before) /\ NotSynced /\ Risks
  /\ Forget /\ UNCHANGED <<commit, healed, runs>>
BodyEnds ==
  /\ pc = "body"
  /\ healed => Len(part) >= Want
  /\ Done(part, before) /\ Synced /\ Risks
  /\ Forget /\ UNCHANGED <<commit, healed, runs>>
\* The connection is lost; sync_data, whatever comes of it.
BodyBreaks ==
  /\ Sending /\ ~healed
  /\ Retry(part, before) /\ (Synced \/ DiskFailed)
  /\ Forget /\ UNCHANGED <<commit, healed, runs>>
\* write_all or sync_all fails.
DiskFails ==
  /\ pc = "body"
  /\ Fatal(part) /\ DiskFailed
  /\ Forget /\ UNCHANGED <<commit, healed, runs>>

\* The process is killed: some of what was not synced is gone, of the part, and
\* of a file that was published with such blocks.
Kill ==
  /\ Running
  /\ pc' = "none"
  /\ \E n \in synced..LenOf(part) :
       /\ IF part = NoFile THEN part' = NoFile
                           ELSE part' = SubSeq(part, 1, n) \/ (n = 0 /\ part' = NoFile)
       /\ synced' = n /\ diskFailed' = FALSE
  /\ \/ UNCHANGED dest
     \/ risked /\ dest # NoFile /\ \E n \in 0..Len(dest) : dest' = SubSeq(dest, 1, n)
  /\ Forget /\ stalls' = 0 /\ restarted' = FALSE
  /\ UNCHANGED <<commit, healed, runs, had, risked>>

Heal == ~healed /\ healed' = TRUE
        /\ UNCHANGED <<part, synced, diskFailed, dest, pc, commit, before, start, from, unsynced, stalls,
                       restarted, runs, had, risked>>

Origins == {commit} \cup (IF Corrupts THEN {Bad} ELSE {})
Fetch ==
  \/ Rename \/ AlreadyWhole
  \/ AnswerRetry \/ AnswerRefuse \/ AnswerFatal
  \/ \E a \in Answers : AnswerBody(a)
  \/ \E o \in Origins : ReadBlock(o)
  \/ BodyEnds \/ BodyBreaks \/ DiskFails
Next ==
  /\ Fetch \/ Kill \/ Heal \/ \E c \in Commits, force \in BOOLEAN : Start(c, force)
  /\ UNCHANGED <<lfs, moves>>

\* Once begun, the command goes on until it ends or is killed.
Spec == Init /\ [][Next]_vars /\ WF_vars(Fetch /\ UNCHANGED <<lfs, moves>>)

-----------------------------------------------------------------------------
\* However a file was resumed, restarted, cut short or killed, every block of
\* it is at the offset it was served for.
InPlace ==
  \A f \in {part, dest} : \A i \in DOMAIN Blocks(f) : f[i][2] = i

\* Unless it was removed for a part whose writes or syncs had failed (risked),
\* a file whose sha256 the Hub lists is only ever there with what one commit
\* says it is, whatever earlier runs of other commits left in its part and
\* whatever the server sent.
OnlyVerified == lfs /\ ~risked => dest \in {NoFile} \cup {Content(c) : c \in Commits}

\* As long as the revision does not move, a file that was once there is lost
\* only if it was removed for a part whose writes or syncs had failed: without
\* that, through every kill, failed rename and forced download, and however
\* far apart the syncs are, the file or a complete part to publish is there.
NeverLost == ~moves /\ had /\ ~risked => dest # NoFile \/ LenOf(part) = Want

\* Once the server and the disk are well, a fetch that did not already use up
\* its restart ends with the file published, whatever is in its part.
HealsToOk == healed /\ pc = "top" /\ ~restarted ~> pc \in {"ok", "none"}

=============================================================================
