--------------------------- MODULE DeliveryProofs ---------------------------
(***************************************************************************)
(* What is fetched and what is shipped.                                    *)
(*                                                                         *)
(* wasi-hf (HfFetch): for every size, number of runs, stalls and blocks    *)
(* between two syncs, the blocks of a file are in their places, a file     *)
(* with a sha256 is what a commit says, and a file that was once there is  *)
(* lost only to a disk that failed.                                        *)
(*                                                                         *)
(* The pipeline (Ladder): for every set of pull requests and packages, and *)
(* any number of pushes, jobs, re-runs and late answers, what is on npm is *)
(* what landed and the tag does not go back; and when each release raises  *)
(* its package's version, what the queue let pass is published, and        *)
(* nothing that landed is lost silently.                                   *)
(***************************************************************************)
EXTENDS HfFetch, Ladder, FiniteSetTheorems, SequenceTheorems, TLAPS

-----------------------------------------------------------------------------
(* Files *)

Blks == (Commits \cup {Bad}) \X Nat
\* The files whose blocks are at their offsets.
Placed == {f \in Seq(Blks) : \A i \in 1..Len(f) : f[i][2] = i}
Files == Placed \cup {NoFile}

LEMMA PlacedFacts ==
  ASSUME NEW f \in Placed
  PROVE  /\ f # NoFile /\ LenOf(f) = Len(f) /\ LenOf(f) \in Nat /\ Blocks(f) = f
         /\ \A i \in DOMAIN f : f[i][2] = i
BY FetchAssumption DEF Placed, Blks, LenOf, Blocks

LEMMA EmptyPlaced == <<>> \in Placed /\ Len(<<>>) = 0
BY DEF Placed, Blks

LEMMA FileFacts ==
  ASSUME NEW f \in Files
  PROVE  LenOf(f) \in Nat /\ Blocks(f) \in Placed /\ Len(Blocks(f)) = LenOf(f)
<1>1. CASE f = NoFile
  BY <1>1, EmptyPlaced DEF LenOf, Blocks
<1>2. CASE f \in Placed
  BY <1>2, PlacedFacts
<1> QED BY <1>1, <1>2 DEF Files

LEMMA PrefixPlaced ==
  ASSUME NEW f \in Placed, NEW n \in 0..Len(f)
  PROVE  SubSeq(f, 1, n) \in Placed /\ Len(SubSeq(f, 1, n)) = n
<1>1. f \in Seq(Blks) /\ Len(f) \in Nat /\ \A i \in 1..Len(f) : f[i][2] = i
  BY DEF Placed
<1> DEFINE g == SubSeq(f, 1, n)
<1>2. g \in Seq(Blks) /\ Len(g) = n /\ \A i \in 1..n : g[i] = f[i]
  BY <1>1, SubSeqProperties
<1>3. \A i \in 1..Len(g) : g[i][2] = i
  BY <1>1, <1>2
<1> QED BY <1>2, <1>3 DEF Placed

LEMMA GrowPlaced ==
  ASSUME NEW f \in Placed, NEW o \in Commits \cup {Bad}, NEW k, k = Len(f) + 1
  PROVE  /\ Append(f, <<o, k>>) \in Placed
         /\ Len(Append(f, <<o, k>>)) = Len(f) + 1
<1>1. f \in Seq(Blks) /\ Len(f) \in Nat /\ \A i \in 1..Len(f) : f[i][2] = i
  BY DEF Placed
<1>2. <<o, k>> \in Blks
  BY <1>1 DEF Blks
<1> DEFINE g == Append(f, <<o, k>>)
<1>3. /\ g \in Seq(Blks) /\ Len(g) = Len(f) + 1
      /\ \A i \in 1..Len(f) : g[i] = f[i]
      /\ g[Len(f) + 1] = <<o, k>>
  BY <1>1, <1>2, AppendProperties
<1>4. \A i \in 1..Len(g) : g[i][2] = i
  BY <1>1, <1>3
<1> QED BY <1>3, <1>4 DEF Placed

-----------------------------------------------------------------------------
(* The inductive invariant *)

TypeOK ==
  /\ part \in Files /\ dest \in Files
  /\ commit \in Commits
  /\ pc \in {"none", "top", "body", "swap"} \cup Ended
  /\ synced \in Nat /\ start \in Nat
  /\ synced <= LenOf(part)
  /\ diskFailed \in BOOLEAN /\ risked \in BOOLEAN

\* An answer goes on where the part ended.
InBody == pc = "body" => part # NoFile /\ from = start /\ start <= LenOf(part)

\* Between two attempts a kill takes nothing of the part, unless the disk had
\* failed.
OnDisk == pc # "body" /\ ~diskFailed => synced = LenOf(part)

\* A part that can be published.
Ready(p) == p # NoFile /\ LenOf(p) = Want /\ (lfs => p = Content(commit))
InSwap == pc = "swap" => Ready(part) /\ (diskFailed => risked)

\* Where the file should be there and is not, a kill leaves a part to publish
\* and no answer is written over it.  An empty file has nothing to lose.
NonEmpty == \A c \in Commits : Size[c] > 0
Missing == NonEmpty /\ ~moves /\ had /\ ~risked /\ dest = NoFile
Spare == Missing => Ready(part) /\ ~diskFailed /\ pc # "body"

IInv == TypeOK /\ InBody /\ OnDisk /\ InSwap /\ OnlyVerified /\ Spare

LEMMA InitInv == Init => IInv
<1> SUFFICES ASSUME Init PROVE IInv
  OBVIOUS
<1>1. part \in Files /\ dest \in Files /\ synced = 0 /\ start = 0 /\ LenOf(part) = 0
  BY DEF Init, Files, LenOf
<1>2. TypeOK
  <2>1. commit \in Commits /\ pc = "none" /\ diskFailed \in BOOLEAN /\ risked \in BOOLEAN
    BY DEF Init
  <2> QED BY <1>1, <2>1 DEF TypeOK
<1>3. InBody /\ InSwap /\ OnlyVerified /\ Spare
  BY DEF InBody, InSwap, OnlyVerified, Spare, Missing, Init
<1>4. OnDisk
  BY <1>1 DEF OnDisk
<1> QED BY <1>2, <1>3, <1>4 DEF IInv

LEMMA WantFacts ==
  ASSUME TypeOK
  PROVE  Want \in Nat /\ (NonEmpty => Want > 0)
BY FetchAssumption DEF TypeOK, Want, NonEmpty

\* The part an attempt goes on with.
LEMMA KeptFacts ==
  ASSUME IInv
  PROVE  /\ Kept \in {NoFile, part} /\ Have \in Nat /\ Have <= Want
         /\ Blocks(Kept) \in Placed /\ Len(Blocks(Kept)) = Have
         /\ Missing => Whole
         /\ Whole => Kept = part /\ part \in Placed
<1>1. Want \in Nat /\ (NonEmpty => Want > 0) /\ part \in Files
  BY WantFacts DEF IInv, TypeOK
<1>2. LenOf(part) \in Nat
  BY <1>1, FileFacts
<1>3. Kept \in {NoFile, part} /\ Kept \in Files
  BY <1>1 DEF Kept, Files
<1>4. Have \in Nat /\ Blocks(Kept) \in Placed /\ Len(Blocks(Kept)) = Have
  BY <1>3, FileFacts DEF Have
<1>5. Have <= Want
  BY <1>1, <1>2 DEF Have, Kept, LenOf
<1>6. ASSUME Missing PROVE Whole
  <2>1. LenOf(part) = Want /\ Want > 0
    BY <1>1, <1>6 DEF IInv, Spare, Missing, Ready
  <2>2. Kept = part
    BY <1>1, <2>1 DEF Kept
  <2> QED BY <2>1, <2>2 DEF Whole, Have
<1>7. Whole => Kept # NoFile
  BY DEF Whole, Have, LenOf
<1> QED BY <1>1, <1>3, <1>4, <1>5, <1>6, <1>7 DEF Files

\* What a step leaves of the part and what of it is on the disk.
LEMMA DiskFacts ==
  ASSUME IInv, part' \in Files,
         pc' = "body" \/ LenOf(part') <= LenOf(part),
         Synced \/ DiskFailed \/ (NotSynced /\ (pc # "body" \/ pc' = "body"))
  PROVE  /\ synced' \in Nat /\ synced' <= LenOf(part') /\ diskFailed' \in BOOLEAN
         /\ pc' # "body" /\ ~diskFailed' => synced' = LenOf(part')
<1>1. synced \in Nat /\ synced <= LenOf(part) /\ diskFailed \in BOOLEAN /\ part \in Files
  BY DEF IInv, TypeOK
<1>2. LenOf(part) \in Nat /\ LenOf(part') \in Nat
  BY <1>1, FileFacts
<1>3. CASE Synced
  <2>1. synced' = LenOf(part') /\ diskFailed' \in BOOLEAN
    BY <1>3 DEF Synced
  <2> QED BY <1>2, <2>1
<1>4. CASE DiskFailed
  BY <1>1, <1>2, <1>4 DEF DiskFailed, Covered
<1>5. CASE NotSynced /\ (pc # "body" \/ pc' = "body")
  <2>1. synced' = Covered /\ diskFailed' = (diskFailed /\ part' # NoFile)
    BY <1>5 DEF NotSynced
  <2>2. ASSUME pc' # "body", ~diskFailed' PROVE Covered = LenOf(part')
    <3>1. CASE part' = NoFile
      BY <1>1, <3>1 DEF Covered, LenOf
    <3>2. CASE part' # NoFile
      <4>1. synced = LenOf(part)
        BY <1>5, <2>1, <2>2, <3>2 DEF IInv, OnDisk
      <4> QED BY <1>2, <2>2, <4>1 DEF Covered
    <3> QED BY <3>1, <3>2
  <2> QED BY <1>1, <1>2, <2>1, <2>2 DEF Covered
<1> QED BY <1>3, <1>4, <1>5

-----------------------------------------------------------------------------
(* How an attempt ends *)

\* A step that keeps the file and has nothing to lose.
LEMMA QuietInv ==
  ASSUME IInv, part' \in {NoFile, part}, pc' \in {"top", "err"},
         Synced \/ DiskFailed \/ (NotSynced /\ pc # "body"),
         UNCHANGED <<dest, had, risked, commit, lfs, moves>>, start' \in Nat, ~Missing
  PROVE  IInv'
<1>1. part' \in Files /\ part \in Files
  BY DEF IInv, TypeOK, Files
<1>2. LenOf(part') <= LenOf(part)
  <2>1. LenOf(part) \in Nat
    BY <1>1, FileFacts
  <2> QED BY <2>1 DEF LenOf
<1>3. /\ synced' \in Nat /\ synced' <= LenOf(part') /\ diskFailed' \in BOOLEAN
      /\ pc' # "body" /\ ~diskFailed' => synced' = LenOf(part')
  BY <1>1, <1>2, DiskFacts
<1>4. LenOf(part') = LenOf(part)'
  BY DEF LenOf
<1>5. TypeOK'
  BY <1>1, <1>3, <1>4 DEF IInv, TypeOK, Ended
<1>6. OnDisk'
  BY <1>3, <1>4 DEF OnDisk
<1>7. InBody' /\ InSwap'
  BY DEF InBody, InSwap
<1>8. OnlyVerified'
  BY DEF IInv, OnlyVerified, Content
<1>9. Spare'
  BY DEF Spare, Missing, NonEmpty
<1> QED BY <1>5, <1>6, <1>7, <1>8, <1>9 DEF IInv

LEMMA RetryInv ==
  ASSUME IInv, NEW p \in {NoFile, part}, NEW b, Retry(p, b), UNCHANGED <<commit, lfs, moves>>,
         start' \in Nat, Synced \/ DiskFailed \/ (NotSynced /\ pc # "body"), ~Missing
  PROVE  IInv'
<1>1. part' \in {NoFile, part} /\ pc' \in {"top", "err"} /\ UNCHANGED <<dest, had, risked>>
  BY DEF Retry
<1> QED BY <1>1, QuietInv

LEMMA FatalInv ==
  ASSUME IInv, NEW p \in {NoFile, part}, Fatal(p), UNCHANGED <<commit, lfs, moves>>,
         start' \in Nat, Synced \/ DiskFailed \/ (NotSynced /\ pc # "body"), ~Missing
  PROVE  IInv'
<1>1. part' \in {NoFile, part} /\ pc' \in {"top", "err"} /\ UNCHANGED <<dest, had, risked>>
  BY DEF Fatal
<1> QED BY <1>1, QuietInv

LEMMA DoneInv ==
  ASSUME IInv, part \in Placed, NEW b, Done(part, b), Risks, UNCHANGED <<commit, lfs, moves>>,
         start' \in Nat, Synced \/ (NotSynced /\ pc # "body")
  PROVE  IInv'
<1>p. part \in Files /\ part # NoFile /\ Blocks(part) = part /\ LenOf(part) \in Nat
  BY PlacedFacts DEF Files
<1>n. NoFile \in Files /\ LenOf(NoFile) = 0
  BY DEF Files, LenOf
<1>1. CASE WrongSize(part, b) \/ WrongSum(part)
  <2>1. /\ part' \in {NoFile, part} /\ dest' = dest /\ had' = had
        /\ pc' \in {"err", "top"}
    BY <1>1 DEF WrongSize, WrongSum
  <2>2. ~Missing
    BY <1>1, <1>p DEF WrongSize, WrongSum, Ready, IInv, Spare
  <2>3. risked' = risked
    BY <2>1 DEF Risks, IInv, TypeOK
  <2> QED BY <2>1, <2>2, <2>3, QuietInv
<1>2. CASE Publish(part)
  <2>1. /\ part' = part /\ dest' = NoFile /\ had' = had /\ pc' = "swap"
        /\ LenOf(part) = Want /\ (lfs => part = Content(commit))
    BY <1>2, <1>p DEF Publish
  <2>2. part' \in Files /\ LenOf(part') <= LenOf(part)
    BY <2>1, <1>p
  <2>3. /\ synced' \in Nat /\ synced' <= LenOf(part') /\ diskFailed' \in BOOLEAN
        /\ pc' # "body" /\ ~diskFailed' => synced' = LenOf(part')
    BY <2>2, DiskFacts
  <2>4. LenOf(part') = LenOf(part)'
    BY DEF LenOf
  <2>5. risked' = (risked \/ diskFailed') /\ risked \in BOOLEAN
    BY <2>1 DEF Risks, IInv, TypeOK
  <2>6. TypeOK'
    BY <2>1, <2>3, <2>4, <2>5, <1>p, <1>n DEF IInv, TypeOK
  <2>7. Ready(part)'
    BY <2>1, <1>p DEF Ready, Want, LenOf, Content
  <2>8. OnDisk'
    BY <2>3, <2>4 DEF OnDisk
  <2>9. diskFailed' => risked'
    BY <2>5
  <2>10. InBody' /\ InSwap' /\ OnlyVerified' /\ Spare'
    BY <2>1, <2>7, <2>9 DEF InBody, InSwap, OnlyVerified, Spare, Missing
  <2> QED BY <2>6, <2>8, <2>10 DEF IInv
<1> QED BY <1>1, <1>2 DEF Done

-----------------------------------------------------------------------------
(* The steps *)

\* None of the steps that follow has anything left to lose.
LEMMA NothingMissing ==
  ASSUME IInv, pc = "body" \/ (pc = "top" /\ ~Whole)
  PROVE  ~Missing
BY KeptFacts DEF IInv, Spare

LEMMA StartInv ==
  ASSUME IInv, NEW c \in Commits, NEW force \in BOOLEAN, Start(c, force), UNCHANGED <<lfs, moves>>
  PROVE  IInv'
<1>1. /\ pc' \in {"top", "err", "skipped"} /\ commit' = c /\ (moves \/ c = commit) /\ pc # "body"
      /\ UNCHANGED <<part, synced, diskFailed, dest, start, from, had, risked>>
  BY DEF Start, Ended
<1>2. TypeOK'
  BY <1>1 DEF IInv, TypeOK, Ended, LenOf
<1>3. InBody' /\ InSwap'
  BY <1>1 DEF InBody, InSwap
<1>4. OnlyVerified' /\ OnDisk'
  BY <1>1 DEF IInv, OnlyVerified, OnDisk, Content, LenOf
<1>5. ASSUME Missing' PROVE Ready(part)' /\ ~diskFailed' /\ pc' # "body"
  <2>1. Missing /\ commit' = commit
    BY <1>1, <1>5 DEF Missing, NonEmpty
  <2> QED BY <1>1, <2>1 DEF IInv, Spare, Ready, Want, LenOf, Content
<1> QED BY <1>2, <1>3, <1>4, <1>5 DEF IInv, Spare

LEMMA RenameInv ==
  ASSUME IInv, Rename, UNCHANGED <<lfs, moves>>
  PROVE  IInv'
<1>1. /\ pc = "swap" /\ Ready(part) /\ (diskFailed => risked) /\ part \in Files
      /\ UNCHANGED <<commit, start, from, risked>>
  BY DEF IInv, InSwap, TypeOK, Rename
<1>n. NoFile \in Files /\ LenOf(NoFile) = 0
  BY DEF Files, LenOf
<1>2. CASE dest' = part /\ part' = NoFile /\ NotSynced /\ pc' = "ok" /\ had' = TRUE
  <2>1. synced' = 0 /\ diskFailed' \in BOOLEAN
    <3>1. synced' = Covered /\ diskFailed' = (diskFailed /\ part' # NoFile)
      BY <1>2 DEF NotSynced
    <3>2. diskFailed' \in BOOLEAN
      BY <3>1
    <3>3. Covered = 0
      BY <1>2 DEF Covered, LenOf, IInv, TypeOK
    <3> QED BY <3>1, <3>2, <3>3
  <2>2. TypeOK'
    <3>1. LenOf(part)' = 0
      BY <1>2 DEF LenOf
    <3>2. /\ part' \in Files /\ dest' \in Files /\ commit' \in Commits /\ start' \in Nat
          /\ risked' \in BOOLEAN
      BY <1>1, <1>2, <1>n DEF IInv, TypeOK
    <3> QED BY <1>2, <2>1, <3>1, <3>2 DEF TypeOK, Ended
  <2>3. OnlyVerified'
    BY <1>1, <1>2 DEF IInv, TypeOK, OnlyVerified, Ready, Content
  <2>4. InBody' /\ InSwap'
    BY <1>2 DEF InBody, InSwap
  <2>5. OnDisk'
    BY <1>2, <1>n, <2>1 DEF OnDisk, LenOf
  <2>6. Spare'
    BY <1>1, <1>2 DEF Spare, Missing, Ready
  <2> QED BY <2>2, <2>3, <2>4, <2>5, <2>6 DEF IInv
<1>3. CASE pc' = "err" /\ UNCHANGED <<dest, part, synced, diskFailed, had>>
  <2>1. TypeOK'
    BY <1>1, <1>3 DEF IInv, TypeOK, Ended, LenOf
  <2>2. InBody' /\ InSwap'
    BY <1>3 DEF InBody, InSwap
  <2>3. OnlyVerified' /\ OnDisk'
    BY <1>1, <1>3 DEF IInv, OnlyVerified, OnDisk, Content, LenOf
  <2>4. Ready(part)'
    BY <1>1, <1>3 DEF Ready, Want, LenOf, Content
  <2>5. Spare'
    BY <1>1, <1>3, <2>4 DEF Spare, Missing
  <2> QED BY <2>1, <2>2, <2>3, <2>5 DEF IInv
<1> QED BY <1>2, <1>3 DEF Rename

LEMMA AnswerBodyInv ==
  ASSUME IInv, NEW a \in Answers, AnswerBody(a), UNCHANGED <<lfs, moves>>
  PROVE  IInv'
<1>1. /\ pc = "top" /\ ~Whole /\ (a.status = 206 => a.at = Have)
      /\ start' = (IF a.status = 206 /\ a.at = Have THEN Have ELSE 0) /\ from' = a.at
      /\ part' = SubSeq(Blocks(Kept), 1, start') /\ NotSynced
      /\ pc' = "body" /\ UNCHANGED <<dest, commit, had, risked>>
  BY DEF AnswerBody, Resumes
<1>2. Have \in Nat /\ Blocks(Kept) \in Placed /\ Len(Blocks(Kept)) = Have
  BY KeptFacts
<1>3. start' \in 0..Have /\ from' = start'
  BY <1>1, <1>2 DEF Answers
<1>4. part' \in Placed /\ Len(part') = start'
  BY <1>1, <1>2, <1>3, PrefixPlaced
<1>5. LenOf(part)' = start' /\ part' # NoFile /\ part' \in Files
  BY <1>4, PlacedFacts DEF LenOf, Files
<1>6. synced' \in Nat /\ synced' <= LenOf(part') /\ diskFailed' \in BOOLEAN
  BY <1>1, <1>5, DiskFacts
<1>7. LenOf(part') = LenOf(part)' /\ start' \in Nat
  BY <1>2, <1>3 DEF LenOf
<1>8. TypeOK'
  BY <1>1, <1>5, <1>6, <1>7 DEF IInv, TypeOK
<1>9. InBody' /\ OnDisk'
  BY <1>1, <1>3, <1>5, <1>7 DEF InBody, OnDisk
<1>10. InSwap' /\ OnlyVerified'
  BY <1>1 DEF IInv, InSwap, OnlyVerified, Content
<1>11. Spare'
  <2>1. ~Missing
    BY <1>1, NothingMissing
  <2> QED BY <1>1, <2>1 DEF Spare, Missing, NonEmpty
<1> QED BY <1>8, <1>9, <1>10, <1>11 DEF IInv

LEMMA ReadBlockInv ==
  ASSUME IInv, NEW o \in Origins, ReadBlock(o), UNCHANGED <<lfs, moves>>
  PROVE  IInv'
<1>1. /\ pc = "body" /\ part' = Append(part, <<o, from + (Len(part) - start) + 1>>)
      /\ Synced \/ DiskFailed \/ NotSynced
      /\ UNCHANGED <<dest, pc, commit, start, from, had, risked>>
  BY DEF ReadBlock, Sending
<1>2. part \in Placed /\ from = start /\ start \in Nat /\ start <= Len(part) /\ Len(part) \in Nat
  <2>1. part \in Placed /\ from = start /\ start \in Nat /\ start <= LenOf(part)
    BY <1>1 DEF IInv, TypeOK, InBody, Files
  <2> QED BY <2>1, PlacedFacts
<1>3. o \in Commits \cup {Bad}
  BY DEF Origins, IInv, TypeOK
<1>4. from + (Len(part) - start) + 1 = Len(part) + 1
  BY <1>2
<1>5. part' \in Placed /\ Len(part') = Len(part) + 1
  BY <1>1, <1>2, <1>3, <1>4, GrowPlaced
<1>6. LenOf(part)' = Len(part) + 1 /\ part' # NoFile /\ part' \in Files /\ LenOf(part) = Len(part)
  BY <1>2, <1>5, PlacedFacts DEF LenOf, Files
<1>7. synced' \in Nat /\ synced' <= LenOf(part') /\ diskFailed' \in BOOLEAN
  BY <1>1, <1>6, DiskFacts
<1>8. LenOf(part') = LenOf(part)'
  BY DEF LenOf
<1>9. TypeOK'
  BY <1>1, <1>6, <1>7, <1>8 DEF IInv, TypeOK
<1>10. InBody' /\ OnDisk'
  BY <1>1, <1>2, <1>6 DEF InBody, OnDisk
<1>11. InSwap' /\ OnlyVerified'
  BY <1>1 DEF IInv, InSwap, OnlyVerified, Content
<1>12. Spare'
  <2>1. ~Missing
    BY <1>1, NothingMissing
  <2> QED BY <1>1, <2>1 DEF Spare, Missing, NonEmpty
<1> QED BY <1>9, <1>10, <1>11, <1>12 DEF IInv

LEMMA KillInv ==
  ASSUME IInv, Kill, UNCHANGED <<lfs, moves>>
  PROVE  IInv'
<1>1. PICK n \in synced..LenOf(part) :
        /\ IF part = NoFile THEN part' = NoFile
                            ELSE part' = SubSeq(part, 1, n) \/ (n = 0 /\ part' = NoFile)
        /\ synced' = n /\ diskFailed' = FALSE
  BY DEF Kill
<1>2. pc' = "none" /\ start' = 0 /\ UNCHANGED <<commit, had, risked>>
  BY DEF Kill, Forget
<1>d. dest' \in Files /\ (~risked => dest' = dest)
  <2>1. CASE UNCHANGED dest
    BY <2>1 DEF IInv, TypeOK
  <2>2. ASSUME risked, dest # NoFile, NEW m \in 0..Len(dest), dest' = SubSeq(dest, 1, m)
        PROVE  dest' \in Files
    <3>1. dest \in Placed
      BY <2>2 DEF IInv, TypeOK, Files
    <3>2. SubSeq(dest, 1, m) \in Placed
      BY <3>1, PrefixPlaced
    <3> QED BY <2>2, <3>2 DEF Files
  <2> QED BY <2>1, <2>2 DEF Kill
<1>3. part \in Files /\ synced \in Nat /\ LenOf(part) \in Nat /\ n \in Nat /\ n <= LenOf(part)
  <2>1. part \in Files /\ synced \in Nat
    BY DEF IInv, TypeOK
  <2>2. LenOf(part) \in Nat
    BY <2>1, FileFacts
  <2> QED BY <2>1, <2>2
<1>n. NoFile \in Files /\ LenOf(NoFile) = 0
  BY DEF Files, LenOf
<1>4. part' \in Files /\ LenOf(part)' = n
  <2>1. CASE part = NoFile \/ (n = 0 /\ part' = NoFile)
    BY <1>1, <1>3, <1>n, <2>1 DEF LenOf
  <2>2. CASE part # NoFile /\ part' = SubSeq(part, 1, n)
    <3>1. part \in Placed /\ n \in 0..Len(part)
      BY <1>3, <2>2, PlacedFacts DEF Files
    <3>2. part' \in Placed /\ Len(part') = n
      BY <2>2, <3>1, PrefixPlaced
    <3> QED BY <3>2, PlacedFacts DEF Files, LenOf
  <2> QED BY <1>1, <2>1, <2>2
<1>5. TypeOK'
  <2>1. /\ commit' \in Commits /\ start' \in Nat /\ risked' \in BOOLEAN
    BY <1>2 DEF IInv, TypeOK
  <2>2. synced' \in Nat /\ synced' <= LenOf(part)'
    BY <1>1, <1>3, <1>4
  <2>3. diskFailed' \in BOOLEAN
    BY <1>1
  <2> QED BY <1>2, <1>d, <1>4, <2>1, <2>2, <2>3 DEF TypeOK
<1>6. InBody' /\ InSwap' /\ OnDisk'
  BY <1>1, <1>2, <1>4 DEF InBody, InSwap, OnDisk
<1>7. OnlyVerified'
  BY <1>2, <1>d DEF IInv, OnlyVerified, Content
<1>8. ASSUME Missing' PROVE Ready(part)'
  <2>1. Missing
    BY <1>2, <1>d, <1>8 DEF Missing, NonEmpty
  <2>2. Ready(part) /\ synced = LenOf(part) /\ LenOf(part) = Want /\ Want > 0 /\ part # NoFile
    BY <2>1, WantFacts DEF IInv, Spare, OnDisk, Ready, Missing
  <2>3. n = LenOf(part) /\ n # 0
    BY <1>3, <2>2
  <2>4. part' = SubSeq(part, 1, n)
    BY <1>1, <2>2, <2>3
  <2>5. part \in Seq(Blks) /\ n = Len(part)
    BY <1>3, <2>2, <2>3, PlacedFacts DEF Files, Placed
  <2>6. part' = part
    BY <2>4, <2>5
  <2> QED BY <1>2, <2>2, <2>6 DEF Ready, Want, LenOf, Content
<1> QED BY <1>1, <1>2, <1>5, <1>6, <1>7, <1>8 DEF IInv, Spare

LEMMA HealInv ==
  ASSUME IInv, UNCHANGED <<part, synced, diskFailed, dest, pc, commit, start, from, had, risked, lfs, moves>>
  PROVE  IInv'
<1>1. TypeOK'
  BY DEF IInv, TypeOK, LenOf
<1>2. InBody' /\ InSwap' /\ OnlyVerified' /\ OnDisk' /\ Spare'
  BY DEF IInv, InBody, InSwap, OnlyVerified, OnDisk, Spare, Missing, NonEmpty, Ready, Want, LenOf, Content
<1> QED BY <1>1, <1>2 DEF IInv

LEMMA FetchInv ==
  ASSUME IInv, Fetch, UNCHANGED <<lfs, moves>>
  PROVE  IInv'
<1>k. Kept \in {NoFile, part} /\ part \in Files /\ start \in Nat
  BY KeptFacts DEF IInv, TypeOK
<1>1. CASE Rename
  BY <1>1, RenameInv
<1>2. CASE AlreadyWhole
  <2>1. /\ Done(Kept, LenOf(part)) /\ NotSynced /\ Risks /\ UNCHANGED <<commit, start>>
        /\ Whole /\ pc = "top"
    BY <1>2 DEF AlreadyWhole
  <2>2. Kept = part /\ part \in Placed
    BY <2>1, KeptFacts
  <2>3. Done(part, LenOf(part))
    BY <2>1, <2>2
  <2> QED BY <1>k, <2>1, <2>2, <2>3, DoneInv
<1>3. CASE AnswerRetry
  <2>1. /\ Retry(Kept, LenOf(part)) /\ NotSynced /\ pc = "top" /\ UNCHANGED <<commit, start>>
        /\ ~Missing
    BY <1>3, NothingMissing DEF AnswerRetry
  <2> QED BY <1>k, <2>1, RetryInv
<1>4. CASE AnswerRefuse
  <2>1. /\ Retry(NoFile, LenOf(part)) /\ NotSynced /\ pc = "top" /\ UNCHANGED <<commit, start>>
        /\ ~Missing
    BY <1>4, NothingMissing DEF AnswerRefuse
  <2> QED BY <1>k, <2>1, RetryInv
<1>5. CASE AnswerFatal
  <2>1. Fatal(Kept) /\ NotSynced /\ pc = "top" /\ UNCHANGED <<commit, start>> /\ ~Missing
    BY <1>5, NothingMissing DEF AnswerFatal
  <2> QED BY <1>k, <2>1, FatalInv
<1>6. ASSUME NEW a \in Answers, AnswerBody(a) PROVE IInv'
  BY <1>6, AnswerBodyInv
<1>7. ASSUME NEW o \in Origins, ReadBlock(o) PROVE IInv'
  BY <1>7, ReadBlockInv
<1>8. CASE BodyEnds
  <2>1. /\ Done(part, before) /\ Synced /\ Risks /\ start' = 0 /\ UNCHANGED commit
        /\ pc = "body"
    BY <1>8 DEF BodyEnds, Forget
  <2>2. part \in Placed
    BY <1>k, <2>1 DEF IInv, InBody, Files
  <2> QED BY <2>1, <2>2, DoneInv
<1>9. CASE BodyBreaks
  <2>1. /\ Retry(part, before) /\ (Synced \/ DiskFailed) /\ start' = 0 /\ UNCHANGED commit
        /\ ~Missing
    BY <1>9, NothingMissing DEF BodyBreaks, Sending, Forget
  <2> QED BY <2>1, RetryInv
<1>10. CASE DiskFails
  <2>1. Fatal(part) /\ DiskFailed /\ start' = 0 /\ UNCHANGED commit /\ ~Missing
    BY <1>10, NothingMissing DEF DiskFails, Forget
  <2> QED BY <2>1, FatalInv
<1> QED BY <1>1, <1>2, <1>3, <1>4, <1>5, <1>6, <1>7, <1>8, <1>9, <1>10 DEF Fetch

LEMMA StepInv == IInv /\ [Next]_vars => IInv'
<1> SUFFICES ASSUME IInv, [Next]_vars PROVE IInv'
  OBVIOUS
<1>1. CASE Fetch /\ UNCHANGED <<lfs, moves>>
  BY <1>1, FetchInv
<1>2. CASE Kill /\ UNCHANGED <<lfs, moves>>
  BY <1>2, KillInv
<1>3. CASE Heal /\ UNCHANGED <<lfs, moves>>
  BY <1>3, HealInv DEF Heal
<1>4. ASSUME NEW c \in Commits, NEW force \in BOOLEAN, Start(c, force), UNCHANGED <<lfs, moves>>
      PROVE  IInv'
  BY <1>4, StartInv
<1>5. CASE UNCHANGED vars
  BY <1>5, HealInv DEF vars
<1> QED BY <1>1, <1>2, <1>3, <1>4, <1>5 DEF Next

LEMMA Invariant == Spec => []IInv
BY InitInv, StepInv, PTL DEF Spec

-----------------------------------------------------------------------------
\* Every block of the part and of the file is at the offset it was served for,
\* whatever was resumed, refused, truncated or lost to a kill.
THEOREM InPlaceHolds == Spec => []InPlace
<1>1. IInv => InPlace
  <2> SUFFICES ASSUME IInv, NEW f \in {part, dest}, NEW i \in DOMAIN Blocks(f)
               PROVE  f[i][2] = i
    BY DEF InPlace
  <2>1. f \in Files
    BY DEF IInv, TypeOK
  <2>2. f # NoFile
    BY DEF Blocks
  <2>3. f \in Placed
    BY <2>1, <2>2 DEF Files
  <2> QED BY <2>3, PlacedFacts
<1> QED BY <1>1, Invariant, PTL

\* Unless it was published after a failed write or sync, a file whose sha256 the
\* Hub lists is only ever there with the content of one of its commits, whatever
\* the server sent and whatever the part held.
THEOREM OnlyVerifiedHolds == Spec => []OnlyVerified
<1>1. IInv => OnlyVerified
  BY DEF IInv
<1> QED BY <1>1, Invariant, PTL

\* While the revision does not move, and unless the file is empty or was removed
\* for a part whose writes or syncs had failed, the file or a complete part is
\* there once the file ever was: through kills between the remove and the rename,
\* failed renames and forced downloads.
THEOREM NeverLostHolds == Spec => [](NonEmpty => NeverLost)
<1>1. IInv => (NonEmpty => NeverLost)
  BY DEF IInv, Spare, Missing, Ready, NeverLost
<1> QED BY <1>1, Invariant, PTL

-----------------------------------------------------------------------------
(* The inductive invariant *)

Tree == [v : Nat, edits : SUBSET (PRs \X Nat)]
Request == [state : {"none", "open", "merged"}, pkg : Pkgs \cup {None}, kind : Kinds,
            head : Nat, base : Tree, tree : Tree, run : {"running", "green"},
            kept : BOOLEAN]
Commit == [pr : PRs \cup {None}, trees : [Pkgs -> Tree]]
Member == [pr : PRs, req : Request]
Stages == {"detect", "pending", "running", "resolved", "guarded", "recheck",
           "published", "skipped", "refused", "failed", "cancelled"}
Job == [pkg : Pkgs, base : Nat, sha : Nat, again : Nat, bytes : Tree, st : Stages]
LadderTypeOK ==
  /\ prs \in [PRs -> Request]
  /\ main \in Seq(Commit) /\ Len(main) >= 1
  /\ group \in [members : Seq(Member), passed : BOOLEAN]
  /\ legs \in Seq(Job)
  /\ npm \in [Pkgs -> [on : UNION {[V -> Tree] : V \in SUBSET Nat}, latest : Nat]]
  /\ seen \in [Pkgs -> [has : SUBSET Nat, latest : Nat]]
  /\ late \in Nat

TreeAt(c, k) == main[c].trees[k]
Merged(p) == p \in PRs /\ prs[p].state = "merged"
MainCommits == 1 .. Len(main)

\* A request that has a head started from a tree that main had, and added its
\* own edit to it.
Requested(p) ==
  LET req == prs[p] IN
  /\ req.pkg \in Pkgs /\ (req.state = "merged" => req.run = "green")
  /\ req.tree.edits = req.base.edits \cup {<<p, req.head>>}
  /\ req.kind = "build" => req.tree.v = req.base.v
  /\ Bumped /\ req.kind # "build" => req.tree.v > req.base.v
  /\ \E b \in MainCommits : req.base = TreeAt(b, req.pkg)
RequestsInv == \A p \in PRs : prs[p].state # "none" => Requested(p)

\* main[c] is the merge of a green request, with its very tree.
MergeOf(c) ==
  LET p == main[c].pr IN
  /\ Merged(p) /\ prs[p].run = "green"
  /\ TreeAt(c, prs[p].pkg) = prs[p].tree
  /\ prs[p].kind = "gate" => prs[p].tree.v \in seen[prs[p].pkg].has

\* Two commits of main, in order: edits are only added, a tree is known by its
\* edits, versions only rise.
InOrder(b, c, k) ==
  /\ TreeAt(b, k).edits \subseteq TreeAt(c, k).edits
  /\ TreeAt(b, k).edits = TreeAt(c, k).edits => TreeAt(b, k) = TreeAt(c, k)
  /\ Bumped => TreeAt(b, k).v <= TreeAt(c, k).v
  /\ Bumped /\ b < c /\ Releases(main[c].pr, k) => TreeAt(b, k).v < TreeAt(c, k).v

MainInv ==
  /\ \A k \in Pkgs : TreeAt(1, k) = Root
  /\ \A c \in 2 .. Len(main) : MergeOf(c)
  /\ \A k \in Pkgs : \A c \in MainCommits : \A b \in 1 .. c : InOrder(b, c, k)
  /\ \A k \in Pkgs : \A c \in MainCommits : \A e \in TreeAt(c, k).edits : Merged(e[1])
  /\ \A k \in Pkgs : \A c \in MainCommits :
       TreeAt(c, k).v # 1 => \E b \in 2 .. c : Releases(main[b].pr, k)

\* A member of the group is its request as it was then.
Joined(m) ==
  /\ m.req.state = "open" /\ m.req.run = "green" /\ m.req.pkg \in Pkgs
  /\ prs[m.pr].state = "open" /\ prs[m.pr].head >= m.req.head
  /\ prs[m.pr].head = m.req.head => prs[m.pr] = m.req
GroupInv ==
  /\ \A i \in DOMAIN group.members : Joined(group.members[i])
  /\ group.passed => \A i \in DOMAIN group.members :
       LET req == group.members[i].req IN
       /\ Binds(group.members, i)
       /\ req.kind = "gate" => req.tree.v \in seen[req.pkg].has

RegistryInv == \A k \in Pkgs :
  /\ 1 \in seen[k].has /\ seen[k].has \subseteq DOMAIN npm[k].on
  /\ seen[k].latest \in DOMAIN npm[k].on /\ npm[k].latest \in DOMAIN npm[k].on
  /\ late = 0 => seen[k].has = DOMAIN npm[k].on /\ seen[k].latest = npm[k].latest

\* A job has the tarball of the newest release it covers, which is none only
\* for a job that started from the first commit.
Covers(leg) == {c \in leg.base + 1 .. leg.sha : Releases(main[c].pr, leg.pkg)}
Active(leg) == leg.st \in {"running", "resolved", "guarded", "recheck"}
LegInv(leg) ==
  /\ 1 <= leg.base /\ leg.base <= leg.sha /\ leg.sha <= Len(main)
  /\ leg.base = 1 \/ Covers(leg) # {}
  /\ leg.st \in {"resolved", "guarded", "recheck"} =>
       LET c == TouchingCommit(leg) IN
       /\ c \in Covers(leg) /\ prs[main[c].pr].kind = "release"
       /\ leg.bytes = TreeAt(c, leg.pkg)
  /\ late = 0 /\ leg.st = "guarded" => leg.bytes.v >= npm[leg.pkg].latest
LegsInv ==
  /\ \A i \in DOMAIN legs : LegInv(legs[i])
  /\ \A i, j \in DOMAIN legs :
       legs[i].pkg = legs[j].pkg /\ Active(legs[i]) /\ Active(legs[j]) => i = j

\* Each release on main has a job of its own: one that covers no other.
Own(leg, c, k) ==
  /\ leg.pkg = k /\ Covers(leg) = {c}
  /\ leg.st \in {"published", "skipped"} =>
       TreeAt(c, k).v \in DOMAIN npm[k].on /\ npm[k].on[TreeAt(c, k).v] = TreeAt(c, k)
Answered ==
  \A c \in 2 .. Len(main) : \A k \in Pkgs :
    Releases(main[c].pr, k) /\ prs[main[c].pr].kind = "release" =>
      \E i \in DOMAIN legs : Own(legs[i], c, k)

LadderInv ==
  /\ LadderTypeOK /\ RequestsInv /\ MainInv /\ GroupInv /\ RegistryInv /\ ShipsWhatLanded
  /\ LegsInv
  /\ Bumped => PassedPublishes /\ Answered

-----------------------------------------------------------------------------
(* Sets of places *)

LEMMA HasLeast ==
  ASSUME NEW T \in SUBSET Nat, T # {}
  PROVE  \E n \in T : \A m \in T : ~(m < n)
<1>1. \E n \in T : \A m \in T : ~(<<m, n>> \in OpToRel(<, Nat))
  BY WFMin, NatLessThanWellFounded
<1> QED  BY <1>1 DEF OpToRel

LEMMA HasGreatest ==
  ASSUME NEW n \in Nat, NEW S \in SUBSET (1 .. n), S # {}
  PROVE  \E x \in S : \A y \in S : y <= x
<1> DEFINE T == {n - x : x \in S}
<1>1. T \in SUBSET Nat /\ T # {}
  <2>1. \A x \in S : n - x \in Nat  OBVIOUS
  <2> QED  BY <2>1
<1>2. PICK t \in T : \A m \in T : ~(m < t)  BY <1>1, HasLeast
<1>3. PICK x \in S : t = n - x  BY <1>2
<1>4. \A y \in S : ~(n - y < n - x)  BY <1>2, <1>3
<1> QED  BY <1>4

LEMMA MaxIsIn ==
  ASSUME NEW n \in Nat, NEW S \in SUBSET (1 .. n), S # {}
  PROVE  Max(S) \in S
<1>1. \E x \in S : \A y \in S : x >= y  BY HasGreatest
<1> QED  BY <1>1 DEF Max

\* A sequence of a finite set has all its elements.
LEMMA SeqsHaveAll ==
  ASSUME NEW S, IsFiniteSet(S), NEW f \in SetToSeqs(S)
  PROVE  /\ f \in Seq(S)
         /\ \A x \in S : \E i \in DOMAIN f : f[i] = x
<1> DEFINE n == Cardinality(S)
<1>1. n \in Nat  BY FS_CardinalityType
<1>2. f \in [1 .. n -> S] /\ \A i, j \in 1 .. n : i # j => f[i] # f[j]  BY DEF SetToSeqs
<1>3. f \in Seq(S)  BY <1>1, <1>2, SeqDef
<1>4. ASSUME NEW x \in S, \A i \in DOMAIN f : f[i] # x PROVE FALSE
  <2>1. f \in [1 .. n -> S \ {x}]  BY <1>2, <1>4
  <2>2. IsFiniteSet(S \ {x}) /\ Cardinality(S \ {x}) = n - 1  BY FS_RemoveElement
  <2>3. IsFiniteSet(1 .. n) /\ Cardinality(1 .. n) = n
    BY <1>1, FS_Interval, FS_CardinalityType
  <2>4. n - 1 < n  BY <1>1
  <2>5. Cardinality(S \ {x}) < Cardinality(1 .. n)  BY <2>2, <2>3, <2>4
  <2>6. \E i, j \in 1 .. n : i # j /\ f[i] = f[j]
    <3> HIDE DEF n
    <3> QED  BY <2>1, <2>2, <2>3, <2>5, FS_PigeonHole
  <2> QED  BY <2>6, <1>2
<1> QED  BY <1>3, <1>4

-----------------------------------------------------------------------------
(* The trees of a group *)

LEMMA TipType ==
  ASSUME LadderTypeOK
  PROVE  /\ Len(main) \in Nat /\ Len(main) \in MainCommits /\ Tip \in Commit
         /\ \A c \in MainCommits : main[c] \in Commit
         /\ \A c \in MainCommits, k \in Pkgs : TreeAt(c, k) \in Tree
<1>1. main \in Seq(Commit) /\ Len(main) \in Nat /\ Len(main) >= 1  BY DEF LadderTypeOK
<1>2. \A c \in MainCommits : main[c] \in Commit  BY <1>1 DEF MainCommits
<1> QED  BY <1>1, <1>2 DEF Tip, TreeAt, MainCommits, Commit

\* The members of a package among the first j, those of them that changed its
\* version, and the tree that they make.
OwnOf(members, j, k) == {i \in 1 .. j : members[i].req.pkg = k}
RaisedOf(members, own) == {i \in own : members[i].req.tree.v # members[i].req.base.v}
EditsOf(members, own) == UNION {members[i].req.tree.edits : i \in own}
Blend(members, own, k) ==
  [v |-> IF RaisedOf(members, own) = {} THEN Tip.trees[k].v
         ELSE members[Max(RaisedOf(members, own))].req.tree.v,
   edits |-> Tip.trees[k].edits \cup EditsOf(members, own)]

LEMMA AfterAt ==
  ASSUME NEW members, NEW j, NEW k \in Pkgs
  PROVE  After(members, j)[k] = Blend(members, OwnOf(members, j, k), k)
BY DEF After, RaisedOf, OwnOf, EditsOf, Blend

LEMMA BlendType ==
  ASSUME LadderTypeOK, NEW members \in Seq(Member), NEW own \in SUBSET (1 .. Len(members)),
         NEW k \in Pkgs
  PROVE  Blend(members, own, k) \in Tree
<1> DEFINE R == RaisedOf(members, own)
<1>1. Len(members) \in Nat /\ \A i \in 1 .. Len(members) : members[i] \in Member  OBVIOUS
<1>2. \A i \in 1 .. Len(members) : members[i].req.tree \in Tree
  BY <1>1 DEF Member, Request
<1>3. Tip.trees[k] \in Tree  BY TipType DEF Commit
<1>4. R \in SUBSET (1 .. Len(members))  BY DEF RaisedOf
<1> HIDE DEF R
<1>5. R # {} => Max(R) \in 1 .. Len(members)
  <2> SUFFICES ASSUME R # {} PROVE Max(R) \in R  BY <1>4
  <2> QED  BY <1>1, <1>4, MaxIsIn
<1>6. (IF R = {} THEN Tip.trees[k].v ELSE members[Max(R)].req.tree.v) \in Nat
  BY <1>2, <1>3, <1>5 DEF Tree
<1>7. Tip.trees[k].edits \cup EditsOf(members, own) \in SUBSET (PRs \X Nat)
  <2>1. Tip.trees[k].edits \in SUBSET (PRs \X Nat)  BY <1>3 DEF Tree
  <2>2. \A i \in own : members[i].req.tree.edits \in SUBSET (PRs \X Nat)
    BY <1>2 DEF Tree
  <2> QED  BY <2>1, <2>2 DEF EditsOf
<1> QED  BY <1>6, <1>7 DEF Tree, Blend, R

LEMMA AfterType ==
  ASSUME LadderTypeOK, NEW members \in Seq(Member), NEW j \in 0 .. Len(members)
  PROVE  After(members, j) \in [Pkgs -> Tree]
<1>1. SUFFICES ASSUME NEW k \in Pkgs PROVE After(members, j)[k] \in Tree
  BY DEF After
<1>2. OwnOf(members, j, k) \in SUBSET (1 .. Len(members))  BY DEF OwnOf
<1> QED  BY <1>2, AfterAt, BlendType

\* When no two members have one package, a merge has the trees of the members
\* so far, and main's for the rest.
LEMMA AfterBound ==
  ASSUME LadderTypeOK, NEW members \in Seq(Member), \A i \in DOMAIN members : Binds(members, i),
         NEW j \in 0 .. Len(members), NEW k \in Pkgs
  PROVE  /\ \A i \in 1 .. j : members[i].req.pkg = k =>
               After(members, j)[k] = members[i].req.tree
         /\ (\A i \in 1 .. j : members[i].req.pkg # k) => After(members, j)[k] = Tip.trees[k]
<1> DEFINE n == Len(members)
<1>0. n \in Nat /\ DOMAIN members = 1 .. n /\ 1 .. j \subseteq 1 .. n  OBVIOUS
<1>1. ASSUME NEW i \in 1 .. j, members[i].req.pkg = k
      PROVE  After(members, j)[k] = members[i].req.tree
  <2>1. Binds(members, i)  BY <1>0
  <2>2. \A h \in 1 .. n : h # i => members[h].req.pkg # k
    BY <1>0, <1>1, <2>1 DEF Binds
  <2>3. OwnOf(members, j, k) = {i} /\ OwnOf(members, n, k) = {i}
    BY <1>0, <1>1, <2>2 DEF OwnOf
  <2>4. After(members, j)[k] = After(members, n)[k]
    BY <2>3, AfterAt
  <2>5. After(members, n)[k] = members[i].req.tree  BY <1>1, <2>1 DEF Binds
  <2> QED  BY <2>4, <2>5
<1>2. ASSUME \A i \in 1 .. j : members[i].req.pkg # k
      PROVE  After(members, j)[k] = Tip.trees[k]
  <2>1. OwnOf(members, j, k) = {}  BY <1>2 DEF OwnOf
  <2>2. RaisedOf(members, {}) = {}  BY DEF RaisedOf
  <2>3. EditsOf(members, {}) = {}  BY DEF EditsOf
  <2>4. After(members, j)[k] = [v |-> Tip.trees[k].v, edits |-> Tip.trees[k].edits]
    <3>1. Tip.trees[k].edits \cup EditsOf(members, {}) = Tip.trees[k].edits  BY <2>3
    <3>2. Blend(members, {}, k) = [v |-> Tip.trees[k].v, edits |-> Tip.trees[k].edits]
      BY <2>2, <3>1 DEF Blend
    <3> QED  BY <2>1, <3>2, AfterAt
  <2>5. Tip.trees[k] \in Tree  BY TipType DEF Commit
  <2> QED  BY <2>4, <2>5 DEF Tree
<1> QED  BY <1>1, <1>2

-----------------------------------------------------------------------------
(* What a job publishes *)

LEMMA LegType ==
  ASSUME LadderTypeOK, NEW i \in DOMAIN legs
  PROVE  legs[i] \in Job /\ DOMAIN legs = 1 .. Len(legs) /\ Len(legs) \in Nat
BY DEF LadderTypeOK

LEMMA Touches ==
  ASSUME LadderTypeOK, NEW leg \in Job, 1 <= leg.base, leg.base <= leg.sha, leg.sha <= Len(main)
  PROVE  /\ TouchingCommit(leg) \in MainCommits
         /\ Covers(leg) = {} => TouchingCommit(leg) = leg.sha
         /\ Covers(leg) # {} => /\ TouchingCommit(leg) \in Covers(leg)
                                /\ \A d \in Covers(leg) : d <= TouchingCommit(leg)
<1> DEFINE S == Covers(leg)
<1>0. leg.base \in Nat /\ leg.sha \in Nat /\ Len(main) \in Nat  BY DEF Job, LadderTypeOK
<1>1. S \in SUBSET (1 .. leg.sha)  BY <1>0 DEF Covers
<1>2. TouchingCommit(leg) = IF S = {} THEN leg.sha ELSE CHOOSE c \in S : \A d \in S : d <= c
  BY DEF TouchingCommit, Covers
<1> HIDE DEF S
<1>3. CASE S = {}
  BY <1>0, <1>2, <1>3 DEF S, MainCommits
<1>4. CASE S # {}
  <2>1. \E c \in S : \A d \in S : d <= c  BY <1>0, <1>1, <1>4, HasGreatest
  <2> DEFINE t == CHOOSE c \in S : \A d \in S : d <= c
  <2>2. t \in S /\ \A d \in S : d <= t  BY <2>1
  <2>3. TouchingCommit(leg) = t  BY <1>2, <1>4
  <2> HIDE DEF t
  <2>4. t \in MainCommits  BY <1>0, <1>1, <2>2 DEF MainCommits
  <2> QED  BY <1>4, <2>2, <2>3, <2>4 DEF S
<1> QED  BY <1>3, <1>4

\* What no step takes back: main's commits, merged requests, and what npm has
\* and serves.
Settled(p) ==
  /\ prs'[p].state = "merged" /\ prs'[p].pkg = prs[p].pkg /\ prs'[p].kind = prs[p].kind
  /\ prs'[p].tree = prs[p].tree /\ prs'[p].run = prs[p].run
  /\ prs'[p].kept => prs[p].kept
Grows(k) ==
  /\ seen[k].has \subseteq seen'[k].has /\ DOMAIN npm[k].on \subseteq DOMAIN npm'[k].on
  /\ \A v \in DOMAIN npm[k].on : npm'[k].on[v] = npm[k].on[v]
History ==
  /\ Len(main') >= Len(main) /\ \A c \in MainCommits : main'[c] = main[c]
  /\ \A p \in PRs : prs[p].state = "merged" => Settled(p)
  /\ \A k \in Pkgs : Grows(k)
  /\ late' \in Nat /\ late' >= late

LEMMA Past ==
  ASSUME LadderTypeOK, LadderTypeOK', MainInv, History, NEW c \in 2 .. Len(main)
  PROVE  /\ Merged(main[c].pr) /\ main'[c].pr = main[c].pr /\ Settled(main[c].pr)
         /\ c \in 2 .. Len(main') /\ Merged(main[c].pr)'
         /\ \A k : Releases(main[c].pr, k)' <=> Releases(main[c].pr, k)
         /\ \A k : TreeAt(c, k)' = TreeAt(c, k)
<1>0. Len(main) \in Nat /\ Len(main') \in Nat /\ c \in MainCommits  BY DEF LadderTypeOK, MainCommits
<1>1. Merged(main[c].pr)  BY DEF MainInv, MergeOf
<1>2. main'[c] = main[c]  BY <1>0 DEF History
<1>3. Settled(main[c].pr)  BY <1>1 DEF History, Merged
<1>4. c \in 2 .. Len(main')  BY <1>0 DEF History
<1> QED  BY <1>1, <1>2, <1>3, <1>4 DEF Settled, Releases, Merged, TreeAt

LEMMA PastTrees ==
  ASSUME History, NEW c \in MainCommits
  PROVE  main'[c] = main[c] /\ \A k : TreeAt(c, k)' = TreeAt(c, k)
BY DEF History, TreeAt

LEMMA PastCovers ==
  ASSUME LadderTypeOK, LadderTypeOK', MainInv, History,
         NEW leg \in Job, 1 <= leg.base, leg.base <= leg.sha, leg.sha <= Len(main)
  PROVE  Covers(leg)' = Covers(leg) /\ TouchingCommit(leg)' = TouchingCommit(leg)
<1>0. leg.base \in Nat /\ leg.sha \in Nat /\ Len(main) \in Nat  BY DEF Job, LadderTypeOK
<1>1. ASSUME NEW c \in leg.base + 1 .. leg.sha
      PROVE  Releases(main[c].pr, leg.pkg)' <=> Releases(main[c].pr, leg.pkg)
  <2>1. c \in 2 .. Len(main)  BY <1>0
  <2> QED  BY <2>1, Past
<1>2. Covers(leg)' = Covers(leg)  BY <1>1 DEF Covers
<1>3. TouchingCommit(leg) = IF Covers(leg) = {} THEN leg.sha
                            ELSE CHOOSE c \in Covers(leg) : \A d \in Covers(leg) : d <= c
  BY DEF TouchingCommit, Covers
<1>4. TouchingCommit(leg)' = IF Covers(leg)' = {} THEN leg.sha
                             ELSE CHOOSE c \in Covers(leg)' : \A d \in Covers(leg)' : d <= c
  BY DEF TouchingCommit, Covers
<1> QED  BY <1>2, <1>3, <1>4

-----------------------------------------------------------------------------
(* Every step keeps the types, and what is past *)

\* The steps of one job: it stays the job of its package and commits.
OneJob(i) ==
  /\ legs' \in Seq(Job) /\ DOMAIN legs' = DOMAIN legs /\ Len(legs') = Len(legs)
  /\ \A j \in DOMAIN legs : j # i => legs'[j] = legs[j]
  /\ legs'[i].pkg = legs[i].pkg /\ legs'[i].base = legs[i].base /\ legs'[i].sha = legs[i].sha

LEMMA PutJob ==
  ASSUME LadderTypeOK, NEW i \in DOMAIN legs, NEW x \in Job, legs' = [legs EXCEPT ![i] = x],
         x.pkg = legs[i].pkg, x.base = legs[i].base, x.sha = legs[i].sha
  PROVE  OneJob(i) /\ legs'[i] = x
<1>1. legs \in Seq(Job) /\ i \in 1 .. Len(legs)  BY DEF LadderTypeOK
<1>2. legs' \in Seq(Job) /\ Len(legs') = Len(legs)  BY <1>1, ExceptSeq
<1>3. DOMAIN legs' = DOMAIN legs  BY <1>1, <1>2
<1> QED  BY <1>1, <1>2, <1>3 DEF OneJob

LEMMA JobMoves ==
  ASSUME LadderTypeOK, NEW i \in DOMAIN legs, NEW st \in Stages, Moves(i, st)
  PROVE  /\ OneJob(i) /\ legs'[i].st = st
         /\ st \in {"guarded", "recheck"} => legs'[i].bytes = legs[i].bytes
<1>1. legs[i] \in Job  BY LegType
<1> DEFINE x == Goes(legs[i], st)
<1>2. /\ x \in Job /\ x.pkg = legs[i].pkg /\ x.base = legs[i].base /\ x.sha = legs[i].sha
      /\ x.st = st
      /\ st \in {"guarded", "recheck"} => x.bytes = legs[i].bytes
  <2>1. Root \in Tree  BY DEF Root, Tree
  <2> QED  BY <1>1, <2>1 DEF Goes, Job
<1>3. legs' = [legs EXCEPT ![i] = x]  BY DEF Moves
<1> HIDE DEF x
<1>4. OneJob(i) /\ legs'[i] = x  BY <1>2, <1>3, PutJob
<1> QED  BY <1>2, <1>4

LEMMA Decisions ==
  ASSUME LadderTypeOK, NEW k, NEW v, NEW p, NEW tree
  PROVE  /\ Resolved(k, v, p) \in {"skipped", "resolved", "refused"}
         /\ Certified(k, tree) \in {"skipped", "guarded", "refused"}
BY DEF Resolved, Certified

LEMMA ResolveJob ==
  ASSUME LadderTypeOK, LegsInv, NEW i \in DOMAIN legs, Resolve(i)
  PROVE  LET c == TouchingCommit(legs[i])
             p == main[c].pr
             d == Resolved(legs[i].pkg, TreeAt(c, legs[i].pkg).v, p)
         IN /\ OneJob(i) /\ legs'[i].st = d
            /\ d = "resolved" => p \in PRs /\ legs'[i].bytes = prs[p].tree
<1> DEFINE leg == legs[i]
           c == TouchingCommit(leg)
           p == main[c].pr
           d == Resolved(leg.pkg, TreeAt(c, leg.pkg).v, p)
           t == IF d = "resolved" THEN prs[p].tree ELSE leg.bytes
           x == [leg EXCEPT !.st = d, !.bytes = t]
<1>1. leg \in Job  BY LegType
<1>2. c \in MainCommits  BY <1>1, Touches DEF LegsInv, LegInv
<1>3. p \in PRs \cup {None}  BY <1>2, TipType DEF Commit
<1>4. d \in {"skipped", "resolved", "refused"}  BY Decisions
<1>5. d = "resolved" => p # None  BY DEF Resolved
<1>6. t \in Tree
  <2>1. prs \in [PRs -> Request]  BY DEF LadderTypeOK
  <2>2. p # None => prs[p].tree \in Tree  BY <1>3, <2>1 DEF Request
  <2> QED  BY <1>1, <1>5, <2>2 DEF Job
<1>7. legs' = [legs EXCEPT ![i] = x]  BY DEF Resolve, TreeAt
<1> HIDE DEF d, t
<1>8. x \in Job /\ x.pkg = leg.pkg /\ x.base = leg.base /\ x.sha = leg.sha /\ x.st = d /\ x.bytes = t
  BY <1>1, <1>4, <1>6 DEF Job, Stages
<1> HIDE DEF x
<1>9. OneJob(i) /\ legs'[i] = x  BY <1>7, <1>8, PutJob
<1> QED  BY <1>3, <1>5, <1>8, <1>9 DEF d, t

LEMMA QuietKeeps ==
  ASSUME LadderTypeOK, Others, legs' \in Seq(Job)
  PROVE  LadderTypeOK' /\ History
<1>1. late \in Nat /\ Len(main) \in Nat  BY DEF LadderTypeOK
<1>2. LadderTypeOK'  BY DEF LadderTypeOK, Others
<1>3. History  BY <1>1 DEF Others, History, Settled, Grows
<1> QED  BY <1>2, <1>3

\* The new head of a request.
Pushed(p, k, kind, v, base) ==
  [state |-> "open", pkg |-> k, kind |-> kind, head |-> prs[p].head + 1, base |-> base,
   tree |-> [v |-> v, edits |-> base.edits \cup {<<p, prs[p].head + 1>>}],
   run |-> "running", kept |-> TRUE]

LEMMA PushFacts ==
  ASSUME LadderTypeOK, NEW p \in PRs, Push(p)
  PROVE  \E k \in Pkgs, kind \in Kinds, v \in Nat, base \in Tree :
           /\ prs[p].state \in {"none", "open"}
           /\ Raised(kind, base, v)
           /\ \/ base = TreeAt(Len(main), k)
              \/ prs[p].state = "open" /\ prs[p].pkg = k /\ base = prs[p].base
           /\ Pushed(p, k, kind, v, base) \in Request
           /\ prs' = [prs EXCEPT ![p] = Pushed(p, k, kind, v, base)]
           /\ UNCHANGED <<main, group, legs, npm, seen, late>>
<1>1. PICK k \in Pkgs, kind \in Kinds, v \in Versions, updated \in BOOLEAN :
        LET base == IF updated THEN Tip.trees[k] ELSE prs[p].base
        IN /\ prs[p].state = "open" => k = prs[p].pkg /\ kind = prs[p].kind
           /\ prs[p].state = "none" => updated
           /\ Raised(kind, base, v)
           /\ prs' = [prs EXCEPT ![p] = Pushed(p, k, kind, v, base)]
  BY DEF Push, Pushed
<1> DEFINE base == IF updated THEN Tip.trees[k] ELSE prs[p].base
<1>2. prs[p] \in Request  BY DEF LadderTypeOK
<1>3. Tip.trees[k] \in Tree  BY TipType DEF Commit
<1>4. base \in Tree  BY <1>2, <1>3 DEF Request
<1>5. v \in Nat  BY LadderAssumption DEF Versions
<1>6. prs[p].state \in {"none", "open"} /\ UNCHANGED <<main, group, legs, npm, seen, late>>
  BY DEF Push
<1>7. \/ base = TreeAt(Len(main), k)
      \/ prs[p].state = "open" /\ prs[p].pkg = k /\ base = prs[p].base
  BY <1>1, <1>6 DEF Tip, TreeAt
<1>8. Raised(kind, base, v) /\ prs' = [prs EXCEPT ![p] = Pushed(p, k, kind, v, base)]
  BY <1>1
<1> HIDE DEF base
<1>9. Pushed(p, k, kind, v, base) \in Request
  <2>1. prs[p].head + 1 \in Nat  BY <1>2 DEF Request
  <2>2. <<p, prs[p].head + 1>> \in PRs \X Nat  BY <2>1
  <2>3. [v |-> v, edits |-> base.edits \cup {<<p, prs[p].head + 1>>}] \in Tree
    BY <1>4, <1>5, <2>2 DEF Tree
  <2> QED  BY <1>4, <2>1, <2>3 DEF Request, Pushed
<1> QED  BY <1>4, <1>5, <1>6, <1>7, <1>8, <1>9

\* Steps of one request that is not yet merged, or of its tarball.
LEMMA RequestKeeps ==
  ASSUME LadderTypeOK, NEW p \in PRs, NEW x \in Request, prs' = [prs EXCEPT ![p] = x],
         UNCHANGED <<main, group, legs, npm, seen, late>>,
         prs[p].state = "merged" =>
           /\ x.state = "merged" /\ x.pkg = prs[p].pkg /\ x.kind = prs[p].kind
           /\ x.tree = prs[p].tree /\ x.run = prs[p].run
           /\ x.kept => prs[p].kept
  PROVE  LadderTypeOK' /\ History
<1>1. late \in Nat /\ Len(main) \in Nat /\ prs \in [PRs -> Request]  BY DEF LadderTypeOK
<1>2. prs' \in [PRs -> Request]  BY <1>1
<1>3. LadderTypeOK'  BY <1>2 DEF LadderTypeOK
<1>4. ASSUME NEW q \in PRs, prs[q].state = "merged" PROVE Settled(q)
  BY <1>1, <1>4 DEF Settled
<1>5. History  BY <1>1, <1>4 DEF History, Grows
<1> QED  BY <1>3, <1>5

LEMMA PushKeeps ==
  ASSUME LadderTypeOK, NEW p \in PRs, Push(p) PROVE LadderTypeOK' /\ History
<1>1. PICK x \in Request : /\ prs' = [prs EXCEPT ![p] = x] /\ prs[p].state # "merged"
                           /\ UNCHANGED <<main, group, legs, npm, seen, late>>
  BY PushFacts
<1> QED  BY <1>1, RequestKeeps

LEMMA RunKeeps ==
  ASSUME LadderTypeOK, RequestsInv, NEW p \in PRs, RunEnds(p)
  PROVE  LadderTypeOK' /\ History
<1>1. prs[p] \in Request /\ prs[p].run = "running"  BY DEF LadderTypeOK, RunEnds
<1> DEFINE x == [prs[p] EXCEPT !.run = "green"]
<1>2. x \in Request  BY <1>1 DEF Request
<1>3. prs' = [prs EXCEPT ![p] = x] /\ prs[p].state # "merged"
  BY <1>1 DEF RunEnds, RequestsInv, Requested
<1>4. UNCHANGED <<main, group, legs, npm, seen, late>>  BY DEF RunEnds
<1> HIDE DEF x
<1> QED  BY <1>2, <1>3, <1>4, RequestKeeps

LEMMA ExpireKeeps ==
  ASSUME LadderTypeOK, NEW p \in PRs, Expire(p)
  PROVE  LadderTypeOK' /\ History
<1>1. prs[p] \in Request  BY DEF LadderTypeOK
<1> DEFINE x == [prs[p] EXCEPT !.kept = FALSE]
<1>2. /\ x \in Request /\ x.state = prs[p].state /\ x.pkg = prs[p].pkg /\ x.kind = prs[p].kind
      /\ x.tree = prs[p].tree /\ x.run = prs[p].run /\ ~x.kept
  BY <1>1 DEF Request
<1>3. prs' = [prs EXCEPT ![p] = x]  BY DEF Expire
<1>4. UNCHANGED <<main, group, legs, npm, seen, late>>  BY DEF Expire
<1> HIDE DEF x
<1> QED  BY <1>2, <1>3, <1>4, RequestKeeps

LEMMA MembersType ==
  ASSUME LadderTypeOK
  PROVE  /\ group.members \in Seq(Member) /\ Len(group.members) \in Nat
         /\ DOMAIN group.members = 1 .. Len(group.members)
         /\ \A i \in DOMAIN group.members : group.members[i] \in Member
BY DEF LadderTypeOK

LEMMA FormFacts ==
  ASSUME LadderTypeOK, FormGroup
  PROVE  /\ group'.members \in Seq(Member) /\ group' = [members |-> group'.members, passed |-> FALSE]
         /\ \A i \in DOMAIN group'.members :
              LET m == group'.members[i] IN
              m.pr \in PRs /\ m.req = prs[m.pr] /\ m.req.state = "open" /\ m.req.run = "green"
         /\ UNCHANGED <<prs, main, legs, npm, seen, late>>
<1>0. PICK n \in 1 .. 3 : \E order \in [1 .. n -> PRs] :
        /\ \A i \in 1 .. n : prs[order[i]].state = "open" /\ prs[order[i]].run = "green"
        /\ group' = [members |-> [i \in 1 .. n |-> [pr |-> order[i], req |-> prs[order[i]]]],
                     passed |-> FALSE]
  BY DEF FormGroup
<1>1. PICK order \in [1 .. n -> PRs] :
        /\ \A i \in 1 .. n : prs[order[i]].state = "open" /\ prs[order[i]].run = "green"
        /\ group' = [members |-> [i \in 1 .. n |-> [pr |-> order[i], req |-> prs[order[i]]]],
                     passed |-> FALSE]
  BY <1>0
<1>2. prs \in [PRs -> Request]  BY DEF LadderTypeOK
<1> DEFINE ms == [i \in 1 .. n |-> [pr |-> order[i], req |-> prs[order[i]]]]
<1>3. \A i \in 1 .. n : [pr |-> order[i], req |-> prs[order[i]]] \in Member
  BY <1>2 DEF Member
<1>4. ms \in [1 .. n -> Member]  BY <1>3
<1>5. ms \in Seq(Member) /\ DOMAIN ms = 1 .. n
  <2>1. n \in Nat  OBVIOUS
  <2> HIDE DEF ms
  <2> QED  BY <1>4, <2>1, SeqDef
<1>6. group'.members = ms  BY <1>1
<1>7. \A i \in 1 .. n : ms[i] = [pr |-> order[i], req |-> prs[order[i]]]  OBVIOUS
<1>8. UNCHANGED <<prs, main, legs, npm, seen, late>>  BY DEF FormGroup
<1>9. group' = [members |-> ms, passed |-> FALSE]  BY <1>1
<1> HIDE DEF ms
<1> QED  BY <1>1, <1>5, <1>6, <1>7, <1>8, <1>9

\* Steps that change the group only.
LEMMA GroupKeeps ==
  ASSUME LadderTypeOK, group' \in [members : Seq(Member), passed : BOOLEAN],
         UNCHANGED <<prs, main, legs, npm, seen, late>>
  PROVE  LadderTypeOK' /\ History
<1>1. late \in Nat /\ Len(main) \in Nat  BY DEF LadderTypeOK
<1>2. LadderTypeOK'  BY DEF LadderTypeOK
<1>3. History  BY <1>1 DEF History, Settled, Grows
<1> QED  BY <1>2, <1>3

LEMMA NoGroupType == NoGroup \in [members : Seq(Member), passed : BOOLEAN]
BY DEF NoGroup

LEMMA FormKeeps ==
  ASSUME LadderTypeOK, FormGroup PROVE LadderTypeOK' /\ History
<1>1. group' \in [members : Seq(Member), passed : BOOLEAN]
  <2> DEFINE ms == group'.members
  <2>1. ms \in Seq(Member) /\ group' = [members |-> ms, passed |-> FALSE]  BY FormFacts
  <2> HIDE DEF ms
  <2> QED  BY <2>1
<1>2. UNCHANGED <<prs, main, legs, npm, seen, late>>  BY FormFacts
<1> QED  BY <1>1, <1>2, GroupKeeps

LEMMA CheckKeeps ==
  ASSUME LadderTypeOK, CheckGroup PROVE LadderTypeOK' /\ History
<1>1. group \in [members : Seq(Member), passed : BOOLEAN]  BY DEF LadderTypeOK
<1>2. group' = [group EXCEPT !.passed = TRUE] \/ group' = NoGroup  BY DEF CheckGroup
<1>3. group' \in [members : Seq(Member), passed : BOOLEAN]  BY <1>1, <1>2, NoGroupType
<1>4. UNCHANGED <<prs, main, legs, npm, seen, late>>  BY DEF CheckGroup
<1> QED  BY <1>3, <1>4, GroupKeeps

\* A group that lands, and the packages that it publishes.
NewCommit(i) == [pr |-> group.members[i].pr, trees |-> After(group.members, i)]
Lands(pkgs) ==
  LET members == group.members IN
  /\ group.passed /\ \A i \in DOMAIN members : Unmoved(members[i])
  /\ pkgs \in SetToSeqs(Released(Len(main), members))
  /\ main' = main \o [i \in DOMAIN members |-> NewCommit(i)]
  /\ prs' = [p \in PRs |-> IF \E i \in DOMAIN members : members[i].pr = p
                           THEN [prs[p] EXCEPT !.state = "merged"] ELSE prs[p]]
  /\ legs' = legs \o [i \in DOMAIN pkgs |-> NewLeg(pkgs[i], Len(main), Len(main) + Len(members))]
  /\ group' = NoGroup /\ UNCHANGED <<npm, seen, late>>

LEMMA LandFacts ==
  ASSUME Land
  PROVE  \/ group' = NoGroup /\ UNCHANGED <<prs, main, legs, npm, seen, late>>
         \/ \E pkgs : Lands(pkgs)
<1>1. CASE \A i \in DOMAIN group.members : Unmoved(group.members[i])
  <2>1. PICK pkgs \in SetToSeqs(Released(PushBase, group.members)) :
          /\ main' = main \o [i \in DOMAIN group.members |-> NewCommit(i)]
          /\ prs' = [p \in PRs |-> IF \E i \in DOMAIN group.members : group.members[i].pr = p
                                   THEN [prs[p] EXCEPT !.state = "merged"] ELSE prs[p]]
          /\ legs' = legs \o [i \in DOMAIN pkgs |->
                                NewLeg(pkgs[i], PushBase, Len(main) + Len(group.members))]
    BY <1>1 DEF Land, NewCommit
  <2>2. group.passed /\ group' = NoGroup /\ UNCHANGED <<npm, seen, late>>  BY DEF Land
  <2>3. PushBase = Len(main)  BY DEF PushBase
  <2> QED  BY <1>1, <2>1, <2>2, <2>3 DEF Lands
<1>2. CASE ~\A i \in DOMAIN group.members : Unmoved(group.members[i])
  BY <1>2 DEF Land
<1> QED  BY <1>1, <1>2

LEMMA LandMain ==
  ASSUME LadderTypeOK, NEW pkgs, Lands(pkgs)
  PROVE  /\ main' \in Seq(Commit) /\ Len(main') = Len(main) + Len(group.members)
         /\ \A c \in MainCommits : main'[c] = main[c]
         /\ \A i \in DOMAIN group.members : main'[Len(main) + i] = NewCommit(i)
<1> DEFINE n == Len(group.members)
           new == [i \in DOMAIN group.members |-> NewCommit(i)]
<1>1. /\ n \in Nat /\ DOMAIN group.members = 1 .. n /\ group.members \in Seq(Member)
      /\ \A i \in 1 .. n : group.members[i] \in Member
  BY MembersType
<1>2. ASSUME NEW i \in 1 .. n PROVE NewCommit(i) \in Commit
  <2>1. After(group.members, i) \in [Pkgs -> Tree]  BY <1>1, AfterType
  <2> QED  BY <1>1, <2>1 DEF NewCommit, Commit, Member
<1>3. new \in Seq(Commit) /\ Len(new) = n /\ \A i \in 1 .. n : new[i] = NewCommit(i)
  <2>1. new \in [1 .. n -> Commit]  BY <1>1, <1>2
  <2>2. \A i \in 1 .. n : new[i] = NewCommit(i)  BY <1>1
  <2> HIDE DEF new
  <2>3. new \in Seq(Commit) /\ DOMAIN new = 1 .. n  BY <1>1, <2>1, SeqDef
  <2>4. Len(new) = n  BY <1>1, <2>3
  <2> QED  BY <2>2, <2>3, <2>4
<1>4. main \in Seq(Commit) /\ Len(main) \in Nat /\ main' = main \o new  BY DEF LadderTypeOK, Lands
<1> HIDE DEF new, n
<1>5. main' \in Seq(Commit) /\ Len(main') = Len(main) + n  BY <1>3, <1>4
<1>6. \A c \in 1 .. Len(main) : main'[c] = main[c]  BY <1>1, <1>3, <1>4
<1>7. ASSUME NEW i \in 1 .. n PROVE main'[Len(main) + i] = NewCommit(i)
  <2>1. Len(main) + i \in 1 .. Len(main) + n /\ ~(Len(main) + i <= Len(main))
    BY <1>1, <1>4
  <2>2. main'[Len(main) + i] = new[Len(main) + i - Len(main)]  BY <1>1, <1>3, <1>4, <2>1
  <2>3. Len(main) + i - Len(main) = i  BY <1>1, <1>4
  <2> QED  BY <1>3, <2>2, <2>3
<1> QED  BY <1>1, <1>5, <1>6, <1>7 DEF MainCommits, n

LEMMA ReleasedFinite ==
  ASSUME LadderTypeOK
  PROVE  /\ IsFiniteSet(Released(Len(main), group.members))
         /\ Released(Len(main), group.members) =
              {group.members[i].req.pkg : i \in {j \in DOMAIN group.members :
                                                   group.members[j].req.kind # "build"}}
<1> DEFINE n == Len(group.members)
           J == {j \in 1 .. n : group.members[j].req.kind # "build"}
           S == {group.members[i].req.pkg : i \in J}
           f == [i \in J |-> group.members[i].req.pkg]
<1>1. n \in Nat /\ Len(main) \in Nat /\ DOMAIN group.members = 1 .. n
  BY MembersType DEF LadderTypeOK
<1>2. \A j \in 1 .. n : Len(main) + j > Len(main)  BY <1>1
<1>3. Released(Len(main), group.members) = S  BY <1>1, <1>2 DEF Released
<1>4. IsFiniteSet(J)
  <2>1. IsFiniteSet(1 .. n)  BY <1>1, FS_Interval
  <2> QED  BY <2>1, FS_Subset
<1>5. f \in Surjection(J, S)  BY DEF Surjection
<1>6. IsFiniteSet(S)
  <2> HIDE DEF f, J, S
  <2> QED  BY <1>4, <1>5, FS_Surjection
<1> QED  BY <1>1, <1>3, <1>6

\* The packages published: each of the released ones has its job.
LEMMA LandLegs ==
  ASSUME LadderTypeOK, RequestsInv, GroupInv, NEW pkgs, Lands(pkgs)
  PROVE  LET sha == Len(main) + Len(group.members) IN
         /\ legs' \in Seq(Job) /\ Len(legs') = Len(legs) + Len(pkgs) /\ Len(pkgs) \in Nat
         /\ \A i \in DOMAIN legs : i \in DOMAIN legs' /\ legs'[i] = legs[i]
         /\ \A i \in 1 .. Len(pkgs) : legs'[Len(legs) + i] = NewLeg(pkgs[i], Len(main), sha)
         /\ \A i \in 1 .. Len(pkgs) : \E j \in DOMAIN group.members :
              group.members[j].req.pkg = pkgs[i] /\ group.members[j].req.kind # "build"
         /\ \A j \in DOMAIN group.members : group.members[j].req.kind # "build" =>
              \E i \in 1 .. Len(pkgs) : pkgs[i] = group.members[j].req.pkg
<1> DEFINE R == Released(Len(main), group.members)
           sha == Len(main) + Len(group.members)
           new == [i \in DOMAIN pkgs |-> NewLeg(pkgs[i], Len(main), sha)]
<1>1. IsFiniteSet(R) /\ pkgs \in SetToSeqs(R)  BY ReleasedFinite DEF Lands
<1>2. pkgs \in Seq(R) /\ \A x \in R : \E i \in DOMAIN pkgs : pkgs[i] = x
  <2> HIDE DEF R
  <2> QED  BY <1>1, SeqsHaveAll
<1>3. Len(pkgs) \in Nat /\ DOMAIN pkgs = 1 .. Len(pkgs) /\ \A i \in 1 .. Len(pkgs) : pkgs[i] \in R
  <2> HIDE DEF R
  <2> QED  BY <1>2
<1>4. R = {group.members[j].req.pkg : j \in {h \in DOMAIN group.members :
                                               group.members[h].req.kind # "build"}}
  BY ReleasedFinite
<1>5. \A i \in 1 .. Len(pkgs) : \E j \in DOMAIN group.members :
        group.members[j].req.pkg = pkgs[i] /\ group.members[j].req.kind # "build"
  <2> HIDE DEF R
  <2> QED  BY <1>3, <1>4
<1>6. \A j \in DOMAIN group.members : group.members[j].req.kind # "build" =>
        \E i \in 1 .. Len(pkgs) : pkgs[i] = group.members[j].req.pkg
  <2> HIDE DEF R
  <2> QED  BY <1>2, <1>3, <1>4
<1>7. ASSUME NEW j \in DOMAIN group.members PROVE group.members[j].req.pkg \in Pkgs
  <2>1. Joined(group.members[j]) /\ Unmoved(group.members[j])  BY <1>7 DEF GroupInv, Lands
  <2>2. prs[group.members[j].pr] = group.members[j].req /\ group.members[j].pr \in PRs
    BY <2>1, <1>7, MembersType DEF Joined, Unmoved, Member
  <2>3. Requested(group.members[j].pr)  BY <2>1, <2>2 DEF RequestsInv, Joined
  <2> QED  BY <2>2, <2>3 DEF Requested
<1>8. Len(main) \in Nat /\ sha \in Nat /\ legs \in Seq(Job) /\ Len(legs) \in Nat /\ DOMAIN legs = 1 .. Len(legs)
  BY MembersType DEF LadderTypeOK
<1>9. \A i \in 1 .. Len(pkgs) : NewLeg(pkgs[i], Len(main), sha) \in Job
  <2>1. Root \in Tree  BY DEF Root, Tree
  <2>2. \A i \in 1 .. Len(pkgs) : pkgs[i] \in Pkgs  BY <1>5, <1>7
  <2> HIDE DEF sha
  <2> QED  BY <1>8, <2>1, <2>2 DEF NewLeg, Job, Stages
<1>10. /\ new \in Seq(Job) /\ Len(new) = Len(pkgs)
       /\ \A i \in 1 .. Len(pkgs) : new[i] = NewLeg(pkgs[i], Len(main), sha)
  <2>1. new \in [1 .. Len(pkgs) -> Job]  BY <1>3, <1>9
  <2>2. \A i \in 1 .. Len(pkgs) : new[i] = NewLeg(pkgs[i], Len(main), sha)  BY <1>3
  <2> HIDE DEF new
  <2>3. new \in Seq(Job) /\ DOMAIN new = 1 .. Len(pkgs)  BY <1>3, <2>1, SeqDef
  <2>4. Len(new) = Len(pkgs)  BY <1>3, <2>3
  <2> QED  BY <2>2, <2>3, <2>4
<1>11. legs' = legs \o new  BY DEF Lands
<1> HIDE DEF new, sha, R
<1>12. legs' \in Seq(Job) /\ Len(legs') = Len(legs) + Len(pkgs)
  <2>1. new \in Seq(Job) /\ Len(new) = Len(pkgs) /\ legs \in Seq(Job)  BY <1>8, <1>10
  <2>2. legs \o new \in Seq(Job) /\ Len(legs \o new) = Len(legs) + Len(new)
    BY <2>1, ConcatProperties
  <2> QED  BY <1>11, <2>1, <2>2
<1>13. \A i \in DOMAIN legs : i \in DOMAIN legs' /\ legs'[i] = legs[i]
  BY <1>3, <1>8, <1>10, <1>11
<1>14. ASSUME NEW i \in 1 .. Len(pkgs)
       PROVE  legs'[Len(legs) + i] = NewLeg(pkgs[i], Len(main), sha)
  <2>1. Len(legs) + i \in 1 .. Len(legs) + Len(pkgs) /\ ~(Len(legs) + i <= Len(legs))
    BY <1>3, <1>8
  <2>2. legs'[Len(legs) + i] = new[Len(legs) + i - Len(legs)]
    BY <1>3, <1>8, <1>10, <1>11, <2>1
  <2>3. Len(legs) + i - Len(legs) = i  BY <1>3, <1>8
  <2> QED  BY <1>10, <2>2, <2>3
<1> QED  BY <1>3, <1>5, <1>6, <1>12, <1>13, <1>14 DEF sha

LEMMA LandKeeps ==
  ASSUME LadderTypeOK, RequestsInv, GroupInv, NEW pkgs, Lands(pkgs)
  PROVE  LadderTypeOK' /\ History
<1>1. /\ late \in Nat /\ Len(main) \in Nat /\ prs \in [PRs -> Request]
      /\ Len(group.members) \in Nat /\ Len(main) >= 1
  BY MembersType DEF LadderTypeOK
<1>2. prs' \in [PRs -> Request]
  <2>1. ASSUME NEW p \in PRs PROVE [prs[p] EXCEPT !.state = "merged"] \in Request
    <3>1. prs[p] \in Request  BY <1>1
    <3> QED  BY <3>1 DEF Request
  <2> QED  BY <1>1, <2>1 DEF Lands
<1>3. main' \in Seq(Commit) /\ Len(main') >= Len(main) /\ \A c \in MainCommits : main'[c] = main[c]
  BY <1>1, LandMain
<1>4. legs' \in Seq(Job)  BY LandLegs
<1>5. group' = NoGroup /\ UNCHANGED <<npm, seen, late>>  BY DEF Lands
<1>6. LadderTypeOK'  BY <1>1, <1>2, <1>3, <1>4, <1>5, NoGroupType DEF LadderTypeOK
<1>7. ASSUME NEW p \in PRs, prs[p].state = "merged" PROVE Settled(p)
  <2>1. prs'[p] = prs[p] \/ prs'[p] = [prs[p] EXCEPT !.state = "merged"]  BY DEF Lands
  <2>2. prs[p] \in Request  BY <1>1
  <2> QED  BY <1>7, <2>1, <2>2 DEF Settled, Request
<1>8. History  BY <1>1, <1>3, <1>5, <1>7 DEF History, Grows
<1> QED  BY <1>6, <1>8

LEMMA ArriveFacts ==
  ASSUME LadderTypeOK, NEW i \in DOMAIN legs, Arrive(i)
  PROVE  /\ legs' \in Seq(Job) /\ DOMAIN legs' = DOMAIN legs /\ Others
         /\ \A j \in DOMAIN legs :
              /\ legs'[j].pkg = legs[j].pkg /\ legs'[j].base = legs[j].base
              /\ legs'[j].sha = legs[j].sha
              /\ legs'[j] = legs[j] \/ legs'[j].st \in {"pending", "cancelled"}
<1> DEFINE new(j) == IF j = i THEN [legs[j] EXCEPT !.st = "pending"]
                     ELSE IF legs[j].pkg = legs[i].pkg /\ legs[j].st = "pending"
                          THEN [legs[j] EXCEPT !.st = "cancelled"] ELSE legs[j]
<1>1. legs' = [j \in DOMAIN legs |-> new(j)] /\ Others  BY DEF Arrive
<1>2. Len(legs) \in Nat /\ DOMAIN legs = 1 .. Len(legs) /\ \A j \in DOMAIN legs : legs[j] \in Job
  BY LegType
<1>3. ASSUME NEW j \in DOMAIN legs
      PROVE  /\ new(j) \in Job
             /\ new(j).pkg = legs[j].pkg /\ new(j).base = legs[j].base
             /\ new(j).sha = legs[j].sha
             /\ new(j) = legs[j] \/ new(j).st \in {"pending", "cancelled"}
  <2>1. legs[j] \in Job  BY <1>2
  <2>2. [legs[j] EXCEPT !.st = "pending"] \in Job /\ [legs[j] EXCEPT !.st = "cancelled"] \in Job
    BY <2>1 DEF Job, Stages
  <2> QED  BY <2>1, <2>2 DEF Job
<1> HIDE DEF new
<1>4. legs' \in [1 .. Len(legs) -> Job]  BY <1>1, <1>2, <1>3
<1>5. legs' \in Seq(Job)  BY <1>2, <1>4, SeqDef
<1>6. DOMAIN legs' = DOMAIN legs /\ \A j \in DOMAIN legs : legs'[j] = new(j)  BY <1>1
<1> QED  BY <1>1, <1>3, <1>5, <1>6

LEMMA DispatchFacts ==
  ASSUME LadderTypeOK, NEW k \in Pkgs, Dispatch(k)
  PROVE  /\ legs' \in Seq(Job) /\ Others /\ Len(legs') = Len(legs) + 1
         /\ \A j \in DOMAIN legs : j \in DOMAIN legs' /\ legs'[j] = legs[j]
         /\ legs'[Len(legs) + 1] = NewLeg(k, 1, Len(main))
<1> DEFINE x == NewLeg(k, 1, Len(main))
<1>1. Len(main) \in Nat /\ legs \in Seq(Job) /\ Len(legs) \in Nat /\ DOMAIN legs = 1 .. Len(legs)
  BY DEF LadderTypeOK
<1>2. x \in Job
  <2>1. Root \in Tree  BY DEF Root, Tree
  <2> QED  BY <1>1, <2>1 DEF NewLeg, Job, Stages
<1>3. legs' = Append(legs, x) /\ Others  BY DEF Dispatch, Others
<1> HIDE DEF x
<1>4. legs' \in Seq(Job) /\ Len(legs') = Len(legs) + 1 /\ legs'[Len(legs) + 1] = x
  BY <1>1, <1>2, <1>3, AppendProperties
<1>5. \A j \in 1 .. Len(legs) : legs'[j] = legs[j]  BY <1>1, <1>2, <1>3, AppendProperties
<1>6. \A j \in 1 .. Len(legs) : j \in DOMAIN legs'  BY <1>1, <1>4
<1> QED  BY <1>1, <1>3, <1>4, <1>5, <1>6 DEF x

LEMMA RerunFacts ==
  ASSUME LadderTypeOK, NEW i \in DOMAIN legs, Rerun(i)
  PROVE  OneJob(i) /\ legs'[i].st = "detect" /\ Others
<1> DEFINE n == legs[i].again + 1
           x == [legs[i] EXCEPT !.st = "detect", !.again = n]
<1>1. legs[i] \in Job /\ n \in Nat  BY LegType DEF Job
<1>2. /\ x \in Job /\ x.pkg = legs[i].pkg /\ x.base = legs[i].base /\ x.sha = legs[i].sha
      /\ x.st = "detect"
  <2> HIDE DEF n
  <2> QED  BY <1>1 DEF Job, Stages
<1>3. legs' = [legs EXCEPT ![i] = x] /\ Others  BY DEF Rerun
<1> HIDE DEF x
<1> QED  BY <1>2, <1>3, PutJob

\* npm takes the tarball of job i.
Takes(i) ==
  LET k == legs[i].pkg
      t == legs[i].bytes
      now == Tagged(npm[k], t)
  IN /\ t.v \notin DOMAIN npm[k].on
     /\ npm' = [npm EXCEPT ![k] = now]
     /\ \/ seen' = [seen EXCEPT ![k] = [has |-> DOMAIN now.on, latest |-> t.v]] /\ UNCHANGED late
        \/ late' = late + 1 /\ UNCHANGED seen
     /\ UNCHANGED <<prs, main, group>>

LEMMA PublishFacts ==
  ASSUME LadderTypeOK, NEW i \in DOMAIN legs, NpmPublish(i)
  PROVE  /\ legs[i].st = "guarded" /\ OneJob(i)
         /\ \/ /\ Others /\ legs'[i].st = "recheck" /\ legs'[i].bytes = legs[i].bytes
            \/ Takes(i) /\ legs'[i].st \in {"published", "failed"}
<1>1. CASE legs[i].bytes.v \in DOMAIN npm[legs[i].pkg].on
  <2>1. Moves(i, "recheck") /\ legs[i].st = "guarded" /\ Others
    BY <1>1 DEF NpmPublish, Others
  <2> QED  BY <2>1, JobMoves DEF Stages
<1>2. CASE legs[i].bytes.v \notin DOMAIN npm[legs[i].pkg].on
  <2>1. legs[i].st = "guarded" /\ Takes(i)  BY <1>2 DEF NpmPublish, Takes
  <2>2. Moves(i, "published") \/ Moves(i, "failed")  BY <1>2 DEF NpmPublish
  <2>3. OneJob(i) /\ legs'[i].st \in {"published", "failed"}  BY <2>2, JobMoves DEF Stages
  <2> QED  BY <2>1, <2>3
<1> QED  BY <1>1, <1>2

LEMMA EntryType ==
  ASSUME LadderTypeOK, NEW k \in Pkgs
  PROVE  /\ npm[k] = [on |-> npm[k].on, latest |-> npm[k].latest]
         /\ DOMAIN npm[k].on \in SUBSET Nat /\ npm[k].on \in [DOMAIN npm[k].on -> Tree]
         /\ npm[k].latest \in Nat /\ seen[k].has \in SUBSET Nat /\ seen[k].latest \in Nat
<1>1. npm[k] \in [on : UNION {[V -> Tree] : V \in SUBSET Nat}, latest : Nat]
      /\ seen[k] \in [has : SUBSET Nat, latest : Nat]
  BY DEF LadderTypeOK
<1>2. npm[k].on \in UNION {[V -> Tree] : V \in SUBSET Nat}  BY <1>1
<1>3. PICK V \in SUBSET Nat : npm[k].on \in [V -> Tree]  BY <1>2
<1> QED  BY <1>1, <1>3

LEMMA TaggedType ==
  ASSUME LadderTypeOK, NEW k \in Pkgs, NEW t \in Tree
  PROVE  /\ Tagged(npm[k], t) \in [on : UNION {[V -> Tree] : V \in SUBSET Nat}, latest : Nat]
         /\ DOMAIN Tagged(npm[k], t).on = DOMAIN npm[k].on \cup {t.v}
         /\ Tagged(npm[k], t).on[t.v] = t /\ Tagged(npm[k], t).latest = t.v
         /\ \A v \in DOMAIN npm[k].on \ {t.v} : Tagged(npm[k], t).on[v] = npm[k].on[v]
<1> DEFINE V == DOMAIN npm[k].on \cup {t.v}
           f == [w \in V |-> IF w = t.v THEN t ELSE npm[k].on[w]]
<1>1. t.v \in Nat  BY DEF Tree
<1>2. V \in SUBSET Nat /\ npm[k].on \in [DOMAIN npm[k].on -> Tree]  BY <1>1, EntryType
<1>3. f \in [V -> Tree]  BY <1>2
<1>4. DOMAIN f = V /\ f[t.v] = t /\ \A v \in DOMAIN npm[k].on \ {t.v} : f[v] = npm[k].on[v]
  OBVIOUS
<1>5. Tagged(npm[k], t) = [on |-> f, latest |-> t.v]  BY DEF Tagged
<1> HIDE DEF f, V
<1>6. f \in UNION {[W -> Tree] : W \in SUBSET Nat}  BY <1>2, <1>3
<1> QED  BY <1>1, <1>4, <1>5, <1>6 DEF V

LEMMA TakesKeeps ==
  ASSUME LadderTypeOK, RegistryInv, NEW i \in DOMAIN legs, Takes(i), legs' \in Seq(Job)
  PROVE  LadderTypeOK' /\ History
<1> DEFINE k == legs[i].pkg
           t == legs[i].bytes
           now == Tagged(npm[k], t)
<1>1. k \in Pkgs /\ t \in Tree /\ t.v \in Nat
  BY LegType DEF Job, Tree
<1>2. late \in Nat /\ Len(main) \in Nat
      /\ npm \in [Pkgs -> [on : UNION {[V -> Tree] : V \in SUBSET Nat}, latest : Nat]]
      /\ seen \in [Pkgs -> [has : SUBSET Nat, latest : Nat]]
  BY DEF LadderTypeOK
<1>3. /\ now \in [on : UNION {[V -> Tree] : V \in SUBSET Nat}, latest : Nat]
      /\ DOMAIN now.on = DOMAIN npm[k].on \cup {t.v}
      /\ \A v \in DOMAIN npm[k].on \ {t.v} : now.on[v] = npm[k].on[v]
  <2> HIDE DEF k, t
  <2> QED  BY <1>1, TaggedType
<1>4. /\ t.v \notin DOMAIN npm[k].on /\ npm' = [npm EXCEPT ![k] = now]
      /\ \/ seen' = [seen EXCEPT ![k] = [has |-> DOMAIN now.on, latest |-> t.v]] /\ UNCHANGED late
         \/ late' = late + 1 /\ UNCHANGED seen
      /\ UNCHANGED <<prs, main, group>>
  BY DEF Takes
<1>5. DOMAIN npm[k].on \in SUBSET Nat  BY <1>1, EntryType
<1>6. seen[k].has \subseteq DOMAIN npm[k].on  BY <1>1 DEF RegistryInv
<1> HIDE DEF now, k, t
<1>7. npm' \in [Pkgs -> [on : UNION {[V -> Tree] : V \in SUBSET Nat}, latest : Nat]]
  BY <1>2, <1>3, <1>4
<1>8. [has |-> DOMAIN now.on, latest |-> t.v] \in [has : SUBSET Nat, latest : Nat]
  BY <1>1, <1>3, <1>5
<1>9. seen' \in [Pkgs -> [has : SUBSET Nat, latest : Nat]] /\ late' \in Nat /\ late' >= late
  <2> DEFINE y == [has |-> DOMAIN now.on, latest |-> t.v]
  <2>1. late' \in Nat /\ late' >= late  BY <1>2, <1>4
  <2>2. y \in [has : SUBSET Nat, latest : Nat]  BY <1>8
  <2>3. seen' = seen \/ seen' = [seen EXCEPT ![k] = y]  BY <1>4
  <2> HIDE DEF y
  <2>4. seen' \in [Pkgs -> [has : SUBSET Nat, latest : Nat]]  BY <1>2, <2>2, <2>3
  <2> QED  BY <2>1, <2>4
<1>10. LadderTypeOK'  BY <1>4, <1>7, <1>9 DEF LadderTypeOK
<1>11. ASSUME NEW h \in Pkgs PROVE Grows(h)
  <2>1. CASE h # k
    <3>1. npm'[h] = npm[h] /\ seen'[h] = seen[h]  BY <1>2, <1>4, <2>1
    <3> QED  BY <3>1 DEF Grows
  <2>2. CASE h = k
    <3>1. npm'[k] = now  BY <1>1, <1>2, <1>4
    <3>2. seen'[k] = seen[k] \/ seen'[k].has = DOMAIN now.on  BY <1>1, <1>2, <1>4
    <3>3. seen[k].has \subseteq DOMAIN now.on  BY <1>3, <1>6
    <3>4. seen[k].has \subseteq seen'[k].has  BY <3>2, <3>3
    <3>5. \A v \in DOMAIN npm[k].on : now.on[v] = npm[k].on[v]  BY <1>3, <1>4
    <3> QED  BY <1>3, <2>2, <3>1, <3>4, <3>5 DEF Grows
  <2> QED  BY <2>1, <2>2
<1>12. History
  <2>1. \A p \in PRs : prs[p].state = "merged" => Settled(p)  BY <1>4 DEF Settled
  <2> QED  BY <1>2, <1>4, <1>9, <1>11, <2>1 DEF History
<1> QED  BY <1>10, <1>12

LEMMA ServeKeeps ==
  ASSUME LadderTypeOK, RegistryInv, NEW k \in Pkgs, Serve(k)
  PROVE  LadderTypeOK' /\ History
<1> DEFINE x == [has |-> DOMAIN npm[k].on, latest |-> npm[k].latest]
<1>1. seen' = [seen EXCEPT ![k] = x] /\ UNCHANGED <<prs, main, group, legs, npm, late>>
  BY DEF Serve
<1>2. x \in [has : SUBSET Nat, latest : Nat]  BY EntryType
<1>3. x.has = DOMAIN npm[k].on /\ seen[k].has \subseteq DOMAIN npm[k].on  BY DEF RegistryInv
<1>4. seen \in [Pkgs -> [has : SUBSET Nat, latest : Nat]] /\ late \in Nat /\ Len(main) \in Nat
  BY DEF LadderTypeOK
<1> HIDE DEF x
<1>5. seen' \in [Pkgs -> [has : SUBSET Nat, latest : Nat]]  BY <1>1, <1>2, <1>4
<1>6. LadderTypeOK'  BY <1>1, <1>5 DEF LadderTypeOK
<1>7. \A h \in Pkgs : Grows(h)  BY <1>1, <1>3, <1>4 DEF Grows
<1>8. \A p \in PRs : prs[p].state = "merged" => Settled(p)  BY <1>1 DEF Settled
<1>9. History  BY <1>1, <1>4, <1>7, <1>8 DEF History
<1> QED  BY <1>6, <1>9

\* The steps of one job that leave npm alone, or that give it a tarball.
LEMMA LegSteps ==
  ASSUME LadderTypeOK, LegsInv, NEW i \in DOMAIN legs, Leg(i) \/ Rerun(i) \/ LegFails(i)
  PROVE  legs' \in Seq(Job) /\ (Others \/ Takes(i))
<1>1. CASE Arrive(i)  BY <1>1, ArriveFacts
<1>2. CASE StartLeg(i)
  <2>1. Moves(i, "running") /\ Others  BY <1>2 DEF StartLeg
  <2> QED  BY <2>1, JobMoves DEF Stages, OneJob
<1>3. CASE Resolve(i)
  <2>1. OneJob(i)  BY <1>3, ResolveJob
  <2> QED  BY <1>3, <2>1 DEF Resolve, OneJob
<1>4. CASE Guard(i)
  <2>1. PICK st \in Stages : Moves(i, st) /\ Others  BY <1>4, Decisions DEF Guard, Stages
  <2> QED  BY <2>1, JobMoves DEF OneJob
<1>5. CASE NpmPublish(i)  BY <1>5, PublishFacts DEF OneJob
<1>6. CASE Recheck(i)
  <2>1. PICK st \in Stages : Moves(i, st) /\ Others  BY <1>6, Decisions DEF Recheck, Stages
  <2> QED  BY <2>1, JobMoves DEF OneJob
<1>7. CASE Rerun(i)  BY <1>7, RerunFacts DEF OneJob
<1>8. CASE LegFails(i)
  <2>1. Moves(i, "failed") /\ Others  BY <1>8 DEF LegFails
  <2> QED  BY <2>1, JobMoves DEF Stages, OneJob
<1> QED  BY <1>1, <1>2, <1>3, <1>4, <1>5, <1>6, <1>7, <1>8 DEF Leg

LEMMA StepKeeps ==
  ASSUME LadderTypeOK, RequestsInv, GroupInv, RegistryInv, LegsInv, [LadderNext]_ladderVars
  PROVE  LadderTypeOK' /\ History
<1>1. ASSUME NEW p \in PRs, Push(p) \/ RunEnds(p) \/ Expire(p) PROVE LadderTypeOK' /\ History
  BY <1>1, PushKeeps, RunKeeps, ExpireKeeps
<1>2. CASE FormGroup  BY <1>2, FormKeeps
<1>3. CASE CheckGroup  BY <1>3, CheckKeeps
<1>4. CASE Land
  <2>1. CASE \E pkgs : Lands(pkgs)  BY <2>1, LandKeeps
  <2>2. CASE group' = NoGroup /\ UNCHANGED <<prs, main, legs, npm, seen, late>>
    BY <2>2, NoGroupType, GroupKeeps
  <2> QED  BY <1>4, <2>1, <2>2, LandFacts
<1>5. ASSUME NEW k \in Pkgs, Dispatch(k) PROVE LadderTypeOK' /\ History
  BY <1>5, DispatchFacts, QuietKeeps
<1>6. ASSUME NEW k \in Pkgs, Serve(k) PROVE LadderTypeOK' /\ History  BY <1>6, ServeKeeps
<1>7. ASSUME NEW i \in DOMAIN legs, Leg(i) \/ Rerun(i) \/ LegFails(i) PROVE LadderTypeOK' /\ History
  BY <1>7, LegSteps, QuietKeeps, TakesKeeps
<1>8. CASE UNCHANGED ladderVars
  <2>1. Others /\ legs' \in Seq(Job)  BY <1>8 DEF ladderVars, Others, LadderTypeOK
  <2> QED  BY <2>1, QuietKeeps
<1> QED  BY <1>1, <1>2, <1>3, <1>4, <1>5, <1>6, <1>7, <1>8 DEF LadderNext

-----------------------------------------------------------------------------
(* The requests and main *)

\* A request that keeps its head, what it changes and where it started.
Same(p) ==
  /\ prs'[p].pkg = prs[p].pkg /\ prs'[p].kind = prs[p].kind /\ prs'[p].head = prs[p].head
  /\ prs'[p].tree = prs[p].tree /\ prs'[p].base = prs[p].base

LEMMA OldRequest ==
  ASSUME LadderTypeOK, LadderTypeOK', History, NEW p \in PRs, Requested(p), Same(p),
         prs'[p].state = "merged" => prs'[p].run = "green"
  PROVE  Requested(p)'
<1>1. PICK b \in MainCommits : prs[p].base = TreeAt(b, prs[p].pkg)  BY DEF Requested
<1>2. Len(main) \in Nat /\ Len(main') \in Nat /\ Len(main') >= Len(main)  BY DEF LadderTypeOK, History
<1>3. b \in 1 .. Len(main') /\ main'[b] = main[b]  BY <1>1, <1>2 DEF MainCommits, History
<1>4. prs'[p].base = main'[b].trees[prs'[p].pkg]  BY <1>1, <1>3 DEF Same, TreeAt
<1>5. \E d \in MainCommits' : prs'[p].base = main'[d].trees[prs'[p].pkg]  BY <1>3, <1>4 DEF MainCommits
<1>6. /\ prs'[p].pkg \in Pkgs
      /\ prs'[p].tree.edits = prs'[p].base.edits \cup {<<p, prs'[p].head>>}
      /\ prs'[p].kind = "build" => prs'[p].tree.v = prs'[p].base.v
      /\ Bumped /\ prs'[p].kind # "build" => prs'[p].tree.v > prs'[p].base.v
  BY DEF Requested, Same
<1> QED  BY <1>5, <1>6 DEF Requested, TreeAt

LEMMA PushRequests ==
  ASSUME LadderTypeOK, LadderTypeOK', History, RequestsInv, NEW p \in PRs, Push(p)
  PROVE  RequestsInv'
<1>1. PICK k \in Pkgs, kind \in Kinds, v \in Nat, base \in Tree :
        /\ Raised(kind, base, v)
        /\ \/ base = TreeAt(Len(main), k)
           \/ prs[p].state = "open" /\ prs[p].pkg = k /\ base = prs[p].base
        /\ prs' = [prs EXCEPT ![p] = Pushed(p, k, kind, v, base)]
        /\ main' = main
  BY PushFacts
<1>2. prs \in [PRs -> Request] /\ Len(main) \in Nat /\ Len(main) >= 1  BY DEF LadderTypeOK
<1>3. ASSUME NEW q \in PRs, q # p, prs'[q].state # "none" PROVE Requested(q)'
  <2>1. prs'[q] = prs[q]  BY <1>1, <1>2, <1>3
  <2>2. Requested(q)  BY <1>3, <2>1 DEF RequestsInv
  <2> QED  BY <2>1, <2>2, OldRequest DEF Same, Requested
<1>4. Requested(p)'
  <2> DEFINE head == prs[p].head + 1
             x == Pushed(p, k, kind, v, base)
  <2>1. /\ x.pkg = k /\ x.base = base /\ x.kind = kind /\ x.head = head /\ x.state = "open"
        /\ x.tree.v = v /\ x.tree.edits = base.edits \cup {<<p, head>>}
    BY DEF Pushed
  <2>2. prs'[p] = x  BY <1>1, <1>2
  <2>3. \E b \in MainCommits : base = TreeAt(b, k)
    <3>1. CASE base = TreeAt(Len(main), k)  BY <1>2, <3>1 DEF MainCommits
    <3>2. CASE prs[p].state = "open" /\ prs[p].pkg = k /\ base = prs[p].base
      BY <3>2 DEF RequestsInv, Requested
    <3> QED  BY <1>1, <3>1, <3>2
  <2>4. \E b \in MainCommits' : base = main'[b].trees[k]  BY <1>1, <2>3 DEF MainCommits, TreeAt
  <2>5. (kind = "build" => v = base.v) /\ (Bumped /\ kind # "build" => v > base.v)
    BY <1>1 DEF Raised
  <2> HIDE DEF x, head
  <2> QED  BY <2>1, <2>2, <2>4, <2>5 DEF Requested, TreeAt
<1> QED  BY <1>3, <1>4 DEF RequestsInv

LEMMA RequestsStep ==
  ASSUME LadderTypeOK, LadderTypeOK', History, RequestsInv, GroupInv, LegsInv, [LadderNext]_ladderVars
  PROVE  RequestsInv'
<1>1. ASSUME NEW p \in PRs, Push(p) PROVE RequestsInv'  BY <1>1, PushRequests
<1>2. CASE \A p \in PRs : /\ Same(p)
                          /\ prs[p].state = "none" => prs'[p].state = "none"
                          /\ prs'[p].state = "merged" =>
                               prs[p].state = "merged" \/ prs'[p].run = "green"
                          /\ prs[p].run = "green" => prs'[p].run = "green"
  BY <1>2, OldRequest DEF RequestsInv, Requested
<1>3. prs \in [PRs -> Request]  BY DEF LadderTypeOK
<1>4. ASSUME prs' = prs PROVE RequestsInv'  BY <1>2, <1>4 DEF Same
<1>5. ASSUME NEW p \in PRs, NEW x \in Request, prs' = [prs EXCEPT ![p] = x],
             x.pkg = prs[p].pkg, x.kind = prs[p].kind, x.head = prs[p].head, x.tree = prs[p].tree,
             x.base = prs[p].base, x.state = prs[p].state, prs[p].run = "green" => x.run = "green"
      PROVE  RequestsInv'
  <2>1. prs'[p] = x /\ \A q \in PRs : q # p => prs'[q] = prs[q]  BY <1>3, <1>5
  <2> QED  BY <1>2, <1>5, <2>1 DEF Same
<1>6. ASSUME NEW p \in PRs, RunEnds(p) PROVE RequestsInv'
  <2> DEFINE x == [prs[p] EXCEPT !.run = "green"]
  <2>1. prs[p] \in Request  BY <1>3
  <2>2. /\ x \in Request /\ x.pkg = prs[p].pkg /\ x.kind = prs[p].kind /\ x.head = prs[p].head
        /\ x.tree = prs[p].tree /\ x.base = prs[p].base /\ x.state = prs[p].state
        /\ x.run = "green"
    BY <2>1 DEF Request
  <2>3. prs' = [prs EXCEPT ![p] = x]  BY <1>6 DEF RunEnds
  <2> HIDE DEF x
  <2> QED  BY <1>5, <2>2, <2>3
<1>7. ASSUME NEW p \in PRs, Expire(p) PROVE RequestsInv'
  <2> DEFINE x == [prs[p] EXCEPT !.kept = FALSE]
  <2>1. prs[p] \in Request  BY <1>3
  <2>2. /\ x \in Request /\ x.pkg = prs[p].pkg /\ x.kind = prs[p].kind /\ x.head = prs[p].head
        /\ x.tree = prs[p].tree /\ x.base = prs[p].base /\ x.state = prs[p].state
        /\ x.run = prs[p].run
    BY <2>1 DEF Request
  <2>3. prs' = [prs EXCEPT ![p] = x]  BY <1>7 DEF Expire
  <2> HIDE DEF x
  <2> QED  BY <1>5, <2>2, <2>3
<1>8. CASE Land
  <2>1. CASE prs' = prs  BY <1>4, <2>1
  <2>2. ASSUME NEW pkgs, Lands(pkgs) PROVE RequestsInv'
    <3>1. ASSUME NEW p \in PRs
          PROVE  /\ Same(p)
                 /\ prs[p].state = "none" => prs'[p].state = "none"
                 /\ prs'[p].state = "merged" =>
                      prs[p].state = "merged" \/ prs'[p].run = "green"
                 /\ prs[p].run = "green" => prs'[p].run = "green"
      <4>0. prs[p] \in Request  BY <1>3
      <4>1. CASE \E i \in DOMAIN group.members : group.members[i].pr = p
        <5>1. PICK i \in DOMAIN group.members : group.members[i].pr = p  BY <4>1
        <5>2. prs'[p] = [prs[p] EXCEPT !.state = "merged"]  BY <2>2, <4>1 DEF Lands
        <5>3. Joined(group.members[i]) /\ Unmoved(group.members[i])
          BY <2>2 DEF GroupInv, Lands
        <5>4. prs[p].state = "open" /\ prs[p].run = "green"
          BY <5>1, <5>3 DEF Joined, Unmoved
        <5> QED  BY <4>0, <5>2, <5>4 DEF Same, Request
      <4>2. CASE ~\E i \in DOMAIN group.members : group.members[i].pr = p
        <5>1. prs'[p] = prs[p]  BY <2>2, <4>2 DEF Lands
        <5> QED  BY <5>1 DEF Same
      <4> QED  BY <4>1, <4>2
    <3> QED  BY <3>1, <1>2
  <2> QED  BY <1>8, <2>1, <2>2, LandFacts
<1>9. CASE FormGroup \/ CheckGroup \/ UNCHANGED ladderVars  BY <1>4, <1>9 DEF FormGroup, CheckGroup, ladderVars
<1>10. ASSUME NEW k \in Pkgs, Dispatch(k) \/ Serve(k) PROVE RequestsInv'
  BY <1>4, <1>10 DEF Dispatch, Serve
<1>11. ASSUME NEW i \in DOMAIN legs, Leg(i) \/ Rerun(i) \/ LegFails(i) PROVE RequestsInv'
  BY <1>4, <1>11, LegSteps DEF Others, Takes
<1> QED  BY <1>1, <1>6, <1>7, <1>8, <1>9, <1>10, <1>11 DEF LadderNext

LEMMA OldMain ==
  ASSUME LadderTypeOK, LadderTypeOK', RequestsInv, MainInv, History
  PROVE  /\ \A k \in Pkgs : TreeAt(1, k)' = Root
         /\ \A c \in 2 .. Len(main) : MergeOf(c)'
         /\ \A k \in Pkgs : \A c \in MainCommits : \A b \in 1 .. c : InOrder(b, c, k)'
         /\ \A k \in Pkgs : \A c \in MainCommits : \A e \in TreeAt(c, k)'.edits : Merged(e[1])'
         /\ \A k \in Pkgs : \A c \in MainCommits :
              TreeAt(c, k)'.v # 1 => \E b \in 2 .. c : Releases(main[b].pr, k)'
<1>0. Len(main) \in Nat /\ Len(main) >= 1 /\ Len(main') \in Nat  BY DEF LadderTypeOK
<1>1. ASSUME NEW k \in Pkgs PROVE TreeAt(1, k)' = Root
  <2>1. 1 \in MainCommits  BY <1>0 DEF MainCommits
  <2>2. TreeAt(1, k)' = TreeAt(1, k)  BY <2>1, PastTrees
  <2> QED  BY <2>2 DEF MainInv
<1>2. ASSUME NEW c \in 2 .. Len(main) PROVE MergeOf(c)'
  <2>1. MergeOf(c)  BY DEF MainInv
  <2>2. PICK p \in PRs : p = main[c].pr  BY Past DEF Merged
  <2>3. main'[c].pr = p /\ Settled(p) /\ prs[p].state = "merged"  BY <2>2, Past DEF Merged
  <2>4. c \in MainCommits  BY <1>0 DEF MainCommits
  <2>5. prs[p].pkg \in Pkgs  BY <2>3 DEF RequestsInv, Requested
  <2>6. seen[prs[p].pkg].has \subseteq seen'[prs[p].pkg].has  BY <2>5 DEF History, Grows
  <2>7. main'[c].trees[prs'[p].pkg] = main[c].trees[prs[p].pkg]
    BY <2>3, <2>4 DEF History, Settled
  <2>8. /\ prs'[p].state = "merged" /\ prs'[p].run = "green"
        /\ main'[c].trees[prs'[p].pkg] = prs'[p].tree
        /\ prs'[p].kind = "gate" => prs'[p].tree.v \in seen'[prs'[p].pkg].has
    BY <2>1, <2>2, <2>3, <2>6, <2>7 DEF MergeOf, Settled, TreeAt
  <2> QED  BY <2>3, <2>8 DEF MergeOf, TreeAt, Merged
<1>3. ASSUME NEW k \in Pkgs, NEW c \in MainCommits, NEW b \in 1 .. c PROVE InOrder(b, c, k)'
  <2>1. InOrder(b, c, k)  BY DEF MainInv
  <2>2. b \in MainCommits /\ b \in Nat /\ c \in Nat  BY <1>0 DEF MainCommits
  <2>3. TreeAt(b, k)' = TreeAt(b, k) /\ TreeAt(c, k)' = TreeAt(c, k) /\ main'[c] = main[c]
    BY <2>2, PastTrees
  <2>4. ASSUME b < c PROVE Releases(main[c].pr, k)' <=> Releases(main[c].pr, k)
    <3>1. c \in 2 .. Len(main)  BY <2>2, <2>4, <1>0 DEF MainCommits
    <3> QED  BY <3>1, Past
  <2> QED  BY <2>1, <2>3, <2>4 DEF InOrder, Releases
<1>4. ASSUME NEW k \in Pkgs, NEW c \in MainCommits, NEW e \in TreeAt(c, k)'.edits
      PROVE  Merged(e[1])'
  <2>1. e \in TreeAt(c, k).edits  BY PastTrees
  <2>2. Merged(e[1])  BY <2>1 DEF MainInv
  <2> QED  BY <2>2 DEF Merged, History, Settled
<1>5. ASSUME NEW k \in Pkgs, NEW c \in MainCommits, TreeAt(c, k)'.v # 1
      PROVE  \E b \in 2 .. c : Releases(main[b].pr, k)'
  <2>1. TreeAt(c, k).v # 1  BY <1>5, PastTrees
  <2>2. PICK b \in 2 .. c : Releases(main[b].pr, k)  BY <2>1 DEF MainInv
  <2>3. b \in 2 .. Len(main)  BY <1>0, <2>2 DEF MainCommits
  <2>4. Releases(main[b].pr, k)'  BY <2>2, <2>3, Past
  <2> QED  BY <2>4
<1> QED  BY <1>1, <1>2, <1>3, <1>4, <1>5

-----------------------------------------------------------------------------
(* A group that lands *)

LEMMA MemberFacts ==
  ASSUME LadderTypeOK, RequestsInv, GroupInv, NEW pkgs, Lands(pkgs),
         NEW i \in DOMAIN group.members
  PROVE  LET p == group.members[i].pr
             req == group.members[i].req
         IN /\ p \in PRs /\ prs[p] = req /\ req.state = "open" /\ req.run = "green"
            /\ req.pkg \in Pkgs /\ Requested(p) /\ Binds(group.members, i)
            /\ req.kind = "gate" => req.tree.v \in seen[req.pkg].has
            /\ prs'[p].state = "merged" /\ prs'[p].run = "green" /\ prs'[p].pkg = req.pkg
            /\ prs'[p].kind = req.kind /\ prs'[p].tree = req.tree
<1> DEFINE p == group.members[i].pr
           req == group.members[i].req
<1>1. p \in PRs  BY MembersType DEF Member
<1>2. Joined(group.members[i]) /\ Unmoved(group.members[i])  BY DEF GroupInv, Lands
<1>3. prs[p] = req /\ req.state = "open" /\ req.run = "green"
  BY <1>2 DEF Joined, Unmoved
<1>4. Requested(p)  BY <1>1, <1>3 DEF RequestsInv
<1>5. Binds(group.members, i) /\ (req.kind = "gate" => req.tree.v \in seen[req.pkg].has)
  BY DEF GroupInv, Lands
<1>6. prs'[p] = [prs[p] EXCEPT !.state = "merged"]  BY <1>1 DEF Lands
<1>7. prs[p] \in Request  BY <1>1 DEF LadderTypeOK
<1>8. /\ prs'[p].state = "merged" /\ prs'[p].run = "green" /\ prs'[p].pkg = req.pkg
      /\ prs'[p].kind = req.kind /\ prs'[p].tree = req.tree
  BY <1>3, <1>6, <1>7 DEF Request
<1> QED  BY <1>1, <1>3, <1>4, <1>5, <1>8 DEF Requested

\* What lands was made from the tip of main.
LEMMA Based ==
  ASSUME LadderTypeOK, RequestsInv, MainInv, GroupInv, NEW pkgs, Lands(pkgs),
         NEW i \in DOMAIN group.members
  PROVE  LET p == group.members[i].pr
             req == group.members[i].req
         IN /\ req.base = TreeAt(Len(main), req.pkg)
            /\ req.tree.edits = TreeAt(Len(main), req.pkg).edits \cup {<<p, req.head>>}
            /\ \A c \in MainCommits : <<p, req.head>> \notin TreeAt(c, req.pkg).edits
<1> DEFINE p == group.members[i].pr
           req == group.members[i].req
           k == req.pkg
           e == <<p, req.head>>
           tip == TreeAt(Len(main), k)
<1>1. /\ p \in PRs /\ prs[p] = req /\ req.state = "open" /\ k \in Pkgs /\ Requested(p)
      /\ Binds(group.members, i)
  BY MemberFacts
<1>2. req.tree.edits = req.base.edits \cup {e}  BY <1>1 DEF Requested
<1>3. PICK b \in MainCommits : req.base = TreeAt(b, k)  BY <1>1 DEF Requested
<1>4. ASSUME NEW c \in MainCommits PROVE e \notin TreeAt(c, k).edits
  <2> SUFFICES ASSUME e \in TreeAt(c, k).edits PROVE FALSE  OBVIOUS
  <2>1. Merged(e[1])  BY <1>1 DEF MainInv
  <2> QED  BY <1>1, <2>1 DEF Merged
<1>5. tip.edits \subseteq req.tree.edits
  <2> DEFINE ms == group.members
             own == OwnOf(ms, Len(ms), k)
  <2>1. After(ms, Len(ms))[k] = req.tree  BY <1>1 DEF Binds
  <2>2. After(ms, Len(ms))[k] = Blend(ms, own, k)  BY <1>1, AfterAt
  <2>3. Blend(ms, own, k).edits = Tip.trees[k].edits \cup EditsOf(ms, own)
    <3> HIDE DEF ms, own
    <3> QED  BY DEF Blend
  <2>4. tip = Tip.trees[k]  BY DEF TreeAt, Tip
  <2> HIDE DEF ms, own
  <2> QED  BY <2>1, <2>2, <2>3, <2>4
<1>6. Len(main) \in MainCommits /\ Len(main) \in Nat  BY TipType
<1>7. tip.edits \subseteq req.base.edits  BY <1>2, <1>4, <1>5, <1>6
<1>8. b \in 1 .. Len(main)  BY DEF MainCommits
<1>9. InOrder(b, Len(main), k)  BY <1>1, <1>6, <1>8 DEF MainInv
<1>10. req.base = tip  BY <1>3, <1>7, <1>9 DEF InOrder
<1> QED  BY <1>2, <1>4, <1>10

\* The tree of a package on main afterwards: that of the member that touched
\* it, from its merge on, and what it was before.
Reaches(j, c, k) == group.members[j].req.pkg = k /\ Len(main) + j <= c
LEMMA NewTrees ==
  ASSUME LadderTypeOK, RequestsInv, GroupInv, NEW pkgs, Lands(pkgs), NEW k \in Pkgs,
         NEW c \in 1 .. Len(main) + Len(group.members)
  PROVE  /\ \A j \in DOMAIN group.members : Reaches(j, c, k) =>
               TreeAt(c, k)' = group.members[j].req.tree
         /\ (\A j \in DOMAIN group.members : ~Reaches(j, c, k)) =>
               TreeAt(c, k)' = TreeAt(IF c <= Len(main) THEN c ELSE Len(main), k)
<1> DEFINE ms == group.members
           n == Len(ms)
<1>1. Len(main) \in Nat /\ n \in Nat /\ DOMAIN ms = 1 .. n /\ ms \in Seq(Member)
  BY MembersType DEF LadderTypeOK
<1>2. \A i \in DOMAIN ms : Binds(ms, i)  BY DEF GroupInv, Lands
<1>3. CASE c <= Len(main)
  <2>1. c \in MainCommits  BY <1>1, <1>3 DEF MainCommits
  <2>2. TreeAt(c, k)' = TreeAt(c, k)  BY <2>1, LandMain DEF TreeAt
  <2>3. \A j \in 1 .. n : ~(Len(main) + j <= c)  BY <1>1, <1>3
  <2> QED  BY <1>1, <1>3, <2>2, <2>3 DEF Reaches
<1>4. CASE ~(c <= Len(main))
  <2> DEFINE h == c - Len(main)
  <2>1. h \in 1 .. n /\ c = Len(main) + h /\ h \in 0 .. n  BY <1>1, <1>4
  <2>2. main'[Len(main) + h] = NewCommit(h)  BY <1>1, <2>1, LandMain
  <2>3. TreeAt(c, k)' = After(ms, h)[k]  BY <2>1, <2>2 DEF NewCommit, TreeAt
  <2> HIDE DEF h, ms, n
  <2>4. /\ \A i \in 1 .. h : ms[i].req.pkg = k => After(ms, h)[k] = ms[i].req.tree
        /\ (\A i \in 1 .. h : ms[i].req.pkg # k) => After(ms, h)[k] = Tip.trees[k]
    BY <1>1, <1>2, <2>1, AfterBound DEF n
  <2>5. Tip.trees[k] = TreeAt(Len(main), k)  BY DEF Tip, TreeAt
  <2>6. \A j \in 1 .. n : Len(main) + j <= c <=> j \in 1 .. h  BY <1>1, <2>1
  <2>7. ASSUME NEW j \in 1 .. n, Reaches(j, c, k) PROVE TreeAt(c, k)' = ms[j].req.tree
    BY <2>3, <2>4, <2>6, <2>7 DEF Reaches, ms
  <2>8. ASSUME \A j \in 1 .. n : ~Reaches(j, c, k) PROVE TreeAt(c, k)' = TreeAt(Len(main), k)
    <3>1. \A i \in 1 .. h : i \in 1 .. n  BY <1>1, <2>1
    <3>2. \A i \in 1 .. h : ms[i].req.pkg # k  BY <2>6, <2>8, <3>1 DEF Reaches, ms
    <3> QED  BY <2>3, <2>4, <2>5, <3>2
  <2> QED  BY <1>1, <1>4, <2>7, <2>8 DEF ms
<1> QED  BY <1>3, <1>4

\* Where a package's tree comes from after the merge: a commit that main had, or
\* a member of the group.
LEMMA Sources ==
  ASSUME LadderTypeOK, LadderTypeOK', History, RequestsInv, MainInv, GroupInv, NEW pkgs, Lands(pkgs),
         NEW k \in Pkgs, NEW c \in MainCommits'
  PROVE  /\ c \in 1 .. Len(main) + Len(group.members)
         /\ \/ \E j \in DOMAIN group.members :
                 /\ Reaches(j, c, k) /\ TreeAt(c, k)' = group.members[j].req.tree
                 /\ \A i \in DOMAIN group.members : group.members[i].req.pkg = k => i = j
            \/ \E b \in MainCommits :
                 /\ TreeAt(c, k)' = TreeAt(b, k) /\ b <= c /\ (b = c \/ b = Len(main))
                 /\ \A j \in DOMAIN group.members : ~Reaches(j, c, k)
<1>1. Len(main) \in Nat /\ Len(main) >= 1 /\ Len(group.members) \in Nat  BY MembersType DEF LadderTypeOK
<1>2. c \in 1 .. Len(main) + Len(group.members)  BY LandMain DEF MainCommits
<1>3. ASSUME NEW j \in DOMAIN group.members, Reaches(j, c, k)
      PROVE  /\ TreeAt(c, k)' = group.members[j].req.tree
             /\ \A i \in DOMAIN group.members : group.members[i].req.pkg = k => i = j
  <2>1. TreeAt(c, k)' = group.members[j].req.tree  BY <1>2, <1>3, NewTrees
  <2>2. Binds(group.members, j)  BY MemberFacts
  <2>3. ASSUME NEW i \in DOMAIN group.members, group.members[i].req.pkg = k PROVE i = j
    BY <1>3, <2>2, <2>3 DEF Binds, Reaches
  <2> QED  BY <2>1, <2>3
<1>4. ASSUME \A j \in DOMAIN group.members : ~Reaches(j, c, k)
      PROVE  \E b \in MainCommits : TreeAt(c, k)' = TreeAt(b, k) /\ b <= c /\ (b = c \/ b = Len(main))
  <2>1. TreeAt(c, k)' = TreeAt(IF c <= Len(main) THEN c ELSE Len(main), k)
    BY <1>2, <1>4, NewTrees
  <2>2. CASE c <= Len(main)
    <3>1. c \in MainCommits  BY <1>1, <1>2, <2>2 DEF MainCommits
    <3> QED  BY <1>1, <1>2, <2>1, <2>2, <3>1
  <2>3. CASE ~(c <= Len(main))
    <3>1. Len(main) \in MainCommits  BY <1>1 DEF MainCommits
    <3>2. Len(main) <= c  BY <1>1, <1>2, <2>3
    <3> QED  BY <2>1, <2>3, <3>1, <3>2
  <2> QED  BY <2>2, <2>3
<1> QED  BY <1>2, <1>3, <1>4

\* The request that a new commit merges.
LEMMA NewMerge ==
  ASSUME LadderTypeOK, LadderTypeOK', History, RequestsInv, MainInv, GroupInv, NEW pkgs, Lands(pkgs),
         NEW c \in MainCommits', c > Len(main)
  PROVE  \E i \in DOMAIN group.members :
           /\ c = Len(main) + i /\ main'[c].pr = group.members[i].pr
           /\ \A k \in Pkgs : Releases(main[c].pr, k)' <=>
                group.members[i].req.pkg = k /\ group.members[i].req.kind # "build"
<1> DEFINE i == c - Len(main)
<1>1. Len(main) \in Nat /\ Len(group.members) \in Nat /\ DOMAIN group.members = 1 .. Len(group.members)
  BY MembersType DEF LadderTypeOK
<1>2. c \in 1 .. Len(main) + Len(group.members)  BY LandMain DEF MainCommits
<1>3. i \in DOMAIN group.members /\ c = Len(main) + i  BY <1>1, <1>2
<1> HIDE DEF i
<1>4. main'[Len(main) + i] = NewCommit(i)  BY <1>3, LandMain
<1>5. main'[c].pr = group.members[i].pr  BY <1>3, <1>4 DEF NewCommit
<1>6. /\ prs'[group.members[i].pr].pkg = group.members[i].req.pkg
      /\ prs'[group.members[i].pr].kind = group.members[i].req.kind
  BY <1>3, MemberFacts
<1>7. \A k \in Pkgs : Releases(main[c].pr, k)' <=>
        group.members[i].req.pkg = k /\ group.members[i].req.kind # "build"
  BY <1>5, <1>6 DEF Releases
<1> QED  BY <1>3, <1>5, <1>7

LEMMA LandMerges ==
  ASSUME LadderTypeOK, LadderTypeOK', History, RequestsInv, MainInv, GroupInv, NEW pkgs, Lands(pkgs),
         NEW c \in 2 .. Len(main')
  PROVE  MergeOf(c)'
<1>1. Len(main) \in Nat /\ Len(main) >= 1 /\ Len(main') \in Nat  BY DEF LadderTypeOK
<1>2. CASE c <= Len(main)
  <2>1. c \in 2 .. Len(main)  BY <1>1, <1>2
  <2> QED  BY <2>1, OldMain
<1>3. CASE c > Len(main)
  <2>1. c \in MainCommits'  BY <1>1 DEF MainCommits
  <2>2. PICK i \in DOMAIN group.members : c = Len(main) + i /\ main'[c].pr = group.members[i].pr
    BY <1>3, <2>1, NewMerge
  <2>3. PICK p, req : p = group.members[i].pr /\ req = group.members[i].req  OBVIOUS
  <2>4. /\ p \in PRs /\ req.pkg \in Pkgs
        /\ req.kind = "gate" => req.tree.v \in seen[req.pkg].has
        /\ prs'[p].state = "merged" /\ prs'[p].run = "green" /\ prs'[p].pkg = req.pkg
        /\ prs'[p].kind = req.kind /\ prs'[p].tree = req.tree
    BY <2>3, MemberFacts
  <2>5. c \in 1 .. Len(main) + Len(group.members)  BY <2>1, LandMain DEF MainCommits
  <2>6. Reaches(i, c, req.pkg)
    <3>1. Len(main) + i <= c  BY <1>1, <2>2, MembersType
    <3> QED  BY <2>3, <3>1 DEF Reaches
  <2>7. TreeAt(c, req.pkg)' = req.tree  BY <2>3, <2>4, <2>5, <2>6, NewTrees
  <2>8. seen' = seen  BY DEF Lands
  <2>9. main'[c].pr = p /\ main'[c].trees[req.pkg] = req.tree  BY <2>2, <2>3, <2>7 DEF TreeAt
  <2> QED  BY <2>4, <2>8, <2>9 DEF MergeOf, Merged, TreeAt
<1> QED  BY <1>1, <1>2, <1>3

\* A member's version against the tip's.
LEMMA Rises ==
  ASSUME LadderTypeOK, RequestsInv, MainInv, GroupInv, NEW pkgs, Lands(pkgs),
         NEW j \in DOMAIN group.members, NEW b \in MainCommits
  PROVE  LET req == group.members[j].req
             k == req.pkg
         IN /\ TreeAt(b, k).edits \subseteq req.tree.edits /\ TreeAt(b, k).edits # req.tree.edits
            /\ Bumped => TreeAt(b, k).v <= req.tree.v
            /\ Bumped /\ req.kind # "build" => TreeAt(b, k).v < req.tree.v
            /\ req.kind = "build" => req.tree.v = TreeAt(Len(main), k).v
<1> DEFINE p == group.members[j].pr
           req == group.members[j].req
           k == req.pkg
           tip == TreeAt(Len(main), k)
<1>1. /\ req.base = tip /\ req.tree.edits = tip.edits \cup {<<p, req.head>>}
      /\ <<p, req.head>> \notin TreeAt(b, k).edits
  BY Based
<1>2. k \in Pkgs /\ Requested(p) /\ prs[p] = req /\ p \in PRs  BY MemberFacts
<1>3. Len(main) \in MainCommits /\ b \in 1 .. Len(main)  BY TipType DEF MainCommits
<1>4. InOrder(b, Len(main), k)  BY <1>2, <1>3 DEF MainInv
<1>5. TreeAt(b, k).edits \subseteq tip.edits /\ (Bumped => TreeAt(b, k).v <= tip.v)
  BY <1>4 DEF InOrder
<1>6. /\ req.kind = "build" => req.tree.v = tip.v
      /\ Bumped /\ req.kind # "build" => req.tree.v > tip.v
  BY <1>1, <1>2 DEF Requested
<1>7. TreeAt(b, k).v \in Nat /\ tip.v \in Nat  BY <1>2, <1>3, TipType DEF Tree
<1>8. req.tree.v \in Nat  BY <1>2 DEF LadderTypeOK, Request, Tree
<1>9. TreeAt(b, k).edits \subseteq req.tree.edits /\ TreeAt(b, k).edits # req.tree.edits
  BY <1>1, <1>5
<1> HIDE DEF tip, k, req
<1>10. /\ Bumped => TreeAt(b, k).v <= req.tree.v
       /\ Bumped /\ req.kind # "build" => TreeAt(b, k).v < req.tree.v
  BY <1>5, <1>6, <1>7, <1>8
<1> QED  BY <1>6, <1>9, <1>10 DEF tip, k, req

LEMMA LandOrder ==
  ASSUME LadderTypeOK, LadderTypeOK', History, RequestsInv, MainInv, GroupInv, NEW pkgs, Lands(pkgs),
         NEW k \in Pkgs, NEW c \in MainCommits', NEW b \in 1 .. c
  PROVE  InOrder(b, c, k)'
<1>0. Len(main) \in Nat /\ Len(main') \in Nat /\ c \in Nat /\ b \in Nat /\ b \in MainCommits' /\ b <= c
  BY DEF LadderTypeOK, MainCommits
<1>1. PICK tb \in Tree, tc \in Tree : tb = TreeAt(b, k)' /\ tc = TreeAt(c, k)'
  <2>1. \A d \in MainCommits' : TreeAt(d, k)' \in Tree
    <3>1. \A d \in MainCommits' : main'[d] \in Commit  BY DEF LadderTypeOK, MainCommits
    <3> QED  BY <3>1 DEF TreeAt, Commit
  <2> QED  BY <1>0, <2>1
<1>2. ASSUME NEW j \in DOMAIN group.members, Reaches(j, c, k), tc = group.members[j].req.tree,
             \A i \in DOMAIN group.members : group.members[i].req.pkg = k => i = j
      PROVE  InOrder(b, c, k)'
  <2>1. group.members[j].req.pkg = k  BY <1>2 DEF Reaches
  <2>2. ASSUME b < c, Releases(main[c].pr, k)'
        PROVE  ~Reaches(j, b, k) /\ group.members[j].req.kind # "build"
    <3>1. c > Len(main)  BY <1>0, <1>2, MembersType DEF Reaches
    <3>2. PICK i \in DOMAIN group.members : /\ c = Len(main) + i
                                            /\ group.members[i].req.pkg = k
                                            /\ group.members[i].req.kind # "build"
      BY <2>2, <3>1, NewMerge
    <3>3. i = j  BY <1>2, <3>2
    <3> QED  BY <1>0, <2>2, <3>2, <3>3, MembersType DEF Reaches
  <2>3. CASE Reaches(j, b, k)
    <3>1. tb = group.members[j].req.tree  BY <1>1, <2>3, <1>0, Sources, NewTrees
    <3>2. tb = tc /\ tb.v \in Nat  BY <3>1, <1>2 DEF Tree
    <3> QED  BY <1>1, <2>2, <2>3, <3>2 DEF InOrder
  <2>4. CASE ~Reaches(j, b, k)
    <3>1. PICK d \in MainCommits : tb = TreeAt(d, k)
      <4>1. ASSUME NEW i \in DOMAIN group.members, Reaches(i, b, k) PROVE FALSE
        BY <1>2, <2>4, <4>1 DEF Reaches
      <4> QED  BY <1>0, <1>1, <4>1, Sources
    <3>2. /\ TreeAt(d, k).edits \subseteq tc.edits /\ TreeAt(d, k).edits # tc.edits
          /\ Bumped => TreeAt(d, k).v <= tc.v
          /\ Bumped /\ group.members[j].req.kind # "build" => TreeAt(d, k).v < tc.v
      BY <1>2, <2>1, Rises
    <3> QED  BY <1>1, <2>2, <3>1, <3>2 DEF InOrder
  <2> QED  BY <2>3, <2>4
<1>3. ASSUME NEW d \in MainCommits, tc = TreeAt(d, k), d <= c, d = c \/ d = Len(main),
             \A j \in DOMAIN group.members : ~Reaches(j, c, k)
      PROVE  InOrder(b, c, k)'
  <2>0. d \in 1 .. Len(main) /\ d \in Nat  BY <1>0 DEF MainCommits
  <2>1. PICK f \in MainCommits : tb = TreeAt(f, k) /\ f <= b /\ (f = b \/ f = Len(main))
    <3>1. ASSUME NEW j \in DOMAIN group.members PROVE ~Reaches(j, b, k)
      BY <1>0, <1>3, MembersType DEF Reaches
    <3> QED  BY <1>0, <1>1, <3>1, Sources
  <2>2. f \in 1 .. d
    <3>1. f \in 1 .. Len(main)  BY <2>1 DEF MainCommits
    <3> QED  BY <1>0, <1>3, <2>0, <2>1, <3>1
  <2>3. InOrder(f, d, k)  BY <2>2 DEF MainInv
  <2>4. /\ tb.edits \subseteq tc.edits /\ (tb.edits = tc.edits => tb = tc)
        /\ Bumped => tb.v <= tc.v
    BY <1>3, <2>1, <2>3 DEF InOrder
  <2>5. ASSUME b < c, Releases(main[c].pr, k)', Bumped PROVE tb.v < tc.v
    <3>1. CASE c > Len(main)
      <4>1. PICK i \in DOMAIN group.members : /\ c = Len(main) + i
                                              /\ group.members[i].req.pkg = k
        BY <2>5, <3>1, NewMerge
      <4>2. Reaches(i, c, k)  BY <1>0, <4>1, MembersType DEF Reaches
      <4> QED  BY <1>3, <4>2
    <3>2. CASE c <= Len(main)
      <4>1. c \in 2 .. Len(main) /\ c \in MainCommits  BY <1>0, <2>5, <3>2 DEF MainCommits
      <4>2. Releases(main[c].pr, k)  BY <2>5, <4>1, Past
      <4>3. InOrder(b, c, k) /\ b \in MainCommits  BY <1>0, <2>5, <4>1 DEF MainInv, MainCommits
      <4>4. TreeAt(b, k).v < TreeAt(c, k).v  BY <2>5, <4>2, <4>3 DEF InOrder
      <4> QED  BY <1>1, <4>1, <4>3, <4>4, PastTrees
    <3> QED  BY <1>0, <3>1, <3>2
  <2> QED  BY <1>1, <2>4, <2>5 DEF InOrder
<1> QED  BY <1>1, <1>2, <1>3, Sources

LEMMA LandEdits ==
  ASSUME LadderTypeOK, LadderTypeOK', History, RequestsInv, MainInv, GroupInv, NEW pkgs, Lands(pkgs),
         NEW k \in Pkgs, NEW c \in MainCommits', NEW e \in TreeAt(c, k)'.edits
  PROVE  Merged(e[1])'
<1>1. ASSUME NEW b \in MainCommits, e \in TreeAt(b, k).edits PROVE Merged(e[1])'
  <2>1. Merged(e[1])  BY <1>1 DEF MainInv
  <2> QED  BY <2>1 DEF Merged, History, Settled
<1>2. ASSUME NEW j \in DOMAIN group.members, group.members[j].req.pkg = k,
             TreeAt(c, k)' = group.members[j].req.tree
      PROVE  Merged(e[1])'
  <2>1. PICK p, req : /\ p = group.members[j].pr /\ req = group.members[j].req
                      /\ p \in PRs /\ prs'[p].state = "merged"
    BY MemberFacts
  <2>2. req.tree.edits = TreeAt(Len(main), k).edits \cup {<<p, req.head>>}
    BY <1>2, <2>1, Based
  <2>3. e \in req.tree.edits  BY <1>2, <2>1
  <2>4. CASE e \in TreeAt(Len(main), k).edits
    <3>1. Len(main) \in MainCommits  BY TipType
    <3> QED  BY <1>1, <2>4, <3>1
  <2>5. CASE e = <<p, req.head>>
    <3>1. e[1] = p  BY <2>5
    <3> QED  BY <2>1, <3>1 DEF Merged
  <2> QED  BY <2>2, <2>3, <2>4, <2>5
<1> QED  BY <1>1, <1>2, Sources DEF Reaches

LEMMA LandVersions ==
  ASSUME LadderTypeOK, LadderTypeOK', History, RequestsInv, MainInv, GroupInv, NEW pkgs, Lands(pkgs),
         NEW k \in Pkgs, NEW c \in MainCommits', TreeAt(c, k)'.v # 1
  PROVE  \E b \in 2 .. c : Releases(main[b].pr, k)'
<1>0. Len(main) \in Nat /\ Len(main) >= 1 /\ Len(main') \in Nat /\ c \in Nat /\ Len(main) \in MainCommits
  BY DEF LadderTypeOK, MainCommits
<1>1. ASSUME NEW d \in MainCommits, d <= c, TreeAt(d, k).v # 1
      PROVE  \E b \in 2 .. c : Releases(main[b].pr, k)'
  <2>1. PICK b \in 2 .. d : Releases(main[b].pr, k)  BY <1>1 DEF MainInv
  <2>2. d \in Nat /\ d <= Len(main)  BY <1>0 DEF MainCommits
  <2>3. b \in 2 .. Len(main) /\ b \in 2 .. c  BY <1>0, <1>1, <2>2
  <2>4. Releases(main[b].pr, k)'  BY <2>1, <2>3, Past
  <2> QED  BY <2>3, <2>4
<1>2. ASSUME NEW j \in DOMAIN group.members, Reaches(j, c, k),
             TreeAt(c, k)' = group.members[j].req.tree
      PROVE  \E b \in 2 .. c : Releases(main[b].pr, k)'
  <2>1. group.members[j].req.pkg = k /\ Len(main) + j <= c /\ j \in Nat /\ j >= 1
    BY <1>2, MembersType DEF Reaches
  <2>2. CASE group.members[j].req.kind = "build"
    <3>1. TreeAt(Len(main), k).v # 1  BY <1>0, <1>2, <2>1, <2>2, Rises
    <3>2. Len(main) <= c  BY <1>0, <2>1
    <3> QED  BY <1>0, <1>1, <3>1, <3>2
  <2>3. CASE group.members[j].req.kind # "build"
    <3>1. PICK b : b = Len(main) + j  OBVIOUS
    <3>2. b \in 2 .. c /\ b \in MainCommits' /\ b > Len(main)
      <4>1. c \in 1 .. Len(main')  BY DEF MainCommits
      <4> QED  BY <1>0, <2>1, <3>1, <4>1 DEF MainCommits
    <3>3. PICK i \in DOMAIN group.members :
            /\ b = Len(main) + i
            /\ Releases(main[b].pr, k)' <=>
                 group.members[i].req.pkg = k /\ group.members[i].req.kind # "build"
      BY <3>2, NewMerge
    <3>4. i = j  BY <1>0, <2>1, <3>1, <3>3, MembersType
    <3> QED  BY <2>1, <2>3, <3>2, <3>3, <3>4
  <2> QED  BY <2>2, <2>3
<1> QED  BY <1>1, <1>2, Sources

LEMMA MainStep ==
  ASSUME LadderTypeOK, LadderTypeOK', History, RequestsInv, MainInv, GroupInv, LegsInv, [LadderNext]_ladderVars
  PROVE  MainInv'
<1>1. ASSUME NEW pkgs, Lands(pkgs) PROVE MainInv'
  <2>1. \A k \in Pkgs : TreeAt(1, k)' = Root  BY OldMain
  <2>2. \A c \in 2 .. Len(main') : MergeOf(c)'  BY <1>1, LandMerges
  <2>3. \A k \in Pkgs : \A c \in MainCommits' : \A b \in 1 .. c : InOrder(b, c, k)'
    BY <1>1, LandOrder
  <2>4. \A k \in Pkgs : \A c \in MainCommits' : \A e \in TreeAt(c, k)'.edits : Merged(e[1])'
    BY <1>1, LandEdits
  <2>5. \A k \in Pkgs : \A c \in MainCommits' :
          TreeAt(c, k)'.v # 1 => \E b \in 2 .. c : Releases(main[b].pr, k)'
    BY <1>1, LandVersions
  <2> QED  BY <2>1, <2>2, <2>3, <2>4, <2>5 DEF MainInv
<1>2. ASSUME main' = main PROVE MainInv'
  <2>1. MainCommits' = MainCommits /\ Len(main') = Len(main)  BY <1>2 DEF MainCommits
  <2> QED  BY <2>1, OldMain DEF MainInv
<1>3. CASE Land  BY <1>1, <1>2, <1>3, LandFacts
<1>4. ASSUME NEW p \in PRs, Push(p) \/ RunEnds(p) \/ Expire(p) PROVE MainInv'
  BY <1>2, <1>4 DEF Push, RunEnds, Expire
<1>5. CASE FormGroup \/ CheckGroup \/ UNCHANGED ladderVars
  BY <1>2, <1>5 DEF FormGroup, CheckGroup, ladderVars
<1>6. ASSUME NEW k \in Pkgs, Dispatch(k) \/ Serve(k) PROVE MainInv'
  BY <1>2, <1>6 DEF Dispatch, Serve
<1>7. ASSUME NEW i \in DOMAIN legs, Leg(i) \/ Rerun(i) \/ LegFails(i) PROVE MainInv'
  BY <1>2, <1>7, LegSteps DEF Others, Takes
<1> QED  BY <1>3, <1>4, <1>5, <1>6, <1>7 DEF LadderNext

-----------------------------------------------------------------------------
(* The group, the registry and what npm has *)

LEMMA SameBinds ==
  ASSUME main' = main, NEW ms, NEW i
  PROVE  Binds(ms, i)' <=> Binds(ms, i)
<1>1. \A j : After(ms, j)' = After(ms, j)  BY DEF After, Tip
<1> QED  BY <1>1 DEF Binds

\* A step that leaves main and the group alone, and no member's request.
LEMMA SameGroup ==
  ASSUME LadderTypeOK, LadderTypeOK', History, GroupInv, main' = main, group' = group,
         \A i \in DOMAIN group.members : Joined(group.members[i])'
  PROVE  GroupInv'
<1>1. ASSUME group.passed, NEW i \in DOMAIN group.members
      PROVE  /\ Binds(group.members, i)'
             /\ group.members[i].req.kind = "gate" =>
                  group.members[i].req.tree.v \in seen'[group.members[i].req.pkg].has
  <2>1. PICK ms : ms = group.members  OBVIOUS
  <2>2. Binds(ms, i)'  BY <1>1, <2>1, SameBinds DEF GroupInv
  <2>3. group.members[i].req.pkg \in Pkgs  BY DEF GroupInv, Joined
  <2>4. seen[group.members[i].req.pkg].has \subseteq seen'[group.members[i].req.pkg].has
    BY <2>3 DEF History, Grows
  <2>5. ms = group'.members  BY <2>1
  <2>6. Binds(group.members, i)'  BY <2>2, <2>5
  <2> QED  BY <1>1, <2>4, <2>6 DEF GroupInv
<1> QED  BY <1>1 DEF GroupInv

LEMMA JoinedKeeps ==
  ASSUME NEW m \in Member, Joined(m), prs'[m.pr] = prs[m.pr]
  PROVE  Joined(m)'
BY DEF Joined

LEMMA StillJoined ==
  ASSUME LadderTypeOK, LadderTypeOK', History, GroupInv, main' = main, group' = group,
         \A i \in DOMAIN group.members :
           prs'[group.members[i].pr] = prs[group.members[i].pr]
  PROVE  GroupInv'
<1>1. ASSUME NEW i \in DOMAIN group.members PROVE Joined(group.members[i])'
  <2>1. PICK m \in Member : m = group.members[i]  BY MembersType
  <2>2. Joined(m)  BY <2>1 DEF GroupInv
  <2>3. Joined(m)'  BY <2>1, <2>2, JoinedKeeps
  <2> QED  BY <2>1, <2>3
<1> QED  BY <1>1, SameGroup

LEMMA FormGroupInv ==
  ASSUME LadderTypeOK, LadderTypeOK', RequestsInv, FormGroup
  PROVE  GroupInv'
<1>1. /\ group'.passed = FALSE /\ prs' = prs
      /\ \A i \in DOMAIN group'.members :
           LET m == group'.members[i] IN
           m.pr \in PRs /\ m.req = prs[m.pr] /\ m.req.state = "open" /\ m.req.run = "green"
  <2> DEFINE ms == group'.members
  <2>1. group' = [members |-> ms, passed |-> FALSE]  BY FormFacts
  <2> HIDE DEF ms
  <2>2. group'.passed = FALSE  BY <2>1
  <2> QED  BY <2>2, FormFacts
<1>2. ASSUME NEW i \in DOMAIN group'.members PROVE Joined(group.members[i])'
  <2>1. PICK m : m = group'.members[i]  OBVIOUS
  <2>2. m.pr \in PRs /\ m.req = prs[m.pr] /\ m.req.state = "open" /\ m.req.run = "green"
    BY <1>1, <2>1
  <2>3. m.req \in Request  BY <2>2 DEF LadderTypeOK
  <2>4. m.req.head \in Nat  BY <2>3 DEF Request
  <2>5. m.req.pkg \in Pkgs  BY <2>2 DEF RequestsInv, Requested
  <2>6. Joined(m)'  BY <1>1, <2>2, <2>4, <2>5 DEF Joined
  <2> QED  BY <2>1, <2>6
<1> QED  BY <1>1, <1>2 DEF GroupInv

LEMMA EmptyGroupInv ==
  ASSUME group' = NoGroup PROVE GroupInv'
BY DEF GroupInv, NoGroup

LEMMA CheckGroupInv ==
  ASSUME LadderTypeOK, LadderTypeOK', RequestsInv, GroupInv, CheckGroup
  PROVE  GroupInv'
<1>1. CASE group' = NoGroup  BY <1>1, EmptyGroupInv
<1>2. CASE group' # NoGroup
  <2> DEFINE ms == group.members
  <2>1. /\ \A i \in DOMAIN ms : Unmoved(ms[i]) /\ Binds(ms, i) /\ WouldPublish(ms, i)
        /\ group' = [group EXCEPT !.passed = TRUE]
    BY <1>2 DEF CheckGroup
  <2>2. UNCHANGED <<prs, main, seen>>  BY DEF CheckGroup
  <2>3. group'.members = ms  BY <2>1 DEF LadderTypeOK
  <2>4. ASSUME NEW i \in DOMAIN ms PROVE Joined(ms[i])'
    <3>1. PICK m \in Member : m = ms[i]  BY MembersType
    <3>2. Joined(m)'  BY <2>2, <3>1, JoinedKeeps DEF GroupInv
    <3> QED  BY <2>3, <3>1, <3>2
  <2>5. ASSUME NEW i \in DOMAIN ms PROVE Binds(ms, i)'
    <3>1. PICK r : r = ms  OBVIOUS
    <3>2. Binds(r, i)'  BY <2>1, <2>2, <3>1, SameBinds
    <3> QED  BY <2>3, <3>1, <3>2
  <2>6. ASSUME NEW i \in DOMAIN ms, ms[i].req.kind = "gate"
        PROVE  ms[i].req.tree.v \in seen[ms[i].req.pkg].has
    <3>1. i \in 1 .. i /\ i \in 0 .. Len(ms) /\ ms \in Seq(Member)  BY MembersType
    <3>2. Joined(ms[i]) /\ Unmoved(ms[i]) /\ WouldPublish(ms, i)  BY <2>1 DEF GroupInv
    <3>3. prs[ms[i].pr] = ms[i].req /\ ms[i].req.pkg \in Pkgs
      BY <3>2 DEF Joined, Unmoved
    <3>4. After(ms, i)[ms[i].req.pkg] = ms[i].req.tree
      <4> HIDE DEF ms
      <4> QED  BY <2>1, <3>1, <3>3, AfterBound
    <3>5. Resolved(ms[i].req.pkg, ms[i].req.tree.v, ms[i].pr) # "refused"
      BY <2>6, <3>2, <3>4 DEF WouldPublish
    <3> QED  BY <2>6, <3>3, <3>5 DEF Resolved
  <2> QED  BY <2>2, <2>3, <2>4, <2>5, <2>6 DEF GroupInv
<1> QED  BY <1>1, <1>2

LEMMA PushGroupInv ==
  ASSUME LadderTypeOK, LadderTypeOK', History, GroupInv, NEW p \in PRs, Push(p)
  PROVE  GroupInv'
<1>1. /\ prs'[p].state = "open" /\ prs'[p].head = prs[p].head + 1
      /\ \A q \in PRs : q # p => prs'[q] = prs[q]
      /\ main' = main /\ group' = group
  <2>1. PICK k \in Pkgs, kind \in Kinds, v \in Nat, base \in Tree :
          /\ prs' = [prs EXCEPT ![p] = Pushed(p, k, kind, v, base)]
          /\ main' = main /\ group' = group
    BY PushFacts
  <2>2. prs \in [PRs -> Request]  BY DEF LadderTypeOK
  <2>3. prs'[p] = Pushed(p, k, kind, v, base)  BY <2>1, <2>2
  <2> QED  BY <2>1, <2>2, <2>3 DEF Pushed
<1>2. ASSUME NEW i \in DOMAIN group.members PROVE Joined(group.members[i])'
  <2>1. PICK m \in Member : m = group.members[i]  BY MembersType
  <2>2. Joined(m) /\ m.pr \in PRs  BY <2>1 DEF GroupInv, Member
  <2>3. CASE m.pr # p  BY <1>1, <2>1, <2>2, <2>3, JoinedKeeps
  <2>4. CASE m.pr = p
    <3>1. prs[p].head \in Nat /\ m.req.head \in Nat  BY <2>1 DEF LadderTypeOK, Request, Member
    <3>2. prs'[p].head > m.req.head  BY <1>1, <2>2, <2>4, <3>1 DEF Joined
    <3>3. prs'[p].head >= m.req.head /\ prs'[p].head # m.req.head  BY <1>1, <3>1, <3>2
    <3>4. Joined(m)'  BY <1>1, <2>2, <2>4, <3>3 DEF Joined
    <3> QED  BY <1>1, <2>1, <3>4
  <2> QED  BY <1>1, <2>1, <2>3, <2>4
<1> QED  BY <1>1, <1>2, SameGroup

LEMMA RunGroupInv ==
  ASSUME LadderTypeOK, LadderTypeOK', History, GroupInv, NEW p \in PRs, RunEnds(p)
  PROVE  GroupInv'
<1>1. /\ prs[p].run = "running" /\ main' = main /\ group' = group
      /\ prs' = [prs EXCEPT ![p].run = "green"]
  BY DEF RunEnds
<1>2. prs[p] \in Request /\ prs \in [PRs -> Request]  BY DEF LadderTypeOK
<1>3. /\ prs'[p].state = prs[p].state /\ prs'[p].head = prs[p].head
      /\ \A q \in PRs : q # p => prs'[q] = prs[q]
  BY <1>1, <1>2 DEF Request
<1>4. ASSUME NEW i \in DOMAIN group.members PROVE Joined(group.members[i])'
  <2>1. PICK m \in Member : m = group.members[i]  BY MembersType
  <2>2. Joined(m) /\ m.pr \in PRs  BY <2>1 DEF GroupInv, Member
  <2>3. CASE m.pr # p  BY <1>1, <1>3, <2>1, <2>2, <2>3, JoinedKeeps
  <2>4. CASE m.pr = p
    <3>1. prs[p].head # m.req.head  BY <1>1, <2>2, <2>4 DEF Joined
    <3>2. Joined(m)'  BY <1>3, <2>2, <2>4, <3>1 DEF Joined
    <3> QED  BY <1>1, <2>1, <3>2
  <2> QED  BY <1>1, <2>1, <2>3, <2>4
<1> QED  BY <1>1, <1>4, SameGroup

LEMMA GroupStep ==
  ASSUME LadderTypeOK, LadderTypeOK', History, RequestsInv, GroupInv, LegsInv, [LadderNext]_ladderVars
  PROVE  GroupInv'
<1>1. ASSUME NEW p \in PRs, Push(p) PROVE GroupInv'  BY <1>1, PushGroupInv
<1>2. ASSUME NEW p \in PRs, RunEnds(p) PROVE GroupInv'  BY <1>2, RunGroupInv
<1>3. ASSUME NEW p \in PRs, Expire(p) PROVE GroupInv'
  <2>1. prs[p].state = "merged" /\ main' = main /\ group' = group
        /\ prs' = [prs EXCEPT ![p].kept = FALSE]
    BY <1>3 DEF Expire
  <2>2. ASSUME NEW i \in DOMAIN group.members
        PROVE  prs'[group.members[i].pr] = prs[group.members[i].pr]
    <3>1. prs[group.members[i].pr].state = "open" /\ group.members[i].pr \in PRs
      BY MembersType DEF GroupInv, Joined, Member
    <3>2. prs \in [PRs -> Request]  BY DEF LadderTypeOK
    <3> QED  BY <2>1, <3>1, <3>2
  <2> QED  BY <2>1, <2>2, StillJoined
<1>4. CASE FormGroup  BY <1>4, FormGroupInv
<1>5. CASE CheckGroup  BY <1>5, CheckGroupInv
<1>6. CASE Land
  <2>1. group' = NoGroup  BY <1>6 DEF Land
  <2> QED  BY <2>1, EmptyGroupInv
<1>7. CASE UNCHANGED <<prs, main, group>>
  BY <1>7, StillJoined
<1>8. ASSUME NEW k \in Pkgs, Dispatch(k) \/ Serve(k) PROVE GroupInv'
  BY <1>7, <1>8 DEF Dispatch, Serve
<1>9. ASSUME NEW i \in DOMAIN legs, Leg(i) \/ Rerun(i) \/ LegFails(i) PROVE GroupInv'
  BY <1>7, <1>9, LegSteps DEF Others, Takes
<1>10. CASE UNCHANGED ladderVars  BY <1>7, <1>10 DEF ladderVars
<1> QED  BY <1>1, <1>2, <1>3, <1>4, <1>5, <1>6, <1>8, <1>9, <1>10 DEF LadderNext

LEMMA RegistryStep ==
  ASSUME LadderTypeOK, LadderTypeOK', History, RegistryInv, LegsInv, [LadderNext]_ladderVars
  PROVE  RegistryInv'
<1>1. CASE UNCHANGED <<npm, seen, late>>  BY <1>1 DEF RegistryInv
<1>2. ASSUME NEW i \in DOMAIN legs, Takes(i) PROVE RegistryInv'
  <2> DEFINE k == legs[i].pkg
             t == legs[i].bytes
             now == Tagged(npm[k], t)
  <2>1. k \in Pkgs /\ t \in Tree /\ late \in Nat  BY LegType DEF Job, LadderTypeOK
  <2>2. DOMAIN now.on = DOMAIN npm[k].on \cup {t.v} /\ now.latest = t.v
    <3> HIDE DEF k, t
    <3> QED  BY <2>1, TaggedType
  <2>3. /\ npm' = [npm EXCEPT ![k] = now]
        /\ \/ seen' = [seen EXCEPT ![k] = [has |-> DOMAIN now.on, latest |-> t.v]] /\ UNCHANGED late
           \/ late' = late + 1 /\ UNCHANGED seen
    BY <1>2 DEF Takes
  <2> HIDE DEF k, t, now
  <2>4. npm'[k] = now /\ \A h \in Pkgs : h # k => npm'[h] = npm[h]
    BY <2>1, <2>3 DEF LadderTypeOK
  <2>5. ASSUME NEW h \in Pkgs, h # k
        PROVE  /\ 1 \in seen'[h].has /\ seen'[h].has \subseteq DOMAIN npm'[h].on
               /\ seen'[h].latest \in DOMAIN npm'[h].on /\ npm'[h].latest \in DOMAIN npm'[h].on
               /\ late' = 0 => seen'[h].has = DOMAIN npm'[h].on /\ seen'[h].latest = npm'[h].latest
    <3>1. seen'[h] = seen[h] /\ (late' = 0 => late = 0)  BY <2>1, <2>3, <2>5 DEF LadderTypeOK
    <3> QED  BY <2>4, <2>5, <3>1 DEF RegistryInv
  <2>6. /\ 1 \in seen[k].has /\ seen[k].has \subseteq DOMAIN npm[k].on
        /\ seen[k].latest \in DOMAIN npm[k].on
    BY <2>1 DEF RegistryInv
  <2>7. /\ 1 \in seen'[k].has /\ seen'[k].has \subseteq DOMAIN now.on
        /\ seen'[k].latest \in DOMAIN now.on /\ now.latest \in DOMAIN now.on
        /\ late' = 0 => seen'[k].has = DOMAIN now.on /\ seen'[k].latest = now.latest
    <3>1. CASE seen' = [seen EXCEPT ![k] = [has |-> DOMAIN now.on, latest |-> t.v]]
      <4>1. seen'[k] = [has |-> DOMAIN now.on, latest |-> t.v]  BY <2>1, <3>1 DEF LadderTypeOK
      <4>2. seen'[k].has = DOMAIN now.on /\ seen'[k].latest = t.v  BY <4>1
      <4> QED  BY <2>2, <2>6, <4>2
    <3>2. CASE late' = late + 1 /\ UNCHANGED seen
      <4>1. late' # 0  BY <2>1, <3>2
      <4> QED  BY <2>2, <2>6, <3>2, <4>1
    <3> QED  BY <2>3, <3>1, <3>2
  <2> QED  BY <2>4, <2>5, <2>7 DEF RegistryInv
<1>3. ASSUME NEW k \in Pkgs, Serve(k) PROVE RegistryInv'
  <2> DEFINE x == [has |-> DOMAIN npm[k].on, latest |-> npm[k].latest]
  <2>1. seen' = [seen EXCEPT ![k] = x] /\ npm' = npm /\ late' = late  BY <1>3 DEF Serve
  <2>2. x.has = DOMAIN npm[k].on /\ x.latest = npm[k].latest  OBVIOUS
  <2> HIDE DEF x
  <2>3. seen'[k] = x /\ \A h \in Pkgs : h # k => seen'[h] = seen[h]  BY <2>1 DEF LadderTypeOK
  <2>4. npm[k].latest \in DOMAIN npm[k].on /\ 1 \in DOMAIN npm[k].on  BY DEF RegistryInv
  <2> QED  BY <2>1, <2>2, <2>3, <2>4 DEF RegistryInv
<1>4. ASSUME NEW p \in PRs, Push(p) \/ RunEnds(p) \/ Expire(p) PROVE RegistryInv'
  BY <1>1, <1>4 DEF Push, RunEnds, Expire
<1>5. CASE FormGroup \/ CheckGroup \/ Land  BY <1>1, <1>5 DEF FormGroup, CheckGroup, Land
<1>6. ASSUME NEW k \in Pkgs, Dispatch(k) PROVE RegistryInv'  BY <1>1, <1>6 DEF Dispatch
<1>7. ASSUME NEW i \in DOMAIN legs, Leg(i) \/ Rerun(i) \/ LegFails(i) PROVE RegistryInv'
  BY <1>1, <1>2, <1>7, LegSteps DEF Others
<1>8. CASE UNCHANGED ladderVars  BY <1>1, <1>8 DEF ladderVars
<1> QED  BY <1>3, <1>4, <1>5, <1>6, <1>7, <1>8 DEF LadderNext

\* Version v of package k with tree t: a release that main has.
Landed(k, v, t) ==
  \E c \in 2 .. Len(main) :
    /\ TreeAt(c, k) = t /\ t.v = v
    /\ Releases(main[c].pr, k) /\ prs[main[c].pr].kind = "release"
    /\ prs[main[c].pr].run = "green" /\ prs[main[c].pr].tree = t

LEMMA ShipsLanded ==
  ShipsWhatLanded <=> \A k \in Pkgs : \A v \in DOMAIN npm[k].on \ {1} : Landed(k, v, npm[k].on[v])
BY DEF ShipsWhatLanded, Landed, TreeAt, Releases

LEMMA LandedKeeps ==
  ASSUME LadderTypeOK, LadderTypeOK', MainInv, History, NEW k, NEW v, NEW t, Landed(k, v, t)
  PROVE  Landed(k, v, t)'
<1>1. PICK c \in 2 .. Len(main) :
        /\ TreeAt(c, k) = t /\ t.v = v
        /\ Releases(main[c].pr, k) /\ prs[main[c].pr].kind = "release"
        /\ prs[main[c].pr].run = "green" /\ prs[main[c].pr].tree = t
  BY DEF Landed
<1>2. /\ main'[c].pr = main[c].pr /\ Settled(main[c].pr) /\ c \in 2 .. Len(main')
      /\ Releases(main[c].pr, k)' /\ TreeAt(c, k)' = t
  BY <1>1, Past
<1>3. /\ prs'[main'[c].pr].kind = "release" /\ prs'[main'[c].pr].run = "green"
      /\ prs'[main'[c].pr].tree = t
  BY <1>1, <1>2 DEF Settled
<1> QED  BY <1>1, <1>2, <1>3 DEF Landed

\* The tarball that a job holds is of a release that it covers.
LEMMA Holds ==
  ASSUME LadderTypeOK, MainInv, NEW leg \in Job, LegInv(leg),
         leg.st \in {"resolved", "guarded", "recheck"}
  PROVE  /\ TouchingCommit(leg) \in 2 .. Len(main) /\ TouchingCommit(leg) \in Covers(leg)
         /\ Releases(main[TouchingCommit(leg)].pr, leg.pkg)
         /\ leg.bytes = TreeAt(TouchingCommit(leg), leg.pkg)
         /\ Landed(leg.pkg, leg.bytes.v, leg.bytes)
<1>1. PICK c : c = TouchingCommit(leg)  OBVIOUS
<1>2. /\ c \in Covers(leg) /\ prs[main[c].pr].kind = "release" /\ leg.bytes = TreeAt(c, leg.pkg)
      /\ 1 <= leg.base /\ leg.sha <= Len(main) /\ leg.base \in Nat /\ leg.sha \in Nat
      /\ Len(main) \in Nat
  BY <1>1 DEF LegInv, Job, LadderTypeOK
<1>3. c \in 2 .. Len(main) /\ Releases(main[c].pr, leg.pkg)  BY <1>2 DEF Covers
<1>4. MergeOf(c)  BY <1>3 DEF MainInv
<1>5. prs[main[c].pr].run = "green" /\ prs[main[c].pr].tree = leg.bytes
  BY <1>2, <1>3, <1>4 DEF MergeOf, Releases
<1> QED  BY <1>1, <1>2, <1>3, <1>5 DEF Landed

LEMMA ShipsStep ==
  ASSUME LadderTypeOK, LadderTypeOK', History, MainInv, LegsInv, ShipsWhatLanded, [LadderNext]_ladderVars
  PROVE  ShipsWhatLanded'
<1>1. \A k \in Pkgs : \A v \in DOMAIN npm[k].on \ {1} : Landed(k, v, npm[k].on[v])
  BY ShipsLanded
<1>2. SUFFICES \A k \in Pkgs : \A v \in DOMAIN npm'[k].on \ {1} : Landed(k, v, npm[k].on[v])'
  BY DEF ShipsWhatLanded, Landed, TreeAt, Releases
<1>3. ASSUME NEW k \in Pkgs, NEW v \in DOMAIN npm[k].on \ {1} PROVE Landed(k, v, npm[k].on[v])'
  <2>1. PICK t : t = npm[k].on[v]  OBVIOUS
  <2>2. Landed(k, v, t)'  BY <1>1, <2>1, LandedKeeps
  <2>3. npm'[k].on[v] = t  BY <2>1 DEF History, Grows
  <2> QED  BY <2>2, <2>3
<1>4. CASE npm' = npm  BY <1>3, <1>4
<1>5. ASSUME NEW i \in DOMAIN legs, Takes(i), legs[i].st = "guarded",
             NEW k \in Pkgs, NEW v \in DOMAIN npm'[k].on \ {1}
      PROVE  Landed(k, v, npm[k].on[v])'
  <2>1. PICK leg \in Job : leg = legs[i]  BY LegType
  <2>2. LegInv(leg)  BY <2>1 DEF LegsInv
  <2>3. Landed(leg.pkg, leg.bytes.v, leg.bytes)'  BY <1>5, <2>1, <2>2, Holds, LandedKeeps
  <2>4. leg.pkg \in Pkgs /\ leg.bytes \in Tree  BY DEF Job
  <2>5. npm' = [npm EXCEPT ![leg.pkg] = Tagged(npm[leg.pkg], leg.bytes)]  BY <1>5, <2>1 DEF Takes
  <2>6. npm'[leg.pkg] = Tagged(npm[leg.pkg], leg.bytes) /\ \A h \in Pkgs : h # leg.pkg => npm'[h] = npm[h]
    BY <2>4, <2>5 DEF LadderTypeOK
  <2>7. CASE k = leg.pkg /\ v = leg.bytes.v
    <3>1. npm'[k].on[v] = leg.bytes  BY <2>4, <2>6, <2>7, TaggedType
    <3> QED  BY <2>3, <2>7, <3>1
  <2>8. CASE ~(k = leg.pkg /\ v = leg.bytes.v)
    <3>1. v \in DOMAIN npm[k].on
      <4>1. CASE k = leg.pkg
        <5>1. DOMAIN npm'[k].on = DOMAIN npm[k].on \cup {leg.bytes.v}  BY <2>4, <2>6, <4>1, TaggedType
        <5> QED  BY <2>8, <4>1, <5>1
      <4>2. CASE k # leg.pkg  BY <2>6, <4>2
      <4> QED  BY <4>1, <4>2
    <3> QED  BY <1>3, <3>1
  <2> QED  BY <2>7, <2>8
<1>6. ASSUME NEW p \in PRs, Push(p) \/ RunEnds(p) \/ Expire(p) PROVE npm' = npm
  BY <1>6 DEF Push, RunEnds, Expire
<1>7. CASE FormGroup \/ CheckGroup \/ Land
  BY <1>4, <1>7 DEF FormGroup, CheckGroup, Land
<1>8. ASSUME NEW k \in Pkgs, Dispatch(k) \/ Serve(k) PROVE npm' = npm
  BY <1>8 DEF Dispatch, Serve
<1>9. ASSUME NEW i \in DOMAIN legs, Leg(i) \/ Rerun(i) \/ LegFails(i)
      PROVE  (npm' = npm) \/ (Takes(i) /\ legs[i].st = "guarded")
  <2>1. CASE NpmPublish(i)  BY <2>1, PublishFacts DEF Others
  <2>2. CASE ~NpmPublish(i)
    BY <1>9, <2>2 DEF Leg, Arrive, StartLeg, Resolve, Guard, Recheck, Rerun, LegFails, Others
  <2> QED  BY <2>1, <2>2
<1>10. CASE UNCHANGED ladderVars  BY <1>4, <1>10 DEF ladderVars
<1> QED  BY <1>4, <1>5, <1>6, <1>7, <1>8, <1>9, <1>10 DEF LadderNext

-----------------------------------------------------------------------------
(* The jobs *)

Loaded(leg) == leg.st \in {"resolved", "guarded", "recheck"}
\* The tag is not above what a job is about to publish.
UnderTag(leg) == late = 0 /\ leg.st = "guarded" => leg.bytes.v >= npm[leg.pkg].latest

LEMMA JobRange ==
  ASSUME LadderTypeOK, NEW leg \in Job, LegInv(leg)
  PROVE  1 <= leg.base /\ leg.base <= leg.sha /\ leg.sha <= Len(main)
BY DEF LegInv

LEMMA LegStays ==
  ASSUME LadderTypeOK, LadderTypeOK', MainInv, History, NEW leg \in Job, LegInv(leg), UnderTag(leg)'
  PROVE  LegInv(leg)'
<1>1. 1 <= leg.base /\ leg.base <= leg.sha /\ leg.sha <= Len(main)  BY JobRange
<1>2. Covers(leg)' = Covers(leg) /\ TouchingCommit(leg)' = TouchingCommit(leg)
  BY <1>1, PastCovers
<1>3. leg.sha <= Len(main')
  <2>1. leg.sha \in Nat /\ Len(main) \in Nat /\ Len(main') \in Nat /\ Len(main') >= Len(main)
    BY DEF Job, LadderTypeOK, History
  <2> QED  BY <1>1, <2>1
<1>4. leg.base = 1 \/ Covers(leg)' # {}  BY <1>2 DEF LegInv
<1>5. ASSUME Loaded(leg), NEW c, c = TouchingCommit(leg)
      PROVE  /\ c \in Covers(leg)' /\ prs'[main'[c].pr].kind = "release"
             /\ leg.bytes = TreeAt(c, leg.pkg)'
  <2>1. c \in Covers(leg) /\ prs[main[c].pr].kind = "release" /\ leg.bytes = TreeAt(c, leg.pkg)
    BY <1>5 DEF LegInv, Loaded
  <2>2. c \in 2 .. Len(main)  BY <1>5, Holds DEF Loaded
  <2>3. main'[c].pr = main[c].pr /\ Settled(main[c].pr) /\ TreeAt(c, leg.pkg)' = TreeAt(c, leg.pkg)
    BY <2>2, Past
  <2> QED  BY <1>2, <2>1, <2>3 DEF Settled
<1>6. PICK c : c = TouchingCommit(leg)  OBVIOUS
<1>7. Loaded(leg) => /\ TouchingCommit(leg)' \in Covers(leg)'
                     /\ prs'[main'[TouchingCommit(leg)'].pr].kind = "release"
                     /\ leg.bytes = main'[TouchingCommit(leg)'].trees[leg.pkg]
  <2>1. TouchingCommit(leg)' = c  BY <1>2, <1>6
  <2> QED  BY <1>5, <1>6, <2>1 DEF TreeAt
<1> QED  BY <1>1, <1>3, <1>4, <1>7 DEF LegInv, UnderTag, Loaded, TreeAt

\* A job that holds no tarball.
LEMMA LegEmpty ==
  ASSUME LadderTypeOK, LadderTypeOK', MainInv, History, NEW old \in Job, LegInv(old), NEW leg \in Job,
         leg.pkg = old.pkg, leg.base = old.base, leg.sha = old.sha, ~Loaded(leg)
  PROVE  LegInv(leg)'
<1>1. 1 <= leg.base /\ leg.base <= leg.sha /\ leg.sha <= Len(main)  BY JobRange
<1>2. Covers(leg)' = Covers(old)
  <2>1. Covers(leg)' = Covers(leg)  BY <1>1, PastCovers
  <2> QED  BY <2>1 DEF Covers
<1>3. leg.sha <= Len(main')
  <2>1. leg.sha \in Nat /\ Len(main) \in Nat /\ Len(main') \in Nat /\ Len(main') >= Len(main)
    BY DEF Job, LadderTypeOK, History
  <2> QED  BY <1>1, <2>1
<1>4. leg.base = 1 \/ Covers(leg)' # {}  BY <1>2 DEF LegInv
<1> QED  BY <1>1, <1>3, <1>4 DEF LegInv, Loaded

\* A job that holds what its commits release.
LEMMA LegHolds ==
  ASSUME LadderTypeOK, LadderTypeOK', MainInv, History, NEW old \in Job, LegInv(old), NEW leg \in Job,
         leg.pkg = old.pkg, leg.base = old.base, leg.sha = old.sha,
         TouchingCommit(old) \in Covers(old), prs[main[TouchingCommit(old)].pr].kind = "release",
         leg.bytes = TreeAt(TouchingCommit(old), old.pkg), UnderTag(leg)'
  PROVE  LegInv(leg)'
<1>1. PICK c : c = TouchingCommit(old)  OBVIOUS
<1>2. 1 <= leg.base /\ leg.base <= leg.sha /\ leg.sha <= Len(main)  BY JobRange
<1>3. Covers(leg)' = Covers(leg) /\ TouchingCommit(leg)' = TouchingCommit(leg)
  BY <1>2, PastCovers
<1>4. Covers(leg) = Covers(old)  BY DEF Covers
<1>5. TouchingCommit(leg) = c
  <2>1. TouchingCommit(leg) = TouchingCommit(old)  BY DEF TouchingCommit
  <2> QED  BY <1>1, <2>1
<1>6. leg.base \in Nat /\ leg.sha \in Nat /\ Len(main) \in Nat /\ Len(main') \in Nat
      /\ Len(main') >= Len(main)
  BY DEF Job, LadderTypeOK, History
<1>7. c \in 2 .. Len(main)  BY <1>1, <1>2, <1>4, <1>6 DEF Covers
<1>8. main'[c].pr = main[c].pr /\ Settled(main[c].pr) /\ TreeAt(c, leg.pkg)' = TreeAt(c, leg.pkg)
  BY <1>7, Past
<1>9. prs'[main'[c].pr].kind = "release" /\ leg.bytes = main'[c].trees[leg.pkg]
  BY <1>1, <1>8 DEF Settled, TreeAt
<1>10. leg.sha <= Len(main')  BY <1>2, <1>6
<1>11. c \in Covers(leg)' /\ TouchingCommit(leg)' = c  BY <1>1, <1>3, <1>4, <1>5
<1> QED  BY <1>2, <1>9, <1>10, <1>11 DEF LegInv, UnderTag, TreeAt

\* A new job.
LEMMA LegNew ==
  ASSUME LadderTypeOK, LadderTypeOK', NEW k \in Pkgs, NEW base \in Nat, NEW sha \in Nat,
         1 <= base, base <= sha, sha <= Len(main'),
         NEW leg, leg = NewLeg(k, base, sha), base = 1 \/ Covers(leg)' # {}
  PROVE  LegInv(leg)'
<1>1. leg.base = base /\ leg.sha = sha /\ leg.st = "detect"  BY DEF NewLeg
<1> QED  BY <1>1 DEF LegInv

\* The jobs of a package keep apart: none of them starts beside another.
Apart == \A i, j \in DOMAIN legs :
  legs[i].pkg = legs[j].pkg /\ Active(legs[i]) /\ Active(legs[j]) => i = j

LEMMA LegsParts ==
  /\ LegsInv <=> (\A i \in DOMAIN legs : LegInv(legs[i])) /\ Apart
  /\ LegsInv' <=> (\A i \in DOMAIN legs' : LegInv(legs[i])') /\ Apart'
BY DEF LegsInv, Apart

LEMMA ApartKeeps ==
  ASSUME LadderTypeOK, LadderTypeOK', Apart,
         \A i \in DOMAIN legs' : Active(legs'[i]) =>
           i \in DOMAIN legs /\ legs'[i].pkg = legs[i].pkg /\ Active(legs[i])
  PROVE  Apart'
BY DEF Apart, Active

LEMMA OtherJob ==
  ASSUME LadderTypeOK, LadderTypeOK', MainInv, History, LegsInv, NEW j \in DOMAIN legs, legs'[j] = legs[j],
         legs[j].st = "guarded" => npm'[legs[j].pkg].latest = npm[legs[j].pkg].latest
  PROVE  LegInv(legs[j])'
<1>1. PICK leg \in Job : leg = legs[j]  BY LegType
<1>2. LegInv(leg)  BY <1>1 DEF LegsInv
<1>3. late' = 0 => late = 0  BY DEF History, LadderTypeOK
<1>4. UnderTag(leg)'  BY <1>1, <1>2, <1>3 DEF LegInv, UnderTag
<1>5. LegInv(leg)'  BY <1>2, <1>4, LegStays
<1> QED  BY <1>1, <1>5

LEMMA JobIn ==
  ASSUME LadderTypeOK, LadderTypeOK', LegsInv, NEW i \in DOMAIN legs, OneJob(i)
  PROVE  \E old \in Job, leg \in Job :
           /\ old = legs[i] /\ leg = legs'[i] /\ LegInv(old)
           /\ leg.pkg = old.pkg /\ leg.base = old.base /\ leg.sha = old.sha
<1>1. legs[i] \in Job /\ legs'[i] \in Job  BY DEF OneJob, LadderTypeOK
<1>2. LegInv(legs[i])  BY DEF LegsInv
<1> QED  BY <1>1, <1>2 DEF OneJob

LEMMA OneJobInv ==
  ASSUME LadderTypeOK, LadderTypeOK', MainInv, History, LegsInv, NEW i \in DOMAIN legs, OneJob(i),
         \A j \in DOMAIN legs : j # i /\ legs[j].st = "guarded" =>
           npm'[legs[j].pkg].latest = npm[legs[j].pkg].latest,
         LegInv(legs[i])', Active(legs'[i]) => Active(legs[i])
  PROVE  LegsInv'
<1>1. ASSUME NEW j \in DOMAIN legs' PROVE LegInv(legs[j])'
  <2>1. j \in DOMAIN legs  BY DEF OneJob
  <2>2. CASE j = i  BY <2>2
  <2>3. CASE j # i
    <3>1. legs'[j] = legs[j]  BY <2>1, <2>3 DEF OneJob
    <3> QED  BY <2>1, <2>3, <3>1, OtherJob
  <2> QED  BY <2>2, <2>3
<1>2. \A j \in DOMAIN legs' : Active(legs'[j]) =>
        j \in DOMAIN legs /\ legs'[j].pkg = legs[j].pkg /\ Active(legs[j])
  BY DEF OneJob
<1>3. Apart'  BY <1>2, ApartKeeps DEF LegsInv, Apart
<1> QED  BY <1>1, <1>3, LegsParts

\* A job that holds nothing any more, or not yet.
LEMMA EmptyJobInv ==
  ASSUME LadderTypeOK, LadderTypeOK', MainInv, History, LegsInv, NEW i \in DOMAIN legs, OneJob(i),
         \A j \in DOMAIN legs : j # i /\ legs[j].st = "guarded" =>
           npm'[legs[j].pkg].latest = npm[legs[j].pkg].latest,
         ~Loaded(legs'[i]), Active(legs'[i]) => Active(legs[i])
  PROVE  LegsInv'
<1>1. LegInv(legs[i])'
  <2>1. PICK old \in Job, leg \in Job :
          /\ old = legs[i] /\ leg = legs'[i] /\ LegInv(old)
          /\ leg.pkg = old.pkg /\ leg.base = old.base /\ leg.sha = old.sha
    BY JobIn
  <2>2. ~Loaded(leg)  BY <2>1
  <2>3. LegInv(leg)'  BY <2>1, <2>2, LegEmpty
  <2> QED  BY <2>1, <2>3
<1> QED  BY <1>1, OneJobInv

\* A job that goes on with its tarball.
LEMMA LoadedJobInv ==
  ASSUME LadderTypeOK, LadderTypeOK', MainInv, History, LegsInv, NEW i \in DOMAIN legs, OneJob(i), npm' = npm,
         Loaded(legs[i]), legs'[i].bytes = legs[i].bytes,
         late' = 0 /\ legs'[i].st = "guarded" => legs[i].bytes.v >= npm[legs[i].pkg].latest
  PROVE  LegsInv'
<1>1. LegInv(legs[i])'
  <2>1. PICK old \in Job, leg \in Job :
          /\ old = legs[i] /\ leg = legs'[i] /\ LegInv(old)
          /\ leg.pkg = old.pkg /\ leg.base = old.base /\ leg.sha = old.sha
    BY JobIn
  <2>2. Loaded(old) /\ leg.bytes = old.bytes  BY <2>1
  <2>3. /\ TouchingCommit(old) \in Covers(old)
        /\ prs[main[TouchingCommit(old)].pr].kind = "release"
        /\ leg.bytes = TreeAt(TouchingCommit(old), old.pkg)
    BY <2>1, <2>2 DEF LegInv, Loaded
  <2>4. UnderTag(leg)'  BY <2>1, <2>2 DEF UnderTag
  <2>5. LegInv(leg)'  BY <2>1, <2>3, <2>4, LegHolds
  <2> QED  BY <2>1, <2>5
<1>2. Active(legs'[i]) => Active(legs[i])  BY DEF Active, Loaded
<1> QED  BY <1>1, <1>2, OneJobInv

LEMMA ResolveInv ==
  ASSUME LadderTypeOK, LadderTypeOK', MainInv, History, RegistryInv, LegsInv,
         NEW i \in DOMAIN legs, Resolve(i)
  PROVE  LegsInv'
<1>1. PICK old \in Job : old = legs[i]  BY LegType
<1>2. LegInv(old) /\ old.pkg \in Pkgs  BY <1>1 DEF LegsInv, Job
<1>3. PICK c : c = TouchingCommit(old)  OBVIOUS
<1>4. PICK p : p = main[c].pr  OBVIOUS
<1>5. PICK d : d = Resolved(old.pkg, TreeAt(c, old.pkg).v, p)  OBVIOUS
<1>6. /\ OneJob(i) /\ legs'[i].st = d
      /\ d = "resolved" => p \in PRs /\ legs'[i].bytes = prs[p].tree
  BY <1>1, <1>3, <1>4, <1>5, ResolveJob
<1>7. d \in {"skipped", "resolved", "refused"}  BY <1>5, Decisions
<1>8. Active(legs[i]) /\ npm' = npm  BY DEF Resolve, Active, Others
<1>9. CASE d # "resolved"
  <2>1. ~Loaded(legs'[i])  BY <1>6, <1>7, <1>9 DEF Loaded
  <2> QED  BY <1>6, <1>8, <2>1, EmptyJobInv
<1>10. CASE d = "resolved"
  <2>1. /\ TreeAt(c, old.pkg).v \notin seen[old.pkg].has /\ prs[p].kind # "gate"
        /\ prs[p].pkg = old.pkg /\ p # None
    BY <1>5, <1>10 DEF Resolved
  <2>2. 1 <= old.base /\ old.base <= old.sha /\ old.sha <= Len(main)  BY <1>2, JobRange
  <2>3. c \in MainCommits /\ (Covers(old) = {} => c = old.sha) /\ (Covers(old) # {} => c \in Covers(old))
    BY <1>3, <2>2, Touches
  <2>4. Covers(old) # {}
    <3> SUFFICES ASSUME Covers(old) = {} PROVE FALSE  OBVIOUS
    <3>1. old.base = 1 /\ c = old.sha  BY <1>2, <2>3 DEF LegInv
    <3>2. TreeAt(c, old.pkg).v # 1  BY <1>2, <2>1 DEF RegistryInv
    <3>3. PICK b \in 2 .. c : Releases(main[b].pr, old.pkg)
      BY <1>2, <2>3, <3>2 DEF MainInv
    <3>4. b \in old.base + 1 .. old.sha  BY <3>1
    <3> QED  BY <3>3, <3>4 DEF Covers
  <2>5. c \in Covers(old)  BY <2>3, <2>4
  <2>6. c \in 2 .. Len(main) /\ Releases(p, old.pkg)
    <3>1. old.base \in Nat /\ old.sha \in Nat /\ Len(main) \in Nat  BY DEF Job, LadderTypeOK
    <3> QED  BY <1>4, <2>2, <2>5, <3>1 DEF Covers
  <2>7. MergeOf(c)  BY <2>6 DEF MainInv
  <2>8. p \in PRs /\ prs[p].tree = TreeAt(c, old.pkg)
    BY <1>4, <1>6, <1>10, <2>1, <2>7 DEF MergeOf
  <2>9. prs[p].kind = "release"
    <3>1. prs[p].kind \in {"release", "build", "gate"}  BY <2>8 DEF LadderTypeOK, Request, Kinds
    <3> QED  BY <2>1, <2>6, <3>1 DEF Releases
  <2>10. LegInv(legs[i])'
    <3>1. PICK leg \in Job : leg = legs'[i] /\ leg.pkg = old.pkg /\ leg.base = old.base /\ leg.sha = old.sha
      BY <1>1, <1>6, JobIn
    <3>2. leg.bytes = TreeAt(c, old.pkg) /\ leg.st = "resolved"  BY <1>6, <1>10, <2>8, <3>1
    <3>3. UnderTag(leg)'  BY <3>2 DEF UnderTag
    <3>4. prs[main[c].pr].kind = "release"  BY <1>4, <2>9
    <3>5. LegInv(leg)'  BY <1>2, <1>3, <2>5, <3>1, <3>2, <3>3, <3>4, LegHolds
    <3> QED  BY <3>1, <3>5
  <2> QED  BY <1>6, <1>8, <2>10, OneJobInv
<1> QED  BY <1>9, <1>10

LEMMA GuardInv ==
  ASSUME LadderTypeOK, LadderTypeOK', MainInv, History, RegistryInv, LegsInv,
         NEW i \in DOMAIN legs, Guard(i)
  PROVE  LegsInv'
<1>1. PICK k, t : k = legs[i].pkg /\ t = legs[i].bytes  OBVIOUS
<1>2. PICK d : d = Certified(k, t)  OBVIOUS
<1>3. d \in {"skipped", "guarded", "refused"}  BY <1>2, Decisions
<1>4. Moves(i, d) /\ legs[i].st = "resolved" /\ npm' = npm /\ late' = late
  BY <1>1, <1>2 DEF Guard, Others
<1>5. OneJob(i) /\ legs'[i].st = d /\ (d = "guarded" => legs'[i].bytes = legs[i].bytes)
  BY <1>3, <1>4, JobMoves DEF Stages
<1>6. CASE d = "guarded"
  <2>1. k \in Pkgs /\ t \in Tree  BY <1>1, LegType DEF Job
  <2>2. ~(t.v < seen[k].latest)  BY <1>2, <1>6 DEF Certified
  <2>3. late = 0 => seen[k].latest = npm[k].latest  BY <2>1 DEF RegistryInv
  <2>4. t.v \in Nat /\ seen[k].latest \in Nat  BY <2>1, EntryType DEF Tree
  <2>5. late' = 0 => t.v >= npm[k].latest  BY <1>4, <2>2, <2>3, <2>4
  <2>6. Loaded(legs[i])  BY <1>4 DEF Loaded
  <2> QED  BY <1>1, <1>4, <1>5, <1>6, <2>5, <2>6, LoadedJobInv
<1>7. CASE d # "guarded"
  <2>1. ~Loaded(legs'[i]) /\ Active(legs[i])  BY <1>3, <1>4, <1>5, <1>7 DEF Loaded, Active
  <2> QED  BY <1>4, <1>5, <2>1, EmptyJobInv
<1> QED  BY <1>6, <1>7

LEMMA PublishInv ==
  ASSUME LadderTypeOK, LadderTypeOK', MainInv, History, LegsInv, NEW i \in DOMAIN legs, NpmPublish(i)
  PROVE  LegsInv'
<1>1. legs[i].st = "guarded" /\ OneJob(i) /\ Active(legs[i]) /\ Loaded(legs[i])
  BY PublishFacts DEF Active, Loaded
<1>2. CASE Others /\ legs'[i].st = "recheck" /\ legs'[i].bytes = legs[i].bytes
  BY <1>1, <1>2, LoadedJobInv DEF Others
<1>3. CASE Takes(i) /\ legs'[i].st \in {"published", "failed"}
  <2>1. ~Loaded(legs'[i])  BY <1>3 DEF Loaded
  <2>2. ASSUME NEW j \in DOMAIN legs, j # i, legs[j].st = "guarded"
        PROVE  npm'[legs[j].pkg].latest = npm[legs[j].pkg].latest
    <3>1. Active(legs[j])  BY <2>2 DEF Active
    <3>2. legs[j].pkg # legs[i].pkg  BY <1>1, <2>2, <3>1 DEF LegsInv
    <3>3. legs[j].pkg \in Pkgs  BY LegType DEF Job
    <3>4. PICK now : npm' = [npm EXCEPT ![legs[i].pkg] = now]  BY <1>3 DEF Takes
    <3>5. npm'[legs[j].pkg] = npm[legs[j].pkg]  BY <3>2, <3>3, <3>4 DEF LadderTypeOK
    <3> QED  BY <3>5
  <2> QED  BY <1>1, <2>1, <2>2, EmptyJobInv
<1> QED  BY <1>2, <1>3, PublishFacts

LEMMA StartLegInv ==
  ASSUME LadderTypeOK, LadderTypeOK', MainInv, History, LegsInv, NEW i \in DOMAIN legs, StartLeg(i)
  PROVE  LegsInv'
<1>1. /\ Moves(i, "running") /\ ~Busy(legs[i].pkg) /\ npm' = npm
  BY DEF StartLeg, Others
<1>2. OneJob(i) /\ legs'[i].st = "running"  BY <1>1, JobMoves DEF Stages
<1>3. ASSUME NEW j \in DOMAIN legs' PROVE LegInv(legs[j])'
  <2>1. j \in DOMAIN legs  BY <1>2 DEF OneJob
  <2>2. CASE j # i
    <3>1. legs'[j] = legs[j]  BY <1>2, <2>1, <2>2 DEF OneJob
    <3> QED  BY <1>1, <2>1, <3>1, OtherJob
  <2>3. CASE j = i
    <3>1. PICK old \in Job, leg \in Job :
            /\ old = legs[i] /\ leg = legs'[i] /\ LegInv(old)
            /\ leg.pkg = old.pkg /\ leg.base = old.base /\ leg.sha = old.sha
      BY <1>2, JobIn
    <3>2. LegInv(leg)'  BY <1>2, <3>1, LegEmpty DEF Loaded
    <3> QED  BY <2>3, <3>1, <3>2
  <2> QED  BY <2>2, <2>3
<1>4. Apart'
  <2> SUFFICES ASSUME NEW a \in DOMAIN legs', NEW b \in DOMAIN legs', a # b,
                      legs'[a].pkg = legs'[b].pkg, Active(legs'[a]), Active(legs'[b])
               PROVE  FALSE
    BY DEF Apart, Active
  <2>1. ASSUME NEW j \in DOMAIN legs, j # i, Active(legs'[j]), legs'[j].pkg = legs'[i].pkg
        PROVE  FALSE
    <3>1. legs'[j] = legs[j] /\ legs'[i].pkg = legs[i].pkg  BY <1>2, <2>1 DEF OneJob
    <3> QED  BY <1>1, <2>1, <3>1 DEF Busy, Active
  <2>2. a \in DOMAIN legs /\ b \in DOMAIN legs  BY <1>2 DEF OneJob
  <2>3. CASE a # i /\ b # i
    <3>1. legs'[a] = legs[a] /\ legs'[b] = legs[b]  BY <1>2, <2>2, <2>3 DEF OneJob
    <3> QED  BY <2>2, <3>1 DEF LegsInv
  <2> QED  BY <2>1, <2>2, <2>3
<1> QED  BY <1>3, <1>4, LegsParts

LEMMA ArriveInv ==
  ASSUME LadderTypeOK, LadderTypeOK', MainInv, History, LegsInv, NEW i \in DOMAIN legs, Arrive(i)
  PROVE  LegsInv'
<1>1. DOMAIN legs' = DOMAIN legs /\ npm' = npm  BY ArriveFacts DEF Others
<1>2. ASSUME NEW j \in DOMAIN legs
      PROVE  /\ legs'[j].pkg = legs[j].pkg /\ legs'[j].base = legs[j].base
             /\ legs'[j].sha = legs[j].sha
             /\ legs'[j] = legs[j] \/ legs'[j].st \in {"pending", "cancelled"}
  BY ArriveFacts
<1>3. ASSUME NEW j \in DOMAIN legs' PROVE LegInv(legs[j])'
  <2>1. CASE legs'[j] = legs[j]  BY <1>1, <2>1, OtherJob
  <2>2. CASE legs'[j].st \in {"pending", "cancelled"}
    <3>1. legs[j] \in Job /\ legs'[j] \in Job /\ LegInv(legs[j])  BY <1>1 DEF LadderTypeOK, LegsInv
    <3>2. PICK old \in Job, leg \in Job :
            /\ old = legs[j] /\ leg = legs'[j] /\ LegInv(old)
            /\ leg.pkg = old.pkg /\ leg.base = old.base /\ leg.sha = old.sha
      BY <1>1, <1>2, <3>1
    <3>3. LegInv(leg)'  BY <2>2, <3>2, LegEmpty DEF Loaded
    <3> QED  BY <3>2, <3>3
  <2> QED  BY <1>1, <1>2, <2>1, <2>2
<1>4. ASSUME NEW j \in DOMAIN legs', Active(legs'[j])
      PROVE  j \in DOMAIN legs /\ legs'[j].pkg = legs[j].pkg /\ Active(legs[j])
  <2>1. legs'[j] = legs[j]  BY <1>1, <1>2, <1>4 DEF Active
  <2> QED  BY <1>1, <1>4, <2>1
<1>5. Apart'  BY <1>4, ApartKeeps DEF LegsInv, Apart
<1> QED  BY <1>3, <1>5, LegsParts

\* Jobs are added: the others stay, and the new ones have not begun.
LEMMA AddedInv ==
  ASSUME LadderTypeOK, LadderTypeOK', MainInv, History, LegsInv, npm' = npm,
         \A j \in DOMAIN legs : j \in DOMAIN legs' /\ legs'[j] = legs[j],
         \A j \in DOMAIN legs' \ DOMAIN legs : LegInv(legs[j])' /\ legs'[j].st = "detect"
  PROVE  LegsInv'
<1>1. ASSUME NEW j \in DOMAIN legs' PROVE LegInv(legs[j])'
  <2>1. CASE j \in DOMAIN legs
    <3>1. legs'[j] = legs[j]  BY <2>1
    <3> QED  BY <2>1, <3>1, OtherJob
  <2> QED  BY <2>1
<1>2. ASSUME NEW j \in DOMAIN legs', Active(legs'[j])
      PROVE  j \in DOMAIN legs /\ legs'[j].pkg = legs[j].pkg /\ Active(legs[j])
  <2>1. j \in DOMAIN legs  BY <1>2 DEF Active
  <2> QED  BY <1>2, <2>1
<1>3. Apart'  BY <1>2, ApartKeeps DEF LegsInv, Apart
<1> QED  BY <1>1, <1>3, LegsParts

LEMMA DispatchInv ==
  ASSUME LadderTypeOK, LadderTypeOK', MainInv, History, LegsInv, NEW k \in Pkgs, Dispatch(k)
  PROVE  LegsInv'
<1>1. Len(main) \in Nat /\ Len(main) >= 1 /\ Len(legs) \in Nat /\ DOMAIN legs = 1 .. Len(legs)
  BY DEF LadderTypeOK
<1>2. /\ legs' \in Seq(Job) /\ Len(legs') = Len(legs) + 1 /\ npm' = npm /\ main' = main
      /\ \A j \in DOMAIN legs : j \in DOMAIN legs' /\ legs'[j] = legs[j]
      /\ legs'[Len(legs) + 1] = NewLeg(k, 1, Len(main))
  BY DispatchFacts DEF Others
<1>3. ASSUME NEW j \in DOMAIN legs' \ DOMAIN legs PROVE LegInv(legs[j])' /\ legs'[j].st = "detect"
  <2>1. DOMAIN legs' = 1 .. Len(legs) + 1  BY <1>1, <1>2
  <2>2. j = Len(legs) + 1  BY <1>1, <2>1
  <2>3. PICK leg, sha : leg = NewLeg(k, 1, sha) /\ sha = Len(main)  OBVIOUS
  <2>4. legs'[j] = leg  BY <1>2, <2>2, <2>3
  <2>5. sha \in Nat /\ 1 <= sha /\ sha <= Len(main')  BY <1>1, <1>2, <2>3
  <2>6. LegInv(leg)'  BY <2>3, <2>5, LegNew
  <2>7. leg.st = "detect"  BY <2>3 DEF NewLeg
  <2> QED  BY <2>4, <2>6, <2>7
<1> QED  BY <1>2, <1>3, AddedInv

\* What a job of a push covers: the one commit of the push that released its
\* package.
LEMMA PushCovers ==
  ASSUME LadderTypeOK, LadderTypeOK', History, RequestsInv, MainInv, GroupInv, NEW pkgs, Lands(pkgs),
         NEW j \in DOMAIN group.members, NEW k \in Pkgs, NEW leg,
         group.members[j].req.pkg = k, group.members[j].req.kind # "build",
         leg = NewLeg(k, Len(main), Len(main) + Len(group.members))
  PROVE  Covers(leg)' = {Len(main) + j}
<1> DEFINE n == Len(group.members)
<1>1. /\ Len(main) \in Nat /\ Len(main) >= 1 /\ n \in Nat /\ DOMAIN group.members = 1 .. n
      /\ Len(main') = Len(main) + n
  BY MembersType, LandMain DEF LadderTypeOK
<1>2. leg.base = Len(main) /\ leg.sha = Len(main) + n /\ leg.pkg = k  BY DEF NewLeg
<1>3. Covers(leg)' = {c \in Len(main) + 1 .. Len(main) + n : Releases(main[c].pr, k)'}
  BY <1>2 DEF Covers
<1>4. ASSUME NEW c \in Len(main) + 1 .. Len(main) + n
      PROVE  Releases(main[c].pr, k)' <=> c = Len(main) + j
  <2>1. c \in MainCommits' /\ c > Len(main)  BY <1>1 DEF MainCommits
  <2>2. PICK i \in DOMAIN group.members :
          /\ c = Len(main) + i
          /\ Releases(main[c].pr, k)' <=>
               group.members[i].req.pkg = k /\ group.members[i].req.kind # "build"
    BY <2>1, NewMerge
  <2>3. Binds(group.members, j)  BY MemberFacts
  <2>4. group.members[i].req.pkg = k => i = j  BY <2>2, <2>3 DEF Binds
  <2>5. i = j <=> c = Len(main) + j  BY <1>1, <2>2
  <2> QED  BY <2>2, <2>4, <2>5
<1>5. Len(main) + j \in Len(main) + 1 .. Len(main) + n  BY <1>1
<1> QED  BY <1>3, <1>4, <1>5

LEMMA LandInv ==
  ASSUME LadderTypeOK, LadderTypeOK', History, RequestsInv, MainInv, GroupInv, LegsInv, NEW pkgs, Lands(pkgs)
  PROVE  LegsInv'
<1> DEFINE sha == Len(main) + Len(group.members)
<1>1. /\ Len(main) \in Nat /\ Len(main) >= 1 /\ Len(legs) \in Nat /\ DOMAIN legs = 1 .. Len(legs)
      /\ Len(group.members) \in Nat /\ Len(main') = sha
  BY MembersType, LandMain DEF LadderTypeOK
<1>2. /\ legs' \in Seq(Job) /\ Len(legs') = Len(legs) + Len(pkgs) /\ Len(pkgs) \in Nat
      /\ \A i \in DOMAIN legs : i \in DOMAIN legs' /\ legs'[i] = legs[i]
      /\ \A i \in 1 .. Len(pkgs) : legs'[Len(legs) + i] = NewLeg(pkgs[i], Len(main), sha)
      /\ \A i \in 1 .. Len(pkgs) : \E j \in DOMAIN group.members :
           group.members[j].req.pkg = pkgs[i] /\ group.members[j].req.kind # "build"
  BY LandLegs
<1>3. npm' = npm  BY DEF Lands
<1>4. ASSUME NEW h \in DOMAIN legs' \ DOMAIN legs PROVE LegInv(legs[h])' /\ legs'[h].st = "detect"
  <2>1. DOMAIN legs' = 1 .. Len(legs) + Len(pkgs)  BY <1>1, <1>2
  <2>2. PICK i \in 1 .. Len(pkgs) : h = Len(legs) + i
    <3>1. h - Len(legs) \in 1 .. Len(pkgs) /\ h = Len(legs) + (h - Len(legs))  BY <1>1, <1>2, <2>1
    <3> QED  BY <3>1
  <2>3. PICK j \in DOMAIN group.members :
          group.members[j].req.pkg = pkgs[i] /\ group.members[j].req.kind # "build"
    BY <1>2
  <2>4. PICK k, base, top, leg : /\ k = pkgs[i] /\ base = Len(main) /\ top = sha
                                 /\ leg = NewLeg(k, base, top)
    OBVIOUS
  <2>5. legs'[h] = leg  BY <1>2, <2>2, <2>4
  <2>6. k \in Pkgs  BY <2>3, <2>4, MemberFacts
  <2>7. Covers(leg)' # {}  BY <2>3, <2>4, <2>6, PushCovers
  <2>8. base \in Nat /\ top \in Nat /\ 1 <= base /\ base <= top /\ top <= Len(main')
    BY <1>1, <2>4
  <2>9. LegInv(leg)'  BY <2>4, <2>6, <2>7, <2>8, LegNew
  <2>10. leg.st = "detect"  BY <2>4 DEF NewLeg
  <2> QED  BY <2>5, <2>9, <2>10
<1> QED  BY <1>2, <1>3, <1>4, AddedInv

LEMMA LegsStep ==
  ASSUME LadderTypeOK, LadderTypeOK', History, RequestsInv, MainInv, GroupInv, RegistryInv, LegsInv, [LadderNext]_ladderVars
  PROVE  LegsInv'
<1>1. ASSUME UNCHANGED <<legs, npm>> PROVE LegsInv'
  <2>1. DOMAIN legs' \ DOMAIN legs = {}  BY <1>1
  <2> QED  BY <1>1, <2>1, AddedInv
<1>2. ASSUME NEW p \in PRs, Push(p) \/ RunEnds(p) \/ Expire(p) PROVE LegsInv'
  BY <1>1, <1>2 DEF Push, RunEnds, Expire
<1>3. CASE FormGroup \/ CheckGroup \/ UNCHANGED ladderVars
  BY <1>1, <1>3 DEF FormGroup, CheckGroup, ladderVars
<1>4. CASE Land  BY <1>1, <1>4, LandFacts, LandInv
<1>5. ASSUME NEW k \in Pkgs, Dispatch(k) PROVE LegsInv'  BY <1>5, DispatchInv
<1>6. ASSUME NEW k \in Pkgs, Serve(k) PROVE LegsInv'  BY <1>1, <1>6 DEF Serve
<1>7. ASSUME NEW i \in DOMAIN legs, NEW st \in Stages, Moves(i, st), npm' = npm,
             st \notin {"resolved", "guarded", "recheck"},
             st \in {"running"} => Active(legs[i])
      PROVE  LegsInv'
  <2>1. OneJob(i) /\ legs'[i].st = st  BY <1>7, JobMoves
  <2> QED  BY <1>7, <2>1, EmptyJobInv DEF Loaded, Active
<1>8. ASSUME NEW i \in DOMAIN legs, Leg(i) PROVE LegsInv'
  <2>1. CASE Recheck(i)
    <3>1. PICK st \in {"failed", "skipped", "refused"} : Moves(i, st)
      BY <2>1, Decisions DEF Recheck
    <3>2. npm' = npm  BY <2>1 DEF Recheck, Others
    <3> QED  BY <1>7, <3>1, <3>2 DEF Stages
  <2> QED  BY <1>8, <2>1, ArriveInv, StartLegInv, ResolveInv, GuardInv, PublishInv DEF Leg
<1>9. ASSUME NEW i \in DOMAIN legs, Rerun(i) PROVE LegsInv'
  <2>1. OneJob(i) /\ legs'[i].st = "detect" /\ npm' = npm  BY <1>9, RerunFacts DEF Others
  <2> QED  BY <2>1, EmptyJobInv DEF Loaded, Active
<1>10. ASSUME NEW i \in DOMAIN legs, LegFails(i) PROVE LegsInv'
  <2>1. Moves(i, "failed") /\ npm' = npm  BY <1>10 DEF LegFails, Others
  <2> QED  BY <1>7, <2>1 DEF Stages
<1> QED  BY <1>2, <1>3, <1>4, <1>5, <1>6, <1>8, <1>9, <1>10 DEF LadderNext

-----------------------------------------------------------------------------
(* What is refused, and what is answered, when releases raise the version *)

\* A version on npm that main released is that release, and no other.
LEMMA OneRelease ==
  ASSUME LadderTypeOK, MainInv, ShipsWhatLanded, Bumped, NEW k \in Pkgs, NEW c \in 2 .. Len(main),
         Releases(main[c].pr, k), TreeAt(c, k).v \in DOMAIN npm[k].on
  PROVE  npm[k].on[TreeAt(c, k).v] = TreeAt(c, k)
<1>0. Len(main) \in Nat /\ c \in MainCommits /\ 1 \in 1 .. c /\ 1 < c  BY DEF LadderTypeOK, MainCommits
<1>1. PICK v \in Nat : v = TreeAt(c, k).v  BY <1>0, TipType DEF Tree
<1>2. v # 1
  <2>1. InOrder(1, c, k)  BY <1>0 DEF MainInv
  <2>2. TreeAt(1, k).v = 1  BY DEF MainInv, Root
  <2> QED  BY <1>0, <1>1, <2>1, <2>2 DEF InOrder
<1>3. Landed(k, v, npm[k].on[v])  BY <1>1, <1>2, ShipsLanded
<1>4. PICK d \in 2 .. Len(main) :
        TreeAt(d, k) = npm[k].on[v] /\ npm[k].on[v].v = v /\ Releases(main[d].pr, k)
  BY <1>3 DEF Landed
<1>5. d \in MainCommits  BY <1>0 DEF MainCommits
<1>6. CASE d = c  BY <1>1, <1>4, <1>6
<1>7. CASE d < c
  <2>1. InOrder(d, c, k)  BY <1>0, <1>5, <1>7 DEF MainInv
  <2> QED  BY <1>1, <1>4, <1>7, <2>1 DEF InOrder
<1>8. CASE c < d
  <2>1. InOrder(c, d, k)  BY <1>0, <1>5, <1>8 DEF MainInv
  <2> QED  BY <1>1, <1>4, <1>8, <2>1 DEF InOrder
<1> QED  BY <1>0, <1>6, <1>7, <1>8

\* What a refusal means.
Excused(leg) ==
  LET c == TouchingCommit(leg)
      p == main[c].pr
  IN c > leg.base /\ Releases(p, leg.pkg) =>
       \/ ~prs[p].kept
       \/ \E v \in DOMAIN npm[leg.pkg].on : v > TreeAt(c, leg.pkg).v

LEMMA PassedParts ==
  /\ PassedPublishes <=> \A i \in DOMAIN legs : legs[i].st = "refused" => Excused(legs[i])
  /\ PassedPublishes' <=> \A i \in DOMAIN legs' : legs'[i].st = "refused" => Excused(legs[i])'
BY DEF PassedPublishes, Excused, TreeAt

LEMMA ExcusedKeeps ==
  ASSUME LadderTypeOK, LadderTypeOK', MainInv, History, NEW leg \in Job, LegInv(leg), Excused(leg),
         NEW new \in Job, new.pkg = leg.pkg, new.base = leg.base, new.sha = leg.sha
  PROVE  Excused(new)'
<1>1. 1 <= leg.base /\ leg.base <= leg.sha /\ leg.sha <= Len(main)  BY JobRange
<1>2. PICK c : c = TouchingCommit(leg)  OBVIOUS
<1>3. TouchingCommit(new)' = c
  <2>1. TouchingCommit(new) = TouchingCommit(leg)  BY DEF TouchingCommit
  <2>2. TouchingCommit(new)' = TouchingCommit(new)  BY <1>1, PastCovers
  <2> QED  BY <1>2, <2>1, <2>2
<1>4. c \in MainCommits /\ leg.base \in Nat /\ leg.pkg \in Pkgs /\ Len(main) \in Nat
  <2>1. TouchingCommit(leg) \in MainCommits  BY <1>1, Touches
  <2>2. leg.base \in Nat /\ leg.pkg \in Pkgs /\ Len(main) \in Nat  BY DEF Job, LadderTypeOK
  <2> QED  BY <1>2, <2>1, <2>2
<1>5. ASSUME c > leg.base, Releases(main[c].pr, leg.pkg)'
      PROVE  \/ ~prs'[main'[c].pr].kept
             \/ \E v \in DOMAIN npm'[leg.pkg].on : v > main'[c].trees[leg.pkg].v
  <2>1. c \in 2 .. Len(main)  BY <1>1, <1>4, <1>5 DEF MainCommits
  <2>2. /\ main'[c].pr = main[c].pr /\ Settled(main[c].pr)
        /\ Releases(main[c].pr, leg.pkg) /\ TreeAt(c, leg.pkg)' = TreeAt(c, leg.pkg)
    BY <1>5, <2>1, Past
  <2>3. \/ ~prs[main[c].pr].kept
        \/ \E v \in DOMAIN npm[leg.pkg].on : v > TreeAt(c, leg.pkg).v
    BY <1>2, <1>5, <2>2 DEF Excused
  <2>4. DOMAIN npm[leg.pkg].on \subseteq DOMAIN npm'[leg.pkg].on  BY <1>4 DEF History, Grows
  <2>5. main'[c].trees[leg.pkg] = TreeAt(c, leg.pkg)  BY <2>2 DEF TreeAt
  <2> QED  BY <2>2, <2>3, <2>4, <2>5 DEF Settled
<1> QED  BY <1>3, <1>5 DEF Excused, Releases, TreeAt

\* A refusal of the guard is of a release that npm has passed.
LEMMA GuardRefuses ==
  ASSUME LadderTypeOK, MainInv, RegistryInv, ShipsWhatLanded, Bumped, NEW leg \in Job, LegInv(leg),
         Loaded(leg), Certified(leg.pkg, leg.bytes) = "refused"
  PROVE  Excused(leg)
<1>1. PICK c, k : c = TouchingCommit(leg) /\ k = leg.pkg  OBVIOUS
<1>2. /\ c \in 2 .. Len(main) /\ Releases(main[c].pr, k) /\ leg.bytes = TreeAt(c, k)
  BY <1>1, Holds DEF Loaded
<1>3. k \in Pkgs  BY <1>1 DEF Job
<1>4. seen[k].has \subseteq DOMAIN npm[k].on /\ seen[k].latest \in DOMAIN npm[k].on
  BY <1>3 DEF RegistryInv
<1>5. TreeAt(c, k).v \in DOMAIN npm[k].on => npm[k].on[TreeAt(c, k).v] = TreeAt(c, k)
  BY <1>2, <1>3, OneRelease
<1>6. TreeAt(c, k).v < seen[k].latest
  BY <1>1, <1>2, <1>4, <1>5 DEF Certified
<1>7. TreeAt(c, k).v \in Nat /\ seen[k].latest \in Nat
  <2>1. c \in MainCommits  BY <1>2 DEF MainCommits, LadderTypeOK
  <2> QED  BY <1>3, <2>1, TipType, EntryType DEF Tree
<1>8. seen[k].latest > TreeAt(c, k).v  BY <1>6, <1>7
<1> QED  BY <1>1, <1>4, <1>8 DEF Excused

\* So is one of the publish: a merge that the group's check let pass is one
\* that it takes, as long as the tarball is kept.
LEMMA ResolveRefuses ==
  ASSUME LadderTypeOK, RequestsInv, MainInv, NEW leg \in Job, LegInv(leg),
         Resolved(leg.pkg, TreeAt(TouchingCommit(leg), leg.pkg).v,
                  main[TouchingCommit(leg)].pr) = "refused"
  PROVE  Excused(leg)
<1>1. PICK c, k, p : c = TouchingCommit(leg) /\ k = leg.pkg /\ p = main[c].pr  OBVIOUS
<1> SUFFICES ASSUME c > leg.base, Releases(p, k), prs[p].kept PROVE FALSE
  BY <1>1 DEF Excused
<1>2. 1 <= leg.base /\ leg.base <= leg.sha /\ leg.sha <= Len(main)  BY JobRange
<1>3. c \in 2 .. Len(main)
  <2>1. TouchingCommit(leg) \in MainCommits  BY <1>2, Touches
  <2>2. leg.base \in Nat /\ Len(main) \in Nat  BY DEF Job, LadderTypeOK
  <2> QED  BY <1>1, <1>2, <2>1, <2>2 DEF MainCommits
<1>4. MergeOf(c)  BY <1>3 DEF MainInv
<1>5. /\ p \in PRs /\ prs[p].run = "green" /\ TreeAt(c, k) = prs[p].tree /\ prs[p].pkg = k
      /\ prs[p].kind = "gate" => prs[p].tree.v \in seen[k].has
  BY <1>1, <1>4 DEF MergeOf, Merged, Releases
<1>6. p # None  BY <1>5, LadderAssumption
<1>7. Resolved(k, TreeAt(c, k).v, p) = "refused"  BY <1>1
<1> QED  BY <1>5, <1>6, <1>7 DEF Resolved

LEMMA PassedStep ==
  ASSUME LadderTypeOK, LadderTypeOK', History, RequestsInv, MainInv, GroupInv, RegistryInv, LegsInv,
         ShipsWhatLanded, Bumped, PassedPublishes, [LadderNext]_ladderVars
  PROVE  PassedPublishes'
<1>1. ASSUME NEW i \in DOMAIN legs, i \in DOMAIN legs', legs'[i] = legs[i], legs'[i].st = "refused"
      PROVE  Excused(legs[i])'
  <2>1. PICK leg \in Job : leg = legs[i]  BY LegType
  <2>2. LegInv(leg) /\ Excused(leg)  BY <1>1, <2>1, PassedParts DEF LegsInv
  <2>3. Excused(leg)'  BY <2>2, ExcusedKeeps
  <2> QED  BY <1>1, <2>1, <2>3
<1>2. ASSUME NEW i \in DOMAIN legs, OneJob(i),
             legs'[i].st = "refused" => Excused(legs[i])
      PROVE  PassedPublishes'
  <2>1. ASSUME NEW j \in DOMAIN legs', legs'[j].st = "refused" PROVE Excused(legs[j])'
    <3>1. j \in DOMAIN legs  BY <1>2 DEF OneJob
    <3>2. CASE j # i
      <4>1. legs'[j] = legs[j]  BY <1>2, <3>1, <3>2 DEF OneJob
      <4> QED  BY <1>1, <2>1, <3>1, <4>1
    <3>3. CASE j = i
      <4>1. PICK old \in Job, leg \in Job :
              /\ old = legs[i] /\ leg = legs'[i] /\ LegInv(old)
              /\ leg.pkg = old.pkg /\ leg.base = old.base /\ leg.sha = old.sha
        BY <1>2, JobIn
      <4>2. Excused(old)  BY <1>2, <2>1, <3>3, <4>1
      <4>3. Excused(leg)'  BY <4>1, <4>2, ExcusedKeeps
      <4> QED  BY <3>3, <4>1, <4>3
    <3> QED  BY <3>2, <3>3
  <2> QED  BY <2>1, PassedParts
<1>3. ASSUME \A j \in DOMAIN legs : j \in DOMAIN legs' /\ legs'[j] = legs[j],
             \A j \in DOMAIN legs' \ DOMAIN legs : legs'[j].st = "detect"
      PROVE  PassedPublishes'
  <2>1. ASSUME NEW j \in DOMAIN legs', legs'[j].st = "refused" PROVE Excused(legs[j])'
    <3>1. j \in DOMAIN legs  BY <1>3, <2>1
    <3> QED  BY <1>1, <1>3, <2>1, <3>1
  <2> QED  BY <2>1, PassedParts
<1>4. CASE UNCHANGED legs
  <2>1. DOMAIN legs' \ DOMAIN legs = {}  BY <1>4
  <2> QED  BY <1>3, <1>4, <2>1
<1>5. ASSUME NEW p \in PRs, Push(p) \/ RunEnds(p) \/ Expire(p) PROVE PassedPublishes'
  BY <1>4, <1>5 DEF Push, RunEnds, Expire
<1>6. CASE FormGroup \/ CheckGroup \/ UNCHANGED ladderVars
  BY <1>4, <1>6 DEF FormGroup, CheckGroup, ladderVars
<1>7. ASSUME NEW pkgs, Lands(pkgs) PROVE PassedPublishes'
  <2>1. /\ legs' \in Seq(Job) /\ Len(legs') = Len(legs) + Len(pkgs) /\ Len(pkgs) \in Nat
        /\ \A i \in DOMAIN legs : i \in DOMAIN legs' /\ legs'[i] = legs[i]
        /\ \A i \in 1 .. Len(pkgs) :
             legs'[Len(legs) + i] = NewLeg(pkgs[i], Len(main), Len(main) + Len(group.members))
    BY <1>7, LandLegs
  <2>2. ASSUME NEW h \in DOMAIN legs' \ DOMAIN legs PROVE legs'[h].st = "detect"
    <3>1. Len(legs) \in Nat /\ DOMAIN legs = 1 .. Len(legs)  BY DEF LadderTypeOK
    <3>2. DOMAIN legs' = 1 .. Len(legs) + Len(pkgs)  BY <2>1
    <3>3. h - Len(legs) \in 1 .. Len(pkgs) /\ h = Len(legs) + (h - Len(legs))
      BY <2>1, <3>1, <3>2
    <3>4. legs'[h] = NewLeg(pkgs[h - Len(legs)], Len(main), Len(main) + Len(group.members))
      BY <2>1, <3>3
    <3> QED  BY <3>4 DEF NewLeg
  <2> QED  BY <1>3, <2>1, <2>2
<1>8. CASE Land  BY <1>4, <1>7, <1>8, LandFacts
<1>9. ASSUME NEW k \in Pkgs, Dispatch(k) PROVE PassedPublishes'
  <2>1. /\ legs' \in Seq(Job) /\ Len(legs') = Len(legs) + 1
        /\ \A j \in DOMAIN legs : j \in DOMAIN legs' /\ legs'[j] = legs[j]
        /\ legs'[Len(legs) + 1] = NewLeg(k, 1, Len(main))
    BY <1>9, DispatchFacts
  <2>2. ASSUME NEW h \in DOMAIN legs' \ DOMAIN legs PROVE legs'[h].st = "detect"
    <3>1. Len(legs) \in Nat /\ DOMAIN legs = 1 .. Len(legs)  BY DEF LadderTypeOK
    <3>2. DOMAIN legs' = 1 .. Len(legs) + 1  BY <2>1, <3>1
    <3>3. h = Len(legs) + 1  BY <3>1, <3>2
    <3> QED  BY <2>1, <3>3 DEF NewLeg
  <2> QED  BY <1>3, <2>1, <2>2
<1>10. ASSUME NEW k \in Pkgs, Serve(k) PROVE PassedPublishes'  BY <1>4, <1>10 DEF Serve
<1>11. ASSUME NEW i \in DOMAIN legs, Arrive(i) PROVE PassedPublishes'
  <2>1. ASSUME NEW j \in DOMAIN legs', legs'[j].st = "refused" PROVE Excused(legs[j])'
    <3>1. j \in DOMAIN legs /\ legs'[j] = legs[j]  BY <1>11, <2>1, ArriveFacts
    <3> QED  BY <1>1, <2>1, <3>1
  <2> QED  BY <2>1, PassedParts
<1>12. ASSUME NEW i \in DOMAIN legs, NEW st \in Stages, Moves(i, st),
              st = "refused" => Excused(legs[i])
       PROVE  PassedPublishes'
  <2>1. OneJob(i) /\ legs'[i].st = st  BY <1>12, JobMoves
  <2> QED  BY <1>2, <1>12, <2>1
<1>13. ASSUME NEW i \in DOMAIN legs, Leg(i) PROVE PassedPublishes'
  <2>1. legs[i] \in Job /\ LegInv(legs[i])  BY LegType DEF LegsInv
  <2>2. CASE StartLeg(i)  BY <1>12, <2>2 DEF StartLeg, Stages
  <2>3. CASE Resolve(i)
    <3>1. OneJob(i) /\ legs'[i].st = Resolved(legs[i].pkg, TreeAt(TouchingCommit(legs[i]), legs[i].pkg).v,
                                              main[TouchingCommit(legs[i])].pr)
      BY <2>3, ResolveJob
    <3>2. legs'[i].st = "refused" => Excused(legs[i])  BY <2>1, <3>1, ResolveRefuses
    <3> QED  BY <1>2, <3>1, <3>2
  <2>4. CASE Guard(i)
    <3>1. PICK d : d = Certified(legs[i].pkg, legs[i].bytes)  OBVIOUS
    <3>2. Moves(i, d) /\ Loaded(legs[i]) /\ d \in Stages
      BY <2>4, <3>1, Decisions DEF Guard, Loaded, Stages
    <3>3. d = "refused" => Excused(legs[i])  BY <2>1, <3>1, <3>2, GuardRefuses
    <3> QED  BY <1>12, <3>2, <3>3
  <2>5. CASE NpmPublish(i)
    <3>1. OneJob(i) /\ legs'[i].st \in {"recheck", "published", "failed"}
      BY <2>5, PublishFacts
    <3> QED  BY <1>2, <3>1
  <2>6. CASE Recheck(i)
    <3>1. PICK d : d = Certified(legs[i].pkg, legs[i].bytes)  OBVIOUS
    <3>2. PICK st \in Stages : Moves(i, st) /\ (st = "refused" => d = "refused")
      BY <2>6, <3>1, Decisions DEF Recheck, Stages
    <3>3. Loaded(legs[i])  BY <2>6 DEF Recheck, Loaded
    <3>4. d = "refused" => Excused(legs[i])  BY <2>1, <3>1, <3>3, GuardRefuses
    <3> QED  BY <1>12, <3>2, <3>4
  <2> QED  BY <1>11, <1>13, <2>2, <2>3, <2>4, <2>5, <2>6 DEF Leg
<1>14. ASSUME NEW i \in DOMAIN legs, Rerun(i) PROVE PassedPublishes'
  <2>1. OneJob(i) /\ legs'[i].st = "detect"  BY <1>14, RerunFacts
  <2> QED  BY <1>2, <2>1
<1>15. ASSUME NEW i \in DOMAIN legs, LegFails(i) PROVE PassedPublishes'
  BY <1>12, <1>15 DEF LegFails, Stages
<1> QED  BY <1>5, <1>6, <1>8, <1>9, <1>10, <1>13, <1>14, <1>15 DEF LadderNext

\* npm has the release of main's commit c.
OnNpm(c, k) ==
  TreeAt(c, k).v \in DOMAIN npm[k].on /\ npm[k].on[TreeAt(c, k).v] = TreeAt(c, k)
Green(leg) == leg.st \in {"published", "skipped"}
Owed(c, k) == Releases(main[c].pr, k) /\ prs[main[c].pr].kind = "release"

LEMMA OwnParts ==
  ASSUME NEW leg, NEW c, NEW k
  PROVE  /\ Own(leg, c, k) <=> leg.pkg = k /\ Covers(leg) = {c} /\ (Green(leg) => OnNpm(c, k))
         /\ Own(leg, c, k)' <=> leg.pkg = k /\ Covers(leg)' = {c} /\ (Green(leg) => OnNpm(c, k)')
BY DEF Own, Green, OnNpm

LEMMA AnsweredParts ==
  /\ Answered <=> \A c \in 2 .. Len(main) : \A k \in Pkgs :
                    Owed(c, k) => \E i \in DOMAIN legs : Own(legs[i], c, k)
  /\ Answered' <=> \A c \in 2 .. Len(main') : \A k \in Pkgs :
                     Owed(c, k)' => \E i \in DOMAIN legs' : Own(legs[i], c, k)'
BY DEF Answered, Owed

LEMMA OnNpmKeeps ==
  ASSUME LadderTypeOK, LadderTypeOK', MainInv, History, NEW k \in Pkgs, NEW c \in 2 .. Len(main), OnNpm(c, k)
  PROVE  OnNpm(c, k)'
<1>1. PICK t : t = TreeAt(c, k)  OBVIOUS
<1>2. TreeAt(c, k)' = t  BY <1>1, Past
<1>3. t.v \in DOMAIN npm[k].on /\ npm[k].on[t.v] = t  BY <1>1 DEF OnNpm
<1>4. t.v \in DOMAIN npm'[k].on /\ npm'[k].on[t.v] = t  BY <1>3 DEF History, Grows
<1> QED  BY <1>2, <1>4 DEF OnNpm

LEMMA OwedBefore ==
  ASSUME LadderTypeOK, LadderTypeOK', MainInv, History, NEW c \in 2 .. Len(main), NEW k, Owed(c, k)'
  PROVE  Owed(c, k)
<1>1. /\ main'[c].pr = main[c].pr /\ Settled(main[c].pr)
      /\ Releases(main[c].pr, k)' <=> Releases(main[c].pr, k)
  BY Past
<1> QED  BY <1>1 DEF Owed, Settled

\* The job of a release touches that release.
LEMMA OwnTouches ==
  ASSUME LadderTypeOK, NEW leg \in Job, LegInv(leg), NEW c, NEW k, Own(leg, c, k)
  PROVE  /\ TouchingCommit(leg) = c /\ c \in 2 .. Len(main) /\ leg.pkg = k /\ k \in Pkgs
         /\ Releases(main[c].pr, k)
<1>1. 1 <= leg.base /\ leg.base <= leg.sha /\ leg.sha <= Len(main)  BY JobRange
<1>2. Covers(leg) = {c} /\ leg.pkg = k  BY DEF Own
<1>3. TouchingCommit(leg) \in Covers(leg)
  <2>1. Covers(leg) # {}  BY <1>2
  <2> QED  BY <1>1, <2>1, Touches
<1>4. leg.base \in Nat /\ leg.sha \in Nat /\ Len(main) \in Nat /\ leg.pkg \in Pkgs
  BY DEF Job, LadderTypeOK
<1>5. c \in leg.base + 1 .. leg.sha /\ Releases(main[c].pr, k)
  <2>1. c \in Covers(leg)  BY <1>2
  <2> QED  BY <1>2, <2>1 DEF Covers
<1>6. c \in 2 .. Len(main)  BY <1>1, <1>4, <1>5
<1> QED  BY <1>2, <1>3, <1>4, <1>5, <1>6

LEMMA OwnStays ==
  ASSUME LadderTypeOK, LadderTypeOK', MainInv, History, NEW leg \in Job, LegInv(leg),
         NEW c, NEW k, Own(leg, c, k),
         NEW new \in Job, new.pkg = leg.pkg, new.base = leg.base, new.sha = leg.sha,
         Green(new) => Green(leg) \/ OnNpm(c, k)'
  PROVE  Own(new, c, k)'
<1>1. 1 <= leg.base /\ leg.base <= leg.sha /\ leg.sha <= Len(main)  BY JobRange
<1>2. c \in 2 .. Len(main) /\ leg.pkg = k /\ k \in Pkgs  BY OwnTouches
<1>3. Covers(leg) = {c} /\ (Green(leg) => OnNpm(c, k))  BY OwnParts
<1>4. Covers(new)' = {c}
  <2>1. Covers(new) = Covers(leg)  BY DEF Covers
  <2>2. Covers(new)' = Covers(new)  BY <1>1, PastCovers
  <2> QED  BY <1>3, <2>1, <2>2
<1>5. OnNpm(c, k) => OnNpm(c, k)'  BY <1>2, OnNpmKeeps
<1> QED  BY <1>2, <1>3, <1>4, <1>5, OwnParts

\* What was answered stays so, when a job that turns green is right.
LEMMA StillAnswered ==
  ASSUME LadderTypeOK, LadderTypeOK', MainInv, History, LegsInv, Answered,
         \A i \in DOMAIN legs :
           /\ i \in DOMAIN legs' /\ legs'[i].pkg = legs[i].pkg
           /\ legs'[i].base = legs[i].base /\ legs'[i].sha = legs[i].sha,
         \A i \in DOMAIN legs : Green(legs'[i]) =>
           \/ Green(legs[i])
           \/ \A c, k : Own(legs[i], c, k) => OnNpm(c, k)',
         NEW c \in 2 .. Len(main), NEW k \in Pkgs, Owed(c, k)'
  PROVE  \E i \in DOMAIN legs' : Own(legs[i], c, k)'
<1>1. Owed(c, k)  BY OwedBefore
<1>2. PICK i \in DOMAIN legs : Own(legs[i], c, k)  BY <1>1, AnsweredParts
<1>3. PICK leg \in Job : leg = legs[i] /\ LegInv(leg) /\ Own(leg, c, k)
  <2>1. legs[i] \in Job /\ LegInv(legs[i])  BY LegType DEF LegsInv
  <2> QED  BY <1>2, <2>1
<1>4. PICK new \in Job : new = legs'[i] /\ new.pkg = leg.pkg /\ new.base = leg.base /\ new.sha = leg.sha
  <2>1. i \in DOMAIN legs' /\ legs' \in Seq(Job)  BY DEF LadderTypeOK
  <2>2. legs'[i] \in Job  BY <2>1
  <2> QED  BY <1>3, <2>2
<1>5. Green(new) => Green(leg) \/ OnNpm(c, k)'  BY <1>2, <1>3, <1>4
<1>6. Own(new, c, k)'  BY <1>3, <1>4, <1>5, OwnStays
<1> QED  BY <1>4, <1>6

\* A job is green rightly: the guard and the last look saw the release on npm,
\* as the publish did.
LEMMA SkipsRightly ==
  ASSUME LadderTypeOK, MainInv, RegistryInv, ShipsWhatLanded, Bumped, NEW leg \in Job, LegInv(leg),
         NEW c, NEW k, Own(leg, c, k)
  PROVE  /\ Loaded(leg) /\ Certified(leg.pkg, leg.bytes) = "skipped" => OnNpm(c, k)
         /\ Resolved(leg.pkg, TreeAt(TouchingCommit(leg), leg.pkg).v,
                     main[TouchingCommit(leg)].pr) = "skipped" => OnNpm(c, k)
<1>1. /\ TouchingCommit(leg) = c /\ c \in 2 .. Len(main) /\ leg.pkg = k /\ k \in Pkgs
      /\ Releases(main[c].pr, k)
  BY OwnTouches
<1>2. seen[k].has \subseteq DOMAIN npm[k].on  BY <1>1 DEF RegistryInv
<1>3. ASSUME Loaded(leg), Certified(leg.pkg, leg.bytes) = "skipped" PROVE OnNpm(c, k)
  <2>1. leg.bytes = TreeAt(c, k)  BY <1>1, <1>3, Holds DEF Loaded
  <2>2. leg.bytes.v \in seen[k].has /\ npm[k].on[leg.bytes.v] = leg.bytes
    BY <1>1, <1>3 DEF Certified
  <2> QED  BY <1>2, <2>1, <2>2 DEF OnNpm
<1>4. ASSUME Resolved(k, TreeAt(c, k).v, main[c].pr) = "skipped" PROVE OnNpm(c, k)
  <2>1. TreeAt(c, k).v \in seen[k].has  BY <1>4 DEF Resolved
  <2>2. TreeAt(c, k).v \in DOMAIN npm[k].on  BY <1>2, <2>1
  <2> QED  BY <1>1, <2>2, OneRelease DEF OnNpm
<1> QED  BY <1>1, <1>3, <1>4

LEMMA PublishesRightly ==
  ASSUME LadderTypeOK, LadderTypeOK', MainInv, History, NEW i \in DOMAIN legs, Takes(i), LegInv(legs[i]),
         Loaded(legs[i]), NEW c, NEW k, Own(legs[i], c, k)
  PROVE  OnNpm(c, k)'
<1>1. PICK leg \in Job : leg = legs[i]  BY LegType
<1>2. LegInv(leg) /\ Own(leg, c, k) /\ Loaded(leg)  BY <1>1
<1>3. TouchingCommit(leg) = c /\ c \in 2 .. Len(main) /\ leg.pkg = k /\ k \in Pkgs
  BY <1>2, OwnTouches
<1>4. leg.bytes = TreeAt(c, k) /\ leg.bytes \in Tree  BY <1>2, <1>3, Holds DEF Loaded, Job
<1>5. PICK t \in Tree : t = leg.bytes  BY <1>4
<1>6. npm' = [npm EXCEPT ![k] = Tagged(npm[k], t)]  BY <1>1, <1>3, <1>5 DEF Takes
<1>7. npm'[k] = Tagged(npm[k], t)  BY <1>3, <1>6 DEF LadderTypeOK
<1>8. t.v \in DOMAIN npm'[k].on /\ npm'[k].on[t.v] = t
  <2>1. PICK now : now = Tagged(npm[k], t)  OBVIOUS
  <2>2. DOMAIN now.on = DOMAIN npm[k].on \cup {t.v} /\ now.on[t.v] = t
    BY <1>3, <2>1, TaggedType
  <2> QED  BY <1>7, <2>1, <2>2
<1>9. TreeAt(c, k)' = t  BY <1>3, <1>4, <1>5, Past
<1> QED  BY <1>8, <1>9 DEF OnNpm

\* The releases that land get their jobs.
LEMMA LandAnswered ==
  ASSUME LadderTypeOK, LadderTypeOK', History, RequestsInv, MainInv, GroupInv, LegsInv, Answered,
         NEW pkgs, Lands(pkgs)
  PROVE  Answered'
<1> DEFINE sha == Len(main) + Len(group.members)
<1>1. /\ Len(main) \in Nat /\ Len(main) >= 1 /\ Len(legs) \in Nat /\ DOMAIN legs = 1 .. Len(legs)
      /\ Len(group.members) \in Nat /\ Len(main') = sha
  BY MembersType, LandMain DEF LadderTypeOK
<1>2. /\ legs' \in Seq(Job) /\ Len(legs') = Len(legs) + Len(pkgs) /\ Len(pkgs) \in Nat
      /\ \A i \in DOMAIN legs : i \in DOMAIN legs' /\ legs'[i] = legs[i]
      /\ \A i \in 1 .. Len(pkgs) : legs'[Len(legs) + i] = NewLeg(pkgs[i], Len(main), sha)
      /\ \A j \in DOMAIN group.members : group.members[j].req.kind # "build" =>
           \E i \in 1 .. Len(pkgs) : pkgs[i] = group.members[j].req.pkg
  BY LandLegs
<1>3. ASSUME NEW c \in 2 .. Len(main'), NEW k \in Pkgs, Owed(c, k)'
      PROVE  \E i \in DOMAIN legs' : Own(legs[i], c, k)'
  <2>1. CASE c <= Len(main)
    <3>1. c \in 2 .. Len(main)  BY <1>1, <2>1
    <3>2. \A i \in DOMAIN legs :
            /\ i \in DOMAIN legs' /\ legs'[i].pkg = legs[i].pkg
            /\ legs'[i].base = legs[i].base /\ legs'[i].sha = legs[i].sha
      BY <1>2
    <3>3. \A i \in DOMAIN legs : Green(legs'[i]) => Green(legs[i])  BY <1>2
    <3>4. \A i \in DOMAIN legs : Green(legs'[i]) =>
            \/ Green(legs[i])
            \/ \A d, h : Own(legs[i], d, h) => OnNpm(d, h)'
      BY <3>3
    <3> QED  BY <1>3, <3>1, <3>2, <3>4, StillAnswered
  <2>2. CASE c > Len(main)
    <3>1. c \in MainCommits'  BY <1>1 DEF MainCommits
    <3>2. PICK j \in DOMAIN group.members :
            /\ c = Len(main) + j
            /\ Releases(main[c].pr, k)' <=>
                 group.members[j].req.pkg = k /\ group.members[j].req.kind # "build"
      BY <2>2, <3>1, NewMerge
    <3>3. group.members[j].req.pkg = k /\ group.members[j].req.kind # "build"
      BY <1>3, <3>2 DEF Owed
    <3>4. PICK i \in 1 .. Len(pkgs) : pkgs[i] = k  BY <1>2, <3>3
    <3>5. PICK leg : leg = NewLeg(k, Len(main), Len(main) + Len(group.members))  OBVIOUS
    <3>6. Len(legs) + i \in DOMAIN legs' /\ legs'[Len(legs) + i] = leg
      <4>1. Len(legs) + i \in 1 .. Len(legs')  BY <1>1, <1>2
      <4> QED  BY <1>2, <3>4, <3>5, <4>1
    <3>7. Covers(leg)' = {Len(main) + j}  BY <3>3, <3>5, PushCovers
    <3>8. leg.pkg = k /\ ~Green(leg)  BY <3>5 DEF NewLeg, Green
    <3>9. Own(leg, c, k)'  BY <3>2, <3>7, <3>8, OwnParts
    <3> QED  BY <3>6, <3>9
  <2> QED  BY <1>1, <2>1, <2>2
<1> QED  BY <1>3, AnsweredParts

LEMMA AnsweredStep ==
  ASSUME LadderTypeOK, LadderTypeOK', History, RequestsInv, MainInv, GroupInv, RegistryInv, LegsInv,
         ShipsWhatLanded, Bumped, Answered, [LadderNext]_ladderVars
  PROVE  Answered'
<1>1. ASSUME main' = main,
             \A i \in DOMAIN legs :
               /\ i \in DOMAIN legs' /\ legs'[i].pkg = legs[i].pkg
               /\ legs'[i].base = legs[i].base /\ legs'[i].sha = legs[i].sha,
             \A i \in DOMAIN legs : Green(legs'[i]) =>
               \/ Green(legs[i])
               \/ \A c, k : Own(legs[i], c, k) => OnNpm(c, k)'
      PROVE  Answered'
  <2>1. ASSUME NEW c \in 2 .. Len(main'), NEW k \in Pkgs, Owed(c, k)'
        PROVE  \E i \in DOMAIN legs' : Own(legs[i], c, k)'
    <3>1. c \in 2 .. Len(main)  BY <1>1
    <3> QED  BY <1>1, <2>1, <3>1, StillAnswered
  <2> QED  BY <2>1, AnsweredParts
<1>2. ASSUME main' = main, \A i \in DOMAIN legs : i \in DOMAIN legs' /\ legs'[i] = legs[i]
      PROVE  Answered'
  BY <1>1, <1>2
<1>3. ASSUME NEW i \in DOMAIN legs, OneJob(i), main' = main,
             Green(legs'[i]) => \A c, k : Own(legs[i], c, k) => OnNpm(c, k)'
      PROVE  Answered'
  <2>1. \A j \in DOMAIN legs :
          /\ j \in DOMAIN legs' /\ legs'[j].pkg = legs[j].pkg
          /\ legs'[j].base = legs[j].base /\ legs'[j].sha = legs[j].sha
    BY <1>3 DEF OneJob
  <2>2. \A j \in DOMAIN legs : j # i => legs'[j] = legs[j]  BY <1>3 DEF OneJob
  <2>3. \A j \in DOMAIN legs : Green(legs'[j]) =>
          \/ Green(legs[j])
          \/ \A c, k : Own(legs[j], c, k) => OnNpm(c, k)'
    BY <1>3, <2>2
  <2> QED  BY <1>1, <1>3, <2>1, <2>3
<1>4. ASSUME NEW p \in PRs, Push(p) \/ RunEnds(p) \/ Expire(p) PROVE Answered'
  BY <1>2, <1>4 DEF Push, RunEnds, Expire
<1>5. CASE FormGroup \/ CheckGroup \/ UNCHANGED ladderVars
  BY <1>2, <1>5 DEF FormGroup, CheckGroup, ladderVars
<1>6. CASE Land  BY <1>2, <1>6, LandFacts, LandAnswered
<1>7. ASSUME NEW k \in Pkgs, Dispatch(k) PROVE Answered'
  BY <1>2, <1>7, DispatchFacts DEF Others
<1>8. ASSUME NEW k \in Pkgs, Serve(k) PROVE Answered'  BY <1>2, <1>8 DEF Serve
<1>9. ASSUME NEW i \in DOMAIN legs, Arrive(i) PROVE Answered'
  <2>1. /\ main' = main
        /\ \A j \in DOMAIN legs :
             /\ j \in DOMAIN legs' /\ legs'[j].pkg = legs[j].pkg
             /\ legs'[j].base = legs[j].base /\ legs'[j].sha = legs[j].sha
             /\ legs'[j] = legs[j] \/ legs'[j].st \in {"pending", "cancelled"}
    BY <1>9, ArriveFacts DEF Others
  <2>2. \A j \in DOMAIN legs : Green(legs'[j]) => Green(legs[j])  BY <2>1 DEF Green
  <2> QED  BY <1>1, <2>1, <2>2
<1>10. ASSUME NEW i \in DOMAIN legs, NEW st \in Stages, Moves(i, st), main' = main, npm' = npm,
              st # "published", st = "skipped" => Loaded(legs[i]) /\
                Certified(legs[i].pkg, legs[i].bytes) = "skipped"
       PROVE  Answered'
  <2>1. OneJob(i) /\ legs'[i].st = st  BY <1>10, JobMoves
  <2>2. ASSUME Green(legs'[i]), NEW c, NEW k, Own(legs[i], c, k) PROVE OnNpm(c, k)'
    <3>1. st = "skipped"  BY <1>10, <2>1, <2>2 DEF Green
    <3>2. legs[i] \in Job /\ LegInv(legs[i])  BY LegType DEF LegsInv
    <3>3. OnNpm(c, k)  BY <1>10, <2>2, <3>1, <3>2, SkipsRightly
    <3> QED  BY <1>10, <3>3 DEF OnNpm, TreeAt
  <2> QED  BY <1>3, <1>10, <2>1, <2>2
<1>11. ASSUME NEW i \in DOMAIN legs, Leg(i) PROVE Answered'
  <2>1. legs[i] \in Job /\ LegInv(legs[i])  BY LegType DEF LegsInv
  <2>2. CASE StartLeg(i)  BY <1>10, <2>2 DEF StartLeg, Stages, Others
  <2>3. CASE Resolve(i)
    <3>1. PICK d : d = Resolved(legs[i].pkg, TreeAt(TouchingCommit(legs[i]), legs[i].pkg).v,
                                main[TouchingCommit(legs[i])].pr)
      OBVIOUS
    <3>2. OneJob(i) /\ legs'[i].st = d /\ d \in {"skipped", "resolved", "refused"}
      BY <2>3, <3>1, ResolveJob, Decisions
    <3>3. main' = main /\ npm' = npm  BY <2>3 DEF Resolve, Others
    <3>4. ASSUME Green(legs'[i]), NEW c, NEW k, Own(legs[i], c, k) PROVE OnNpm(c, k)'
      <4>1. d = "skipped"  BY <3>2, <3>4 DEF Green
      <4>2. OnNpm(c, k)  BY <2>1, <3>1, <3>4, <4>1, SkipsRightly
      <4> QED  BY <3>3, <4>2 DEF OnNpm, TreeAt
    <3> QED  BY <1>3, <3>2, <3>3, <3>4
  <2>4. CASE Guard(i)
    <3>1. PICK d : d = Certified(legs[i].pkg, legs[i].bytes)  OBVIOUS
    <3>2. Moves(i, d) /\ Loaded(legs[i]) /\ d \in {"skipped", "guarded", "refused"}
      BY <2>4, <3>1, Decisions DEF Guard, Loaded
    <3>3. main' = main /\ npm' = npm  BY <2>4 DEF Guard, Others
    <3> QED  BY <1>10, <3>1, <3>2, <3>3 DEF Stages
  <2>5. CASE NpmPublish(i)
    <3>1. legs[i].st = "guarded" /\ OneJob(i)  BY <2>5, PublishFacts
    <3>2. CASE Others /\ legs'[i].st = "recheck"
      BY <1>3, <3>1, <3>2 DEF Others, Green
    <3>3. CASE Takes(i)
      <4>1. Loaded(legs[i]) /\ main' = main  BY <3>1, <3>3 DEF Loaded, Takes
      <4>2. \A c, k : Own(legs[i], c, k) => OnNpm(c, k)'  BY <2>1, <3>3, <4>1, PublishesRightly
      <4> QED  BY <1>3, <3>1, <4>1, <4>2
    <3> QED  BY <2>5, <3>2, <3>3, PublishFacts
  <2>6. CASE Recheck(i)
    <3>1. PICK d : d = Certified(legs[i].pkg, legs[i].bytes)  OBVIOUS
    <3>2. PICK st \in Stages : Moves(i, st) /\ st # "published" /\ (st = "skipped" => d = "skipped")
      BY <2>6, <3>1, Decisions DEF Recheck, Stages
    <3>3. Loaded(legs[i]) /\ main' = main /\ npm' = npm  BY <2>6 DEF Recheck, Loaded, Others
    <3> QED  BY <1>10, <3>1, <3>2, <3>3
  <2> QED  BY <1>9, <1>11, <2>2, <2>3, <2>4, <2>5, <2>6 DEF Leg
<1>12. ASSUME NEW i \in DOMAIN legs, Rerun(i) PROVE Answered'
  <2>1. OneJob(i) /\ legs'[i].st = "detect" /\ main' = main  BY <1>12, RerunFacts DEF Others
  <2> QED  BY <1>3, <2>1 DEF Green
<1>13. ASSUME NEW i \in DOMAIN legs, LegFails(i) PROVE Answered'
  BY <1>10, <1>13 DEF LegFails, Stages, Others
<1> QED  BY <1>4, <1>5, <1>6, <1>7, <1>8, <1>11, <1>12, <1>13 DEF LadderNext

-----------------------------------------------------------------------------
(* The theorems *)

LEMMA LadderStarts == LadderInit => LadderInv
<1> SUFFICES ASSUME LadderInit PROVE LadderInv  OBVIOUS
<1>1. /\ main = <<[pr |-> None, trees |-> [k \in Pkgs |-> Root]]>>
      /\ group = NoGroup /\ legs = <<>> /\ late = 0
      /\ npm = [k \in Pkgs |-> [on |-> [v \in {1} |-> Root], latest |-> 1]]
      /\ seen = [k \in Pkgs |-> [has |-> {1}, latest |-> 1]]
  BY DEF LadderInit
<1>2. Root \in Tree /\ [k \in Pkgs |-> Root] \in [Pkgs -> Tree]  BY DEF Root, Tree
<1>3. PICK f : f = [k \in Pkgs |-> Root]  OBVIOUS
<1>4. /\ main \in Seq(Commit) /\ Len(main) = 1 /\ main[1].pr = None /\ main[1].trees = f
  <2>1. PICK c : c = [pr |-> None, trees |-> f]  OBVIOUS
  <2>2. c \in Commit /\ c.pr = None /\ c.trees = f  BY <1>2, <1>3, <2>1 DEF Commit
  <2>3. main = <<c>>  BY <1>1, <1>3, <2>1
  <2> QED  BY <2>2, <2>3
<1>5. \A p \in PRs : prs[p].state = "none"  BY DEF LadderInit
<1>6. prs \in [PRs -> Request]
  <2>1. PICK r : r = [state |-> "none", pkg |-> None, kind |-> "release", head |-> 0,
                      base |-> Root, tree |-> Root, run |-> "running", kept |-> FALSE]
    OBVIOUS
  <2>2. r \in Request  BY <1>2, <2>1 DEF Request, Kinds
  <2>3. prs = [p \in PRs |-> r]  BY <2>1 DEF LadderInit
  <2> QED  BY <2>2, <2>3
<1>7. npm \in [Pkgs -> [on : UNION {[V -> Tree] : V \in SUBSET Nat}, latest : Nat]]
  <2>1. PICK on : on = [v \in {1} |-> Root]  OBVIOUS
  <2>2. on \in [{1} -> Tree] /\ {1} \in SUBSET Nat  BY <1>2, <2>1
  <2>3. on \in UNION {[V -> Tree] : V \in SUBSET Nat}  BY <2>2
  <2>4. npm = [k \in Pkgs |-> [on |-> on, latest |-> 1]]  BY <1>1, <2>1
  <2> QED  BY <2>3, <2>4
<1>8. seen \in [Pkgs -> [has : SUBSET Nat, latest : Nat]]  BY <1>1
<1>9. group \in [members : Seq(Member), passed : BOOLEAN] /\ ~group.passed
  BY <1>1, NoGroupType DEF NoGroup
<1>10. DOMAIN group.members = {}  BY <1>1 DEF NoGroup
<1>11. legs \in Seq(Job) /\ DOMAIN legs = {}  BY <1>1
<1>12. LadderTypeOK
  <2>1. late \in Nat /\ Len(main) >= 1  BY <1>1, <1>4
  <2> QED  BY <2>1, <1>4, <1>6, <1>7, <1>8, <1>9, <1>11 DEF LadderTypeOK
<1>13. RequestsInv  BY <1>5 DEF RequestsInv
<1>14. MainCommits = {1} /\ 2 .. Len(main) = {} /\ 1 .. 1 = {1}  BY <1>4 DEF MainCommits
<1>15. \A k \in Pkgs : TreeAt(1, k) = Root  BY <1>3, <1>4 DEF TreeAt
<1>16. MainInv
  <2>1. \A k \in Pkgs : InOrder(1, 1, k)
    <3> SUFFICES ASSUME NEW k \in Pkgs PROVE InOrder(1, 1, k)  OBVIOUS
    <3>1. PICK t : t = TreeAt(1, k)  OBVIOUS
    <3>2. t.v = 1 /\ ~(1 < 1)  BY <1>15, <3>1 DEF Root
    <3> QED  BY <3>1, <3>2 DEF InOrder
  <2>2. \A k \in Pkgs : TreeAt(1, k).edits = {} /\ TreeAt(1, k).v = 1  BY <1>15 DEF Root
  <2>3. \A k \in Pkgs : \A c \in MainCommits : \A b \in 1 .. c : InOrder(b, c, k)
    BY <1>14, <2>1
  <2> QED  BY <1>14, <1>15, <2>2, <2>3 DEF MainInv
<1>17. GroupInv  BY <1>9, <1>10 DEF GroupInv
<1>18. ASSUME NEW k \in Pkgs
       PROVE  DOMAIN npm[k].on = {1} /\ npm[k].latest = 1 /\ seen[k].has = {1} /\ seen[k].latest = 1
  BY <1>1
<1>19. RegistryInv  BY <1>18 DEF RegistryInv
<1>20. ShipsWhatLanded  BY <1>18 DEF ShipsWhatLanded
<1>21. LegsInv  BY <1>11 DEF LegsInv
<1>22. PassedPublishes  BY <1>11, PassedParts
<1>23. Answered  BY <1>14 DEF Answered
<1> QED  BY <1>12, <1>13, <1>16, <1>17, <1>19, <1>20, <1>21, <1>22, <1>23 DEF LadderInv

LEMMA LadderSteps == LadderInv /\ [LadderNext]_ladderVars => LadderInv'
<1> SUFFICES ASSUME LadderInv, [LadderNext]_ladderVars PROVE LadderInv'  OBVIOUS
<1>1. LadderTypeOK /\ RequestsInv /\ MainInv /\ GroupInv /\ RegistryInv /\ ShipsWhatLanded /\ LegsInv
  BY DEF LadderInv
<1>2. LadderTypeOK' /\ History  BY <1>1, StepKeeps
<1>3. RequestsInv' /\ MainInv' /\ GroupInv'  BY <1>1, <1>2, RequestsStep, MainStep, GroupStep
<1>4. RegistryInv' /\ ShipsWhatLanded' /\ LegsInv'
  BY <1>1, <1>2, RegistryStep, ShipsStep, LegsStep
<1>5. Bumped => PassedPublishes' /\ Answered'
  <2> SUFFICES ASSUME Bumped PROVE PassedPublishes' /\ Answered'  OBVIOUS
  <2>1. PassedPublishes /\ Answered  BY DEF LadderInv
  <2> QED  BY <1>1, <1>2, <2>1, PassedStep, AnsweredStep
<1> QED  BY <1>2, <1>3, <1>4, <1>5 DEF LadderInv

LEMMA LadderAlways == LadderSpec => []LadderInv
BY LadderStarts, LadderSteps, PTL DEF LadderSpec

\* What npm has of a package is what main's merges put there, built by a green
\* run of the request merged (merge-group-check.mjs, ladder-merge-resolve.mjs,
\* assert-certified-publish.mjs), however the pushes, the queue, the jobs and
\* their re-runs come, and however late the registry answers.
THEOREM WhatShipsLanded == LadderSpec => []ShipsWhatLanded
<1>1. LadderInv => ShipsWhatLanded  BY DEF LadderInv
<1> QED  BY <1>1, LadderAlways, PTL

\* No publish moves the tag back while the registry has answered in time: the
\* guard looks at the tag in the same turn of the package's concurrency group
\* in which the job publishes (ladder-build.yml, assert-certified-publish.mjs).
THEOREM NeverBack == LadderSpec => TagNeverBack
<1>1. LadderInv /\ [LadderNext]_ladderVars => [late = 0 => \A k \in Pkgs : npm'[k].latest >= npm[k].latest]_ladderVars
  <2> SUFFICES ASSUME LadderInv, [LadderNext]_ladderVars, late = 0, NEW k \in Pkgs
               PROVE  npm'[k].latest >= npm[k].latest
    OBVIOUS
  <2>1. LadderTypeOK /\ LegsInv  BY DEF LadderInv
  <2>2. npm[k].latest \in Nat  BY <2>1, EntryType
  <2>3. CASE npm' = npm  BY <2>2, <2>3
  <2>4. ASSUME NEW i \in DOMAIN legs, Takes(i), legs[i].st = "guarded"
        PROVE  npm'[k].latest >= npm[k].latest
    <3>1. PICK leg \in Job : leg = legs[i]  BY <2>1, LegType
    <3>2. LegInv(leg)  BY <2>1, <3>1 DEF LegsInv
    <3>3. leg.bytes.v >= npm[leg.pkg].latest  BY <2>4, <3>1, <3>2 DEF LegInv
    <3>4. PICK t \in Tree : t = leg.bytes  BY DEF Job
    <3>5. PICK h \in Pkgs : h = leg.pkg  BY DEF Job
    <3>6. npm' = [npm EXCEPT ![h] = Tagged(npm[h], t)]  BY <2>4, <3>1, <3>4, <3>5 DEF Takes
    <3>7. PICK now : now = Tagged(npm[h], t)  OBVIOUS
    <3>8. now.latest = t.v  BY <3>7 DEF Tagged
    <3>9. npm'[k] = IF k = h THEN now ELSE npm[k]  BY <2>1, <3>6, <3>7 DEF LadderTypeOK
    <3> QED  BY <2>2, <3>3, <3>4, <3>5, <3>8, <3>9
  <2>5. ASSUME NEW p \in PRs, Push(p) \/ RunEnds(p) \/ Expire(p) PROVE npm' = npm
    BY <2>5 DEF Push, RunEnds, Expire
  <2>6. FormGroup \/ CheckGroup \/ Land \/ UNCHANGED ladderVars => npm' = npm
    BY DEF FormGroup, CheckGroup, Land, ladderVars
  <2>7. ASSUME NEW j \in Pkgs, Dispatch(j) \/ Serve(j) PROVE npm' = npm
    BY <2>7 DEF Dispatch, Serve
  <2>8. ASSUME NEW i \in DOMAIN legs, Leg(i) \/ Rerun(i) \/ LegFails(i)
        PROVE  (npm' = npm) \/ (Takes(i) /\ legs[i].st = "guarded")
    <3>1. CASE NpmPublish(i)  BY <2>1, <3>1, PublishFacts DEF Others
    <3>2. CASE ~NpmPublish(i)
      BY <2>8, <3>2 DEF Leg, Arrive, StartLeg, Resolve, Guard, Recheck, Rerun, LegFails, Others
    <3> QED  BY <3>1, <3>2
  <2> QED  BY <2>3, <2>4, <2>5, <2>6, <2>7, <2>8 DEF LadderNext
<1> QED  BY <1>1, LadderAlways, PTL DEF LadderSpec, TagNeverBack

\* When each release raises its package's version, a merge that the group's
\* check let pass is refused only for an expired tarball or a later version on
\* npm (merge-group-check.mjs and ladder-merge-resolve.mjs decide alike).
THEOREM PassedIsPublished ==
  ASSUME Bumped PROVE LadderSpec => []PassedPublishes
<1>1. LadderInv => PassedPublishes  BY DEF LadderInv
<1> QED  BY <1>1, LadderAlways, PTL

\* And each release on main has a job of its own, which is green only when npm
\* has that very release (ladder-build.yml: the push's base is main's head
\* before it).
THEOREM NothingIsLost ==
  ASSUME Bumped PROVE LadderSpec => []NothingSilent
<1>1. ASSUME LadderInv PROVE NothingSilent
  <2>1. Answered  BY <1>1 DEF LadderInv
  <2>2. ASSUME NEW c, NEW k, NEW leg, Own(leg, c, k)
        PROVE  /\ leg.pkg = k /\ c \in leg.base + 1 .. leg.sha
               /\ leg.st \in {"published", "skipped"} =>
                    main[c].trees[k].v \in DOMAIN npm[k].on
                    /\ npm[k].on[main[c].trees[k].v] = main[c].trees[k]
    <3>1. leg.pkg = k /\ Covers(leg) = {c} /\ (Green(leg) => OnNpm(c, k))  BY <2>2, OwnParts
    <3>2. c \in Covers(leg)  BY <3>1
    <3>3. c \in leg.base + 1 .. leg.sha  BY <3>2 DEF Covers
    <3> QED  BY <3>1, <3>3 DEF Green, OnNpm, TreeAt
  <2>3. ASSUME NEW c \in 2 .. Len(main), NEW k \in Pkgs, Releases(main[c].pr, k),
               prs[main[c].pr].kind = "release"
        PROVE  \E i \in DOMAIN legs :
                 /\ legs[i].pkg = k /\ c \in legs[i].base + 1 .. legs[i].sha
                 /\ legs[i].st \in {"published", "skipped"} =>
                      main[c].trees[k].v \in DOMAIN npm[k].on
                      /\ npm[k].on[main[c].trees[k].v] = main[c].trees[k]
    <3>1. PICK i \in DOMAIN legs : Own(legs[i], c, k)  BY <2>1, <2>3 DEF Answered
    <3> QED  BY <2>2, <3>1
  <2> QED  BY <2>3 DEF NothingSilent
<1>2. LadderInv => NothingSilent  BY <1>1
<1> QED  BY <1>2, LadderAlways, PTL
=============================================================================
