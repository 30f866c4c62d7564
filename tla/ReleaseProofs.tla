---------------------------- MODULE ReleaseProofs ----------------------------
(***************************************************************************)
(* Theorems about Release: whatever the order of the script, the runs and  *)
(* the maintainers, a Release carries the version and the commit of its    *)
(* tag, one of the workflow's agrees with itself, and one cut from main is *)
(* in main.                                                                *)
(*                                                                         *)
(* Commits are only ever added and a tag, once set, stays; every other     *)
(* fact an actor has collected is about commits and tags it has seen.      *)
(*                                                                         *)
(* The second part is about EngineBuild: a status that waits for the user  *)
(* is looked at again, and a build whose process failed is repeated for a  *)
(* push only.                                                              *)
(***************************************************************************)
EXTENDS Release, EngineBuild, SequenceTheorems, TLAPS

CommitSet == [past : SUBSET Nat, files : FileSet]
RunSet == [by : {"tag", "dispatch"}, want : Versions \cup {0}, pc : RunPcs,
           head : Commits, version : Versions \cup {0}]

-----------------------------------------------------------------------------
(* What the actions do to commits, tags and runs.                          *)

\* Commits are kept.
CommitsStay == /\ Len(commits) <= Len(commits')
               /\ \A i \in 1..Len(commits) : commits'[i] = commits[i]

\* A tag is set once.
TagsStay == \A v \in Versions : tags[v] # 0 => tags'[v] = tags[v]

\* One more commit.
LEMMA OneMore ==
  ASSUME TypeOK, NEW parent \in 1..Len(commits), NEW files \in FileSet,
         commits' = Append(commits, Commit(parent, files))
  PROVE  /\ commits' \in Seq(CommitSet)
         /\ Len(commits') = Len(commits) + 1
         /\ Len(commits) \in Nat
         /\ CommitsStay
         /\ Commits \subseteq Commits'
         /\ New \in 1..Len(commits')
         /\ commits'[New] = Commit(parent, files)
<1>1. commits \in Seq(CommitSet) BY DEF TypeOK, CommitSet
<1>2. Commit(parent, files) \in CommitSet
  <2>1. commits[parent] \in CommitSet /\ Len(commits) \in Nat
    BY <1>1, ElementOfSeq, LenProperties
  <2>. QED BY <2>1 DEF Commit, CommitSet, History, New
<1>3. /\ commits' \in Seq(CommitSet) /\ Len(commits') = Len(commits) + 1
      /\ Len(commits) \in Nat
      /\ \A i \in 1..Len(commits) : commits'[i] = commits[i]
      /\ commits'[Len(commits) + 1] = Commit(parent, files)
  BY <1>1, <1>2, AppendProperties
<1>. QED BY <1>3 DEF CommitsStay, Commits, New

\* A commit that is there keeps its files.
LEMMA FilesStay ==
  ASSUME CommitsStay, NEW c \in 1..Len(commits) PROVE Files(c)' = Files(c)
BY DEF CommitsStay, Files

\* One run goes on.
LEMMA OneRun ==
  ASSUME TypeOK, NEW i \in DOMAIN runs, NEW r \in RunSet,
         runs' = [runs EXCEPT ![i] = r]
  PROVE  /\ runs' \in Seq(RunSet)
         /\ DOMAIN runs' = DOMAIN runs
         /\ runs'[i] = r
         /\ \A j \in DOMAIN runs : j # i => runs'[j] = runs[j]
<1>1. runs \in Seq(RunSet) BY DEF TypeOK, RunSet
<1>. QED BY <1>1, ExceptSeq, LenProperties

\* A run is started, or is one too many.
LEMMA NewRun ==
  ASSUME TypeOK, NEW r \in RunSet, runs' = Append(runs, r)
  PROVE  /\ runs' \in Seq(RunSet)
         /\ \A j \in DOMAIN runs' : \/ j \in DOMAIN runs /\ runs'[j] = runs[j]
                                    \/ runs'[j] = r
<1>1. runs \in Seq(RunSet) BY DEF TypeOK, RunSet
<1>. QED BY <1>1, AppendProperties, LenProperties

-----------------------------------------------------------------------------
(* Every step keeps the types, the commits and the tags.                   *)

\* A hand-made or a bumped commit has three versions.
LEMMA FilesTyped ==
  ASSUME NEW files \in FileSet, NEW v \in Versions
  PROVE  /\ BumpVersion(files, v) \in FileSet
         /\ SetVersion(files, v) \in FileSet
         /\ HandMade(files) \subseteq FileSet
<1>1. BumpVersion(files, v) \in FileSet /\ SetVersion(files, v) \in FileSet
  BY DEF FileSet, BumpVersion, SetVersion
<1>2. \A u \in Versions : BumpVersion(files, u) \in FileSet BY DEF FileSet, BumpVersion
<1>3. \A u \in Versions : [files EXCEPT !.manifest = u] \in FileSet BY DEF FileSet
<1>. QED BY <1>1, <1>2, <1>3 DEF HandMade

LEMMA FilesOf == ASSUME TypeOK, NEW c \in 1..Len(commits) PROVE Files(c) \in FileSet
<1>1. commits[c] \in CommitSet BY ElementOfSeq DEF TypeOK, CommitSet
<1>. QED BY <1>1 DEF CommitSet, Files

LEMMA RunTyped == ASSUME TypeOK, NEW i \in DOMAIN runs PROVE runs[i] \in RunSet
<1>1. runs \in Seq(RunSet) BY DEF TypeOK, RunSet
<1>. QED BY <1>1, ElementOfSeq, LenProperties

\* What is left of the types when the commits do not change.
LEMMA SameCommits ==
  ASSUME TypeOK, commits' = commits
  PROVE  Commits' = Commits /\ CommitsStay /\ RunSet' = RunSet
         /\ Len(commits) \in Nat
BY LenProperties DEF TypeOK, Commits, CommitsStay, RunSet, RunPcs

\* A longer history leaves the references to it in range.
LEMMA MoreCommits ==
  ASSUME TypeOK, NEW parent \in 1..Len(commits), NEW files \in FileSet,
         commits' = Append(commits, Commit(parent, files))
  PROVE  /\ main \in 1..Len(commits') /\ head \in 1..Len(commits')
         /\ tags \in [Versions -> Commits'] /\ tagged \in [Versions -> Commits']
         /\ released \in [Versions -> [zip : Commits',
                            by : {"nobody", "script", "tag", "dispatch"}]]
         /\ RunSet \subseteq RunSet'
         /\ runs \in Seq(RunSet')
<1>1. Commits \subseteq Commits' /\ Len(commits') = Len(commits) + 1 /\ Len(commits) \in Nat
  BY OneMore
<1>2. RunSet \subseteq RunSet' BY <1>1 DEF RunSet, RunPcs
<1>3. runs \in Seq(RunSet) BY DEF TypeOK, RunSet
<1>4. runs \in Seq(RunSet') BY <1>2, <1>3, SeqMonotonic
<1>. QED BY <1>1, <1>2, <1>4 DEF TypeOK

LEMMA SomeVersion == 1 \in Versions /\ Versions \subseteq Nat BY ReleaseAssumption

LEMMA StartedTyped ==
  ASSUME TypeOK, NEW v \in Versions, runs' = Started(v)
  PROVE  runs' \in Seq(RunSet)
<1>1. TagRun(v) \in RunSet
  <2>1. 0 \in Commits BY LenProperties DEF TypeOK, Commits
  <2>. QED BY <2>1 DEF TagRun, RunSet, RunPcs
<1>2. runs \in Seq(RunSet) BY DEF TypeOK, RunSet
<1>. QED BY <1>1, <1>2, AppendProperties DEF Started

LEMMA ToTyped ==
  ASSUME TypeOK, NEW i \in DOMAIN runs, NEW pc \in RunPcs, To(i, pc)
  PROVE  /\ runs' \in Seq(RunSet)
         /\ DOMAIN runs' = DOMAIN runs
         /\ runs'[i] = [runs[i] EXCEPT !.pc = pc]
         /\ \A j \in DOMAIN runs : j # i => runs'[j] = runs[j]
<1>1. [runs[i] EXCEPT !.pc = pc] \in RunSet BY RunTyped DEF RunSet
<1>2. runs' = [runs EXCEPT ![i] = [runs[i] EXCEPT !.pc = pc]] BY DEF To
<1>. QED BY <1>1, <1>2, OneRun

ScriptSet == [pc : {"idle", "pack", "push", "create"}, version : Versions \cup {0}]
Publications == [zip : Commits, by : {"nobody", "script", "tag", "dispatch"}]
Kept == CommitsStay /\ TagsStay

\* The types again, by name.
LEMMA Types ==
  TypeOK <=> /\ commits \in Seq(CommitSet)
             /\ main \in 1..Len(commits) /\ head \in 1..Len(commits)
             /\ tags \in [Versions -> Commits] /\ tagged \in [Versions -> Commits]
             /\ released \in [Versions -> Publications]
             /\ script \in ScriptSet /\ runs \in Seq(RunSet) /\ pushes \in Nat
BY DEF TypeOK, CommitSet, Publications, ScriptSet, RunSet

LEMMA TypesNext ==
  ASSUME commits' \in Seq(CommitSet),
         main' \in 1..Len(commits'), head' \in 1..Len(commits'),
         tags' \in [Versions -> Commits'], tagged' \in [Versions -> Commits'],
         released' \in [Versions -> Publications'],
         script' \in ScriptSet, runs' \in Seq(RunSet'), pushes' \in Nat
  PROVE  TypeOK'
BY DEF TypeOK, CommitSet, Publications, ScriptSet, RunSet

\* A step that adds no commit.
LEMMA NoCommit ==
  ASSUME TypeOK, UNCHANGED commits
  PROVE  /\ Commits' = Commits /\ CommitsStay /\ RunSet' = RunSet
         /\ Publications' = Publications
         /\ main \in 1..Len(commits') /\ head \in 1..Len(commits')
BY SameCommits DEF Publications, TypeOK

\* release.mjs.
LEMMA ScriptTyped ==
  ASSUME TypeOK, ScriptInv,
         \/ \E v \in Versions : ScriptCommits(v)
         \/ ScriptPacks \/ ScriptPushes \/ ScriptCreates
  PROVE  TypeOK' /\ Kept
<1>1. ASSUME NEW v \in Versions, ScriptCommits(v) PROVE TypeOK' /\ Kept
  <2>1. SetVersion(Files(head), v) \in FileSet BY FilesOf, FilesTyped DEF TypeOK
  <2>2. /\ commits' = Append(commits, Commit(head, SetVersion(Files(head), v)))
        /\ head \in 1..Len(commits)
    BY <1>1 DEF ScriptCommits, TypeOK
  <2>3. commits' \in Seq(CommitSet) /\ New \in 1..Len(commits') /\ CommitsStay
    BY <2>1, <2>2, OneMore
  <2>4. New \in Commits' BY <2>3 DEF Commits
  <2>5. /\ main \in 1..Len(commits') /\ tags \in [Versions -> Commits']
        /\ tagged \in [Versions -> Commits'] /\ released \in [Versions -> Publications']
        /\ runs \in Seq(RunSet')
    BY <2>1, <2>2, MoreCommits DEF Publications
  <2>6. /\ script' \in ScriptSet /\ tagged' \in [Versions -> Commits']
        /\ head' \in 1..Len(commits')
        /\ UNCHANGED <<main, tags, released, runs, pushes>>
    BY <1>1, <2>3, <2>4, <2>5 DEF ScriptCommits, ScriptSet
  <2>. QED BY <2>3, <2>5, <2>6, Types, TypesNext DEF Kept, TagsStay
<1>2. ASSUME ScriptPacks PROVE TypeOK' /\ Kept
  <2>0. script \in ScriptSet BY Types
  <2>1. [script EXCEPT !.pc = "push"] \in ScriptSet BY <2>0 DEF ScriptSet
  <2>2. script' \in ScriptSet BY <1>2, <2>1 DEF ScriptPacks, ScriptSet, Idle
  <2>. QED BY <1>2, <2>2, Types, TypesNext, NoCommit DEF ScriptPacks, Kept, TagsStay
<1>3. ASSUME ScriptPushes PROVE TypeOK' /\ Kept
  <2>0. /\ script \in ScriptSet /\ script.version \in Versions
        /\ tags \in [Versions -> Commits] /\ head \in Commits
    BY <1>3 DEF ScriptPushes, ScriptInv, TypeOK, ScriptSet, Commits
  <2>1. script' \in ScriptSet BY <1>3, <2>0 DEF ScriptPushes, ScriptSet, Idle
  <2>2. main' \in 1..Len(commits) BY <1>3 DEF ScriptPushes, TypeOK
  <2>3. tags' \in [Versions -> Commits] /\ TagsStay
    BY <1>3, <2>0 DEF ScriptPushes, TagsStay
  <2>4. runs' \in Seq(RunSet)
    BY <1>3, <2>0, StartedTyped, Types DEF ScriptPushes
  <2>. QED BY <1>3, <2>1, <2>2, <2>3, <2>4, Types, TypesNext, NoCommit DEF ScriptPushes, Kept
<1>4. ASSUME ScriptCreates PROVE TypeOK' /\ Kept
  <2>0. released \in [Versions -> Publications] /\ head \in Commits
    BY DEF TypeOK, Publications, Commits
  <2>1. script' \in ScriptSet BY <1>4 DEF ScriptSet, Idle, ScriptCreates
  <2>2. [zip |-> head, by |-> "script"] \in Publications BY <2>0 DEF Publications
  <2>3. released' \in [Versions -> Publications] BY <1>4, <2>0, <2>2 DEF ScriptCreates
  <2>. QED BY <1>4, <2>1, <2>3, Types, TypesNext, NoCommit DEF ScriptCreates, Kept, TagsStay
<1>. QED BY <1>1, <1>2, <1>3, <1>4

\* The maintainers.
LEMMA MaintainersTyped ==
  ASSUME TypeOK,
         PushMain \/ Recover \/ \E v \in Versions : PushTag(v)
  PROVE  TypeOK' /\ Kept
<1>1. ASSUME PushMain PROVE TypeOK' /\ Kept
  <2>1. PICK f \in HandMade(Files(main)) : commits' = Append(commits, Commit(main, f))
    BY <1>1 DEF PushMain
  <2>2. f \in FileSet BY <2>1, FilesOf, FilesTyped, SomeVersion DEF TypeOK
  <2>3. main \in 1..Len(commits) BY DEF TypeOK
  <2>4. commits' \in Seq(CommitSet) /\ New \in 1..Len(commits') /\ CommitsStay
    BY <2>1, <2>2, <2>3, OneMore
  <2>5. /\ head \in 1..Len(commits') /\ tags \in [Versions -> Commits']
        /\ tagged \in [Versions -> Commits'] /\ released \in [Versions -> Publications']
        /\ runs \in Seq(RunSet')
    BY <2>1, <2>2, <2>3, MoreCommits DEF Publications
  <2>6. /\ main' = New /\ pushes' \in Nat
        /\ UNCHANGED <<tags, released, head, tagged, script, runs>>
    BY <1>1 DEF PushMain, TypeOK
  <2>. QED BY <2>4, <2>5, <2>6, Types, TypesNext DEF Kept, TagsStay
<1>2. ASSUME NEW v \in Versions, PushTag(v) PROVE TypeOK' /\ Kept
  <2>1. DOMAIN commits \subseteq Commits BY LenProperties DEF TypeOK, Commits
  <2>2. tags' \in [Versions -> Commits] /\ TagsStay
    BY <1>2, <2>1 DEF PushTag, TypeOK, TagsStay
  <2>3. runs' \in Seq(RunSet) BY <1>2, StartedTyped DEF PushTag
  <2>4. pushes' \in Nat BY <1>2 DEF PushTag, TypeOK
  <2>. QED BY <1>2, <2>2, <2>3, <2>4, Types, TypesNext, NoCommit DEF PushTag, Kept
<1>3. ASSUME Recover PROVE TypeOK' /\ Kept
  BY <1>3, Types, TypesNext, NoCommit DEF Recover, Kept, TagsStay
<1>. QED BY <1>1, <1>2, <1>3

\* release.yml.
LEMMA RunStepTyped ==
  ASSUME TypeOK, RunInv, NEW i \in DOMAIN runs,
         \/ RunChecks(i) \/ RunPacks(i) \/ RunPushes(i)
         \/ RunPushesTag(i) \/ RunPublishes(i)
  PROVE  /\ TypeOK' /\ Kept /\ UNCHANGED commits
         /\ \E pc \in RunPcs : To(i, pc)
<1>1. PICK pc \in RunPcs : To(i, pc)
  BY DEF RunChecks, RunPacks, RunPushes, RunPushesTag, RunPublishes, Fails, RunPcs
<1>2. runs' \in Seq(RunSet) BY <1>1, ToTyped
<1>3. runs[i] \in RunSet BY RunTyped
<1>4. CASE RunChecks(i) \/ RunPacks(i)
  BY <1>1, <1>2, <1>4, Types, TypesNext, NoCommit DEF RunChecks, RunPacks, Kept, TagsStay
<1>5. CASE RunPushes(i)
  <2>1. runs[i].head \in 1..Len(commits)
    BY <1>3, <1>5 DEF RunPushes, RunInv, RunFits, RunSet, Commits
  <2>2. main' \in 1..Len(commits) BY <1>5, <2>1, Types DEF RunPushes
  <2>. QED BY <1>1, <1>2, <1>5, <2>2, Types, TypesNext, NoCommit DEF RunPushes, Kept, TagsStay
<1>6. CASE RunPushesTag(i)
  <2>1. runs[i].version \in Versions /\ runs[i].head \in Commits
    BY <1>3, <1>6 DEF RunPushesTag, RunInv, RunFits, RunSet
  <2>2. tags' \in [Versions -> Commits] /\ TagsStay
    BY <1>6, <2>1, Types DEF RunPushesTag, TagsStay
  <2>. QED BY <1>1, <1>2, <1>6, <2>2, Types, TypesNext, NoCommit DEF RunPushesTag, Kept
<1>7. CASE RunPublishes(i)
  <2>1. [zip |-> runs[i].head, by |-> runs[i].by] \in Publications
    BY <1>3 DEF RunSet, Publications
  <2>2. released' \in [Versions -> Publications]
    BY <1>7, <2>1, Types DEF RunPublishes
  <2>. QED BY <1>1, <1>2, <1>7, <2>2, Types, TypesNext, NoCommit
           DEF RunPublishes, Kept, TagsStay
<1>. QED BY <1>1, <1>4, <1>5, <1>6, <1>7

\* A run that is asked for.
LEMMA DispatchTyped ==
  ASSUME TypeOK, NEW want \in Versions \cup {0}, Dispatch(want)
  PROVE  TypeOK' /\ Kept
<1>1. main \in Commits BY Types DEF Commits
<1>2. [by |-> "dispatch", want |-> want, pc |-> "start", head |-> main, version |-> 0] \in RunSet
  BY <1>1 DEF RunSet, RunPcs
<1>3. runs' \in Seq(RunSet) BY <1>2, NewRun DEF Dispatch
<1>. QED BY <1>3, Types, TypesNext, NoCommit DEF Dispatch, Kept, TagsStay

\* Where a run begins: at a commit that is there, or it has failed.
Begins(r, new) ==
  \/ new = [r EXCEPT !.pc = "failed"] /\ r.by = "dispatch"
  \/ /\ new.pc = "check" /\ new.by = r.by /\ new.want = r.want
     /\ new.version = r.want /\ new.head # 0
     /\ r.by = "tag" => new.head = tags[r.want]

LEMMA RunStartsTyped ==
  ASSUME TypeOK, RunInv, NEW i \in DOMAIN runs, RunStarts(i)
  PROVE  /\ TypeOK' /\ Kept
         /\ UNCHANGED <<tags, released, head, script>>
         /\ DOMAIN runs' = DOMAIN runs
         /\ Begins(runs[i], runs'[i])
         /\ \A j \in DOMAIN runs : j # i => runs'[j] = runs[j]
<1> DEFINE r == runs[i]
           from == IF r.by = "tag" THEN tags[r.want] ELSE r.head
           bumps == r.by = "dispatch" /\ r.want # 0 /\ r.want # Files(from).manifest
           exists == r.by = "dispatch" /\ r.want # 0 /\ tags[r.want] # 0
           same == bumps /\ r.want = Files(from).pkg
           files == BumpVersion(Files(from), r.want)
           Goes(h) == [r EXCEPT !.pc = "check", !.version = r.want, !.head = h]
<1>0. r \in RunSet /\ r.pc = "start" BY RunTyped DEF RunStarts
<1>1. UNCHANGED <<main, tags, released, head, tagged, script, pushes>>
  BY DEF RunStarts
<1>2. from \in 1..Len(commits)
  <2>1. RunFits(commits, tags, r) BY DEF RunInv
  <2>2. r.by = "tag" => tags[r.want] \in Commits \ {0} BY <2>1, Types DEF RunFits
  <2>3. r.by = "dispatch" => r.head \in Commits \ {0} BY <1>0, <2>1 DEF RunFits, RunSet
  <2>. QED BY <1>0, <2>2, <2>3, Types DEF Commits, RunSet
<1>3. CASE exists \/ same
  <2>1. To(i, "failed") /\ UNCHANGED commits BY <1>3 DEF RunStarts, Fails
  <2>2. "failed" \in RunPcs BY DEF RunPcs
  <2>3. runs' \in Seq(RunSet) BY <2>1, <2>2, ToTyped
  <2>4. TypeOK' /\ Kept BY <1>1, <2>1, <2>3, Types, TypesNext, NoCommit DEF Kept, TagsStay
  <2>. QED BY <1>1, <1>3, <2>1, <2>2, <2>4, ToTyped DEF Begins
<1>4. CASE ~(exists \/ same) /\ bumps
  <2>1. commits' = Append(commits, Commit(from, files)) /\ runs' = [runs EXCEPT ![i] = Goes(New)]
    BY <1>4 DEF RunStarts
  <2>2. files \in FileSet BY <1>0, <1>2, <1>4, FilesOf, FilesTyped DEF RunSet
  <2>3. from \in 1..Len(commits) BY <1>2
  <2>4. commits' \in Seq(CommitSet) /\ New \in 1..Len(commits') /\ CommitsStay
    BY <2>1, <2>2, <2>3, OneMore
  <2>5. /\ main \in 1..Len(commits') /\ head \in 1..Len(commits')
        /\ tags \in [Versions -> Commits'] /\ tagged \in [Versions -> Commits']
        /\ released \in [Versions -> Publications']
        /\ runs \in Seq(RunSet') /\ RunSet \subseteq RunSet'
    BY <2>1, <2>2, <2>3, MoreCommits DEF Publications
  <2>6. Goes(New) \in RunSet'
    <3>1. r \in RunSet' /\ New \in Commits' BY <1>0, <2>4, <2>5 DEF Commits
    <3>. QED BY <3>1 DEF RunSet, RunPcs
  <2>7. /\ runs' \in Seq(RunSet') /\ DOMAIN runs' = DOMAIN runs /\ runs'[i] = Goes(New)
        /\ \A j \in DOMAIN runs : j # i => runs'[j] = runs[j]
    BY <2>1, <2>5, <2>6, ExceptSeq, LenProperties
  <2>8. TypeOK' /\ Kept BY <1>1, <2>4, <2>5, <2>7, Types, TypesNext DEF Kept, TagsStay
  <2>9. New # 0 BY <2>4
  <2>. QED BY <1>0, <1>1, <1>4, <2>7, <2>8, <2>9 DEF Begins, RunSet
<1>5. CASE ~(exists \/ same) /\ ~bumps
  <2>1. UNCHANGED commits /\ runs' = [runs EXCEPT ![i] = Goes(from)]
    BY <1>5 DEF RunStarts
  <2>2. from \in Commits BY <1>2 DEF Commits
  <2>3. Goes(from) \in RunSet BY <1>0, <2>2 DEF RunSet, RunPcs
  <2>4. /\ runs' \in Seq(RunSet) /\ DOMAIN runs' = DOMAIN runs /\ runs'[i] = Goes(from)
        /\ \A j \in DOMAIN runs : j # i => runs'[j] = runs[j]
    BY <2>1, <2>3, OneRun
  <2>5. TypeOK' /\ Kept BY <1>1, <2>1, <2>4, Types, TypesNext, NoCommit DEF Kept, TagsStay
  <2>. QED BY <1>0, <1>1, <1>2, <2>4, <2>5 DEF Begins, RunSet
<1>. QED BY <1>3, <1>4, <1>5

-----------------------------------------------------------------------------
(* What the script and the runs know.                                      *)

\* What a run knows of commits and tags stays so.
LEMMA FitsStay ==
  ASSUME TypeOK, Kept, NEW r \in RunSet, RunFits(commits, tags, r)
  PROVE  RunFits(commits', tags', r)
<1>1. r.head # 0 => r.head \in 1..Len(commits) BY DEF RunSet, Commits
<1>2. r.head # 0 => commits'[r.head] = commits[r.head] BY <1>1 DEF Kept, CommitsStay
<1>3. \A v \in Versions : tags[v] # 0 => tags'[v] = tags[v] BY DEF Kept, TagsStay
<1>. QED BY <1>2, <1>3 DEF RunFits

LEMMA OthersFit ==
  ASSUME TypeOK, RunInv, Kept, NEW j \in DOMAIN runs, runs'[j] = runs[j]
  PROVE  RunFits(commits', tags', runs'[j])
BY RunTyped, FitsStay DEF RunInv

LEMMA SameRuns == ASSUME TypeOK, RunInv, Kept, UNCHANGED runs PROVE RunInv'
BY OthersFit DEF RunInv

\* A run starts for a tag that was set.
LEMMA StartedFits ==
  ASSUME TypeOK, RunInv, Kept, NEW v \in Versions, tags'[v] # 0, runs' = Started(v)
  PROVE  RunInv'
<1>1. TagRun(v) \in RunSet
  <2>1. 0 \in Commits BY LenProperties DEF TypeOK, Commits
  <2>. QED BY <2>1 DEF TagRun, RunSet, RunPcs
<1>2. RunFits(commits', tags', TagRun(v)) BY DEF RunFits, TagRun
<1>3. CASE runs' = runs BY <1>3, SameRuns
<1>4. CASE runs' = Append(runs, TagRun(v))
  <2>1. SUFFICES ASSUME NEW j \in DOMAIN runs' PROVE RunFits(commits', tags', runs'[j])
    BY DEF RunInv
  <2>2. (j \in DOMAIN runs /\ runs'[j] = runs[j]) \/ runs'[j] = TagRun(v)
    BY <1>1, <1>4, NewRun
  <2>. QED BY <1>2, <2>2, OthersFit
<1>. QED BY <1>3, <1>4 DEF Started

\* A run that is asked for has a commit of main.
LEMMA DispatchFits ==
  ASSUME TypeOK, RunInv, Kept, NEW want \in Versions \cup {0}, Dispatch(want)
  PROVE  RunInv'
<1> DEFINE r == [by |-> "dispatch", want |-> want, pc |-> "start", head |-> main, version |-> 0]
<1>1. main \in Commits /\ main # 0 BY Types DEF Commits
<1>2. r \in RunSet BY <1>1 DEF RunSet, RunPcs
<1>3. RunFits(commits', tags', r) BY <1>1 DEF RunFits
<1>4. SUFFICES ASSUME NEW j \in DOMAIN runs' PROVE RunFits(commits', tags', runs'[j])
  BY DEF RunInv
<1>5. (j \in DOMAIN runs /\ runs'[j] = runs[j]) \/ runs'[j] = r
  <2>. HIDE DEF r
  <2>1. runs' = Append(runs, r) BY DEF Dispatch, r
  <2>. QED BY <1>2, <2>1, NewRun
<1>. QED BY <1>3, <1>5, OthersFit

\* A run that begins has its tag's commit.
LEMMA BeginningFits ==
  ASSUME TypeOK, RunInv, NEW i \in DOMAIN runs, RunStarts(i) PROVE RunInv'
<1>1. /\ Kept /\ UNCHANGED tags /\ DOMAIN runs' = DOMAIN runs
      /\ Begins(runs[i], runs'[i])
      /\ \A j \in DOMAIN runs : j # i => runs'[j] = runs[j]
  BY RunStartsTyped
<1>2. RunFits(commits, tags, runs[i]) /\ runs[i] \in RunSet BY RunTyped DEF RunInv
<1>3. RunFits(commits', tags', runs'[i])
  <2>1. CASE runs'[i] = [runs[i] EXCEPT !.pc = "failed"] /\ runs[i].by = "dispatch"
    BY <1>2, <2>1 DEF RunFits, RunSet
  <2>2. CASE /\ runs'[i].pc = "check" /\ runs'[i].by = runs[i].by
             /\ runs'[i].want = runs[i].want /\ runs'[i].version = runs[i].want
             /\ runs'[i].head # 0
             /\ runs[i].by = "tag" => runs'[i].head = tags[runs[i].want]
    BY <1>1, <1>2, <2>2 DEF RunFits
  <2>. QED BY <1>1, <2>1, <2>2 DEF Begins
<1>. QED BY <1>1, <1>3, OthersFit DEF RunInv

\* A run that goes on knows one thing more.
LEMMA GoingOnFits ==
  ASSUME TypeOK, RunInv, NEW i \in DOMAIN runs,
         \/ RunChecks(i) \/ RunPacks(i) \/ RunPushes(i)
         \/ RunPushesTag(i) \/ RunPublishes(i)
  PROVE  RunInv'
<1>1. PICK pc \in RunPcs : To(i, pc) BY RunStepTyped
<1>2. /\ Kept /\ DOMAIN runs' = DOMAIN runs
      /\ runs'[i] = [runs[i] EXCEPT !.pc = pc]
      /\ \A j \in DOMAIN runs : j # i => runs'[j] = runs[j]
  BY <1>1, RunStepTyped, ToTyped
<1>3. runs[i] \in RunSet /\ runs'[i].pc = pc BY <1>2, RunTyped DEF RunSet
<1>4. RunFits(commits', tags', runs[i]) BY <1>2, <1>3, FitsStay DEF RunInv
<1>5. UNCHANGED commits BY RunStepTyped
<1>6. RunFits(commits', tags', runs'[i])
  <2>1. CASE RunChecks(i)
    BY <1>2, <1>3, <1>4, <1>5, <2>1 DEF RunChecks, To, Fails, RunFits, RunSet, LockIsFresh, Files
  <2>2. CASE RunPacks(i)
    BY <1>2, <1>3, <1>4, <1>5, <2>2 DEF RunPacks, To, Fails, RunFits, RunSet, Files
  <2>3. CASE RunPushes(i)
    BY <1>2, <1>3, <1>4, <1>5, <2>3 DEF RunPushes, To, Fails, RunFits, RunSet
  <2>4. CASE RunPushesTag(i)
    <3>1. runs[i].version \in Versions BY <2>4, <1>4 DEF RunPushesTag, RunFits
    <3>2. tags[runs[i].version] = 0 => tags'[runs[i].version] = runs[i].head
      BY <2>4, <3>1, Types DEF RunPushesTag
    <3>3. \/ tags[runs[i].version] = 0 /\ To(i, "publish")
          \/ To(i, "failed")
      BY <2>4 DEF RunPushesTag, Fails
    <3>4. \/ runs'[i] = [runs[i] EXCEPT !.pc = "publish"] /\ tags[runs[i].version] = 0
          \/ runs'[i] = [runs[i] EXCEPT !.pc = "failed"]
      BY <3>3, ToTyped DEF RunPcs
    <3>. QED BY <1>3, <1>4, <1>5, <2>4, <3>2, <3>4 DEF RunPushesTag, RunFits, RunSet
  <2>5. CASE RunPublishes(i)
    BY <1>2, <1>3, <1>4, <1>5, <2>5 DEF RunPublishes, To, RunFits, RunSet
  <2>. QED BY <2>1, <2>2, <2>3, <2>4, <2>5
<1>. QED BY <1>2, <1>6, OthersFit DEF RunInv

-----------------------------------------------------------------------------
(* The Releases.                                                           *)

\* What a Release says of itself: a commit that is there, and its tag's.
Sound(log, tag, rel, v) ==
  rel[v] # NoRelease =>
    /\ rel[v].zip # 0
    /\ rel[v].zip = tag[v] /\ log[rel[v].zip].files.manifest = v
    /\ rel[v].by # "script" =>
         log[rel[v].zip].files = [manifest |-> v, pkg |-> v, lock |-> v]

AllSound == \A v \in Versions : Sound(commits, tags, released, v)

LEMMA SoundIs ==
  AllSound <=> /\ \A v \in Published : released[v].zip # 0
               /\ ReleaseIsItsTag /\ WorkflowReleasesAgree
BY DEF AllSound, Sound, Published, ReleaseIsItsTag, WorkflowReleasesAgree, Files

LEMMA SoundIsNext ==
  AllSound' => (/\ \A v \in Published : released[v].zip # 0
                /\ ReleaseIsItsTag /\ WorkflowReleasesAgree)'
BY DEF AllSound, Sound, Published, ReleaseIsItsTag, WorkflowReleasesAgree, Files

\* A Release that is there stays sound.
LEMMA SoundStays ==
  ASSUME TypeOK, AllSound, Kept, NEW v \in Versions, released'[v] = released[v]
  PROVE  Sound(commits', tags', released', v)
<1>1. released[v] # NoRelease => released[v].zip \in 1..Len(commits)
  <2>1. released[v].zip \in Commits /\ Len(commits) \in Nat
    BY Types, LenProperties DEF Publications
  <2>2. released[v] # NoRelease => released[v].zip # 0 BY DEF AllSound, Sound
  <2>. QED BY <2>1, <2>2 DEF Commits
<1>2. released[v] # NoRelease => tags'[v] = tags[v]
  BY DEF AllSound, Sound, Kept, TagsStay
<1>. QED BY <1>1, <1>2 DEF AllSound, Sound, Kept, CommitsStay

LEMMA SameReleases ==
  ASSUME TypeOK, AllSound, Kept, UNCHANGED released PROVE AllSound'
BY SoundStays DEF AllSound

LEMMA CreateSound ==
  ASSUME TypeOK, ScriptInv, AllSound, ScriptCreates PROVE AllSound'
<1>1. Kept /\ script.version \in Versions /\ head \in 1..Len(commits)
  BY ScriptTyped DEF ScriptInv, ScriptCreates, TypeOK
<1>2. tags[script.version] = head /\ commits[head].files.manifest = script.version
  BY DEF ScriptCreates, ScriptInv, Files
<1>3. UNCHANGED <<commits, tags>> BY DEF ScriptCreates
<1>4. SUFFICES ASSUME NEW v \in Versions PROVE Sound(commits', tags', released', v)
  BY DEF AllSound
<1>5. CASE released'[v] = released[v] BY <1>1, <1>5, SoundStays
<1>6. CASE v = script.version /\ released'[v] = [zip |-> head, by |-> "script"]
  BY <1>1, <1>2, <1>3, <1>6 DEF Sound
<1>. QED BY <1>1, <1>5, <1>6, Types DEF ScriptCreates

LEMMA PublishSound ==
  ASSUME TypeOK, RunInv, AllSound, NEW i \in DOMAIN runs, RunPublishes(i)
  PROVE  AllSound'
<1> DEFINE r == runs[i]
<1>1. Kept /\ r \in RunSet /\ RunFits(commits, tags, r) /\ r.pc = "publish"
  BY RunStepTyped, RunTyped DEF RunInv, RunPublishes
<1>2. /\ r.version \in Versions /\ r.version # 0 /\ r.head # 0
      /\ r.head = tags[r.version]
      /\ AsExpected(commits[r.head].files, r.version)
      /\ commits[r.head].files.lock = commits[r.head].files.pkg
  BY <1>1, ReleaseAssumption DEF RunFits
<1>3. commits[r.head].files \in FileSet
  <2>1. r.head \in 1..Len(commits) BY <1>1, <1>2 DEF RunSet, Commits
  <2>. QED BY <2>1, FilesOf DEF Files
<1>4. commits[r.head].files =
        [manifest |-> r.version, pkg |-> r.version, lock |-> r.version]
  BY <1>2, <1>3 DEF AsExpected, FileSet
<1>5. UNCHANGED <<commits, tags>> BY DEF RunPublishes
<1>6. SUFFICES ASSUME NEW v \in Versions PROVE Sound(commits', tags', released', v)
  BY DEF AllSound
<1>7. CASE released'[v] = released[v] BY <1>1, <1>7, SoundStays
<1>8. CASE v = r.version /\ released'[v] = [zip |-> r.head, by |-> r.by]
  BY <1>2, <1>4, <1>5, <1>8 DEF Sound
<1>. QED BY <1>1, <1>2, <1>7, <1>8, Types DEF RunPublishes

-----------------------------------------------------------------------------
(* The theorems.                                                           *)

\* What ScriptInv says of the script stays while others work.
LEMMA ScriptInvStays ==
  ASSUME TypeOK, ScriptInv, Kept, UNCHANGED <<script, head>> PROVE ScriptInv'
<1>1. head \in 1..Len(commits) /\ commits'[head] = commits[head]
  BY DEF TypeOK, Kept, CommitsStay
<1>2. script.pc = "create" => tags'[script.version] = tags[script.version]
  BY <1>1 DEF ScriptInv, Kept, TagsStay
<1>. QED BY <1>1, <1>2 DEF ScriptInv, Files

LEMMA InitRelease == Init => ReleaseInv
<1>. SUFFICES ASSUME Init PROVE ReleaseInv OBVIOUS
<1>1. [past |-> {1}, files |-> [manifest |-> 1, pkg |-> 1, lock |-> 1]] \in CommitSet
  BY SomeVersion DEF CommitSet, FileSet
<1>2. commits \in Seq(CommitSet) /\ Len(commits) = 1 BY <1>1 DEF Init
<1>3. runs = <<>> /\ runs \in Seq(RunSet) BY DEF Init
<1>4. 0 \in Commits BY <1>2 DEF Commits
<1>5. NoRelease \in Publications BY <1>4 DEF NoRelease, Publications
<1>6. TypeOK BY <1>2, <1>3, <1>4, <1>5, Types DEF Init, ScriptSet, Idle
<1>7. ScriptInv /\ RunInv BY <1>3 DEF Init, Idle, ScriptInv, RunInv
<1>8. AllSound BY DEF Init, AllSound, Sound
<1>. QED BY <1>6, <1>7, <1>8, SoundIs DEF ReleaseInv

LEMMA NextRelease == ASSUME ReleaseInv, [Next]_vars PROVE ReleaseInv'
<1>0. TypeOK /\ ScriptInv /\ RunInv /\ AllSound BY SoundIs DEF ReleaseInv
<1>. SUFFICES TypeOK' /\ ScriptInv' /\ RunInv' /\ AllSound'
  BY SoundIsNext DEF ReleaseInv
<1>1. ASSUME NEW v \in Versions, ScriptCommits(v)
      PROVE  TypeOK' /\ ScriptInv' /\ RunInv' /\ AllSound'
  <2>1. TypeOK' /\ Kept BY <1>0, <1>1, ScriptTyped
  <2>2. ScriptInv' BY <1>1 DEF ScriptCommits, ScriptInv
  <2>. QED BY <1>0, <1>1, <2>1, <2>2, SameRuns, SameReleases DEF ScriptCommits
<1>2. ASSUME ScriptPacks PROVE TypeOK' /\ ScriptInv' /\ RunInv' /\ AllSound'
  <2>1. TypeOK' /\ Kept BY <1>0, <1>2, ScriptTyped
  <2>2. script \in ScriptSet BY <1>0, Types
  <2>3. ScriptInv'
    BY <1>0, <1>2, <2>2 DEF ScriptPacks, ScriptInv, ScriptSet, Idle, Files
  <2>. QED BY <1>0, <1>2, <2>1, <2>3, SameRuns, SameReleases DEF ScriptPacks
<1>3. ASSUME ScriptPushes PROVE TypeOK' /\ ScriptInv' /\ RunInv' /\ AllSound'
  <2>1. TypeOK' /\ Kept BY <1>0, <1>3, ScriptTyped
  <2>2. /\ script \in ScriptSet /\ tags \in [Versions -> Commits]
        /\ script.version \in Versions /\ head # 0
    BY <1>0, <1>3, Types DEF ScriptPushes, ScriptInv
  <2>3. ScriptInv'
    BY <1>0, <1>3, <2>2 DEF ScriptPushes, BothTaken, ScriptInv, ScriptSet, Idle, Files
  <2>4. RunInv'
    <3>1. CASE tags[script.version] = 0
      <4>1. tags'[script.version] # 0 /\ runs' = Started(script.version)
        BY <1>3, <2>2, <3>1 DEF ScriptPushes
      <4>. QED BY <1>0, <2>1, <2>2, <4>1, StartedFits
    <3>2. CASE tags[script.version] # 0
      BY <1>0, <1>3, <2>1, <3>2, SameRuns DEF ScriptPushes
    <3>. QED BY <3>1, <3>2
  <2>. QED BY <1>0, <1>3, <2>1, <2>3, <2>4, SameReleases DEF ScriptPushes
<1>4. ASSUME ScriptCreates PROVE TypeOK' /\ ScriptInv' /\ RunInv' /\ AllSound'
  <2>1. TypeOK' /\ Kept BY <1>0, <1>4, ScriptTyped
  <2>2. ScriptInv' BY <1>4 DEF ScriptCreates, ScriptInv, Idle
  <2>. QED BY <1>0, <1>4, <2>1, <2>2, SameRuns, CreateSound DEF ScriptCreates
<1>5. ASSUME PushMain PROVE TypeOK' /\ ScriptInv' /\ RunInv' /\ AllSound'
  <2>1. TypeOK' /\ Kept BY <1>0, <1>5, MaintainersTyped
  <2>. QED BY <1>0, <1>5, <2>1, ScriptInvStays, SameRuns, SameReleases DEF PushMain
<1>6. ASSUME NEW v \in Versions, PushTag(v)
      PROVE  TypeOK' /\ ScriptInv' /\ RunInv' /\ AllSound'
  <2>1. TypeOK' /\ Kept BY <1>0, <1>6, MaintainersTyped
  <2>2. tags'[v] # 0
    <3>1. DOMAIN commits = 1..Len(commits) /\ Len(commits) \in Nat
      BY <1>0, Types, LenProperties
    <3>. QED BY <1>0, <1>6, <3>1, Types DEF PushTag
  <2>3. RunInv' BY <1>0, <1>6, <2>1, <2>2, StartedFits DEF PushTag
  <2>. QED BY <1>0, <1>6, <2>1, <2>3, ScriptInvStays, SameReleases DEF PushTag
<1>7. ASSUME Recover PROVE TypeOK' /\ ScriptInv' /\ RunInv' /\ AllSound'
  <2>1. TypeOK' /\ Kept BY <1>0, <1>7, MaintainersTyped
  <2>2. ScriptInv' BY <1>7 DEF Recover, ScriptInv
  <2>. QED BY <1>0, <1>7, <2>1, <2>2, SameRuns, SameReleases DEF Recover
<1>8. ASSUME NEW want \in Versions \cup {0}, Dispatch(want)
      PROVE  TypeOK' /\ ScriptInv' /\ RunInv' /\ AllSound'
  <2>1. TypeOK' /\ Kept BY <1>0, <1>8, DispatchTyped
  <2>2. RunInv' BY <1>0, <1>8, <2>1, DispatchFits
  <2>. QED BY <1>0, <1>8, <2>1, <2>2, ScriptInvStays, SameReleases DEF Dispatch
<1>9. ASSUME NEW i \in DOMAIN runs, RunStarts(i)
      PROVE  TypeOK' /\ ScriptInv' /\ RunInv' /\ AllSound'
  <2>1. TypeOK' /\ Kept /\ UNCHANGED <<released, head, script>>
    BY <1>0, <1>9, RunStartsTyped
  <2>2. RunInv' BY <1>0, <1>9, BeginningFits
  <2>. QED BY <1>0, <2>1, <2>2, ScriptInvStays, SameReleases
<1>10. ASSUME NEW i \in DOMAIN runs,
              \/ RunChecks(i) \/ RunPacks(i) \/ RunPushes(i)
              \/ RunPushesTag(i) \/ RunPublishes(i)
       PROVE  TypeOK' /\ ScriptInv' /\ RunInv' /\ AllSound'
  <2>1. TypeOK' /\ Kept /\ RunInv' BY <1>0, <1>10, RunStepTyped, GoingOnFits
  <2>2. UNCHANGED <<script, head>>
    BY <1>10 DEF RunChecks, RunPacks, RunPushes, RunPushesTag, RunPublishes
  <2>3. ScriptInv' BY <1>0, <2>1, <2>2, ScriptInvStays
  <2>4. CASE RunPublishes(i) BY <1>0, <2>1, <2>3, <2>4, PublishSound
  <2>5. CASE ~RunPublishes(i)
    <3>1. UNCHANGED released
      BY <1>10, <2>5 DEF RunChecks, RunPacks, RunPushes, RunPushesTag
    <3>. QED BY <1>0, <2>1, <2>3, <3>1, SameReleases
  <2>. QED BY <2>4, <2>5
<1>11. ASSUME UNCHANGED vars PROVE TypeOK' /\ ScriptInv' /\ RunInv' /\ AllSound'
  <2>1. UNCHANGED commits /\ UNCHANGED <<released, head, script, runs, tags>>
    BY <1>11 DEF vars
  <2>2. Kept BY <1>0, <2>1, NoCommit DEF Kept, TagsStay
  <2>3. TypeOK' BY <1>0, <1>11, NoCommit, Types, TypesNext DEF vars
  <2>. QED BY <1>0, <2>1, <2>2, <2>3, ScriptInvStays, SameRuns, SameReleases
<1>. QED BY <1>1, <1>2, <1>3, <1>4, <1>5, <1>6, <1>7, <1>8, <1>9, <1>10, <1>11 DEF Next

\* The invariant, of which the next three are parts (release.mjs, release.yml).
THEOREM ReleaseInductive == Spec => []ReleaseInv
<1>1. ReleaseInv /\ [Next]_vars => ReleaseInv' BY NextRelease
<1>. QED BY InitRelease, <1>1, PTL DEF Spec

\* Commits, tags, Releases, the script and the runs stay well typed.
THEOREM ReleaseTypeCorrect == Spec => []TypeOK
BY ReleaseInductive, PTL DEF ReleaseInv

\* A Release carries the version and the commit of its tag, for any versions,
\* however many runs of release.yml race with release.mjs.
THEOREM ReleaseOfTag == Spec => []ReleaseIsItsTag
BY ReleaseInductive, PTL DEF ReleaseInv

\* What release.yml publishes has one version in its three files.
THEOREM WorkflowAgrees == Spec => []WorkflowReleasesAgree
BY ReleaseInductive, PTL DEF ReleaseInv

-----------------------------------------------------------------------------
(* What is on main.  Main only moves to a commit whose history holds it, so *)
(* what was in its history stays there.                                     *)

\* The history of main, after a step, still holds what it held.
MainKeeps == History(main) \subseteq History(main)'

\* A commit that is there keeps its history.
LEMMA HistoryStays ==
  ASSUME CommitsStay, NEW c \in 1..Len(commits) PROVE History(c)' = History(c)
BY DEF CommitsStay, History

LEMMA SameHistory ==
  ASSUME TypeOK, HistoryInv, UNCHANGED commits PROVE HistoryInv'
BY DEF HistoryInv, History

\* A new commit adds itself to the history it was made from.
LEMMA HistoryGrows ==
  ASSUME TypeOK, HistoryInv, NEW parent \in 1..Len(commits), NEW files \in FileSet,
         commits' = Append(commits, Commit(parent, files))
  PROVE  /\ HistoryInv' /\ CommitsStay /\ New \in 1..Len(commits')
         /\ commits'[New].past = {New} \cup History(parent)
<1>1. /\ Len(commits') = Len(commits) + 1 /\ Len(commits) \in Nat
      /\ CommitsStay /\ New \in 1..Len(commits') /\ New = Len(commits) + 1
      /\ commits'[New].past = {New} \cup History(parent)
  BY OneMore DEF New, Commit
<1>2. ASSUME NEW c \in 1..Len(commits')
      PROVE  /\ c \in commits'[c].past /\ commits'[c].past \subseteq 1..Len(commits')
             /\ \A p \in commits'[c].past : commits'[p].past \subseteq commits'[c].past
  <2>1. CASE c \in 1..Len(commits)
    <3>1. /\ c \in History(c) /\ History(c) \subseteq 1..Len(commits)
          /\ \A p \in History(c) : History(p) \subseteq History(c)
      BY <2>1 DEF HistoryInv
    <3>2. commits'[c].past = History(c) BY <1>1, <2>1 DEF CommitsStay, History
    <3>3. \A p \in History(c) : commits'[p].past = History(p)
      BY <1>1, <3>1 DEF CommitsStay, History
    <3>4. 1..Len(commits) \subseteq 1..Len(commits') BY <1>1
    <3>. QED BY <3>1, <3>2, <3>3, <3>4
  <2>2. CASE c = New
    <3>1. /\ History(parent) \subseteq 1..Len(commits)
          /\ \A p \in History(parent) : History(p) \subseteq History(parent)
      BY DEF HistoryInv
    <3>2. \A p \in History(parent) : commits'[p].past = History(p)
      BY <1>1, <3>1 DEF CommitsStay, History
    <3>3. 1..Len(commits) \subseteq 1..Len(commits') BY <1>1
    <3>. QED BY <1>1, <2>2, <3>1, <3>2, <3>3
  <2>. QED BY <1>1, <2>1, <2>2
<1>3. HistoryInv' BY <1>2 DEF HistoryInv, History
<1>. QED BY <1>1, <1>3

\* Main stays where it is, or moves to a commit that follows it.
LEMMA MainStays ==
  ASSUME TypeOK, CommitsStay, UNCHANGED main PROVE MainKeeps
BY HistoryStays DEF MainKeeps, TypeOK, History, CommitsStay

LEMMA MainAdvances ==
  ASSUME TypeOK, HistoryInv, UNCHANGED commits, main' \in 1..Len(commits),
         FastForward(main, main')
  PROVE  MainKeeps
BY DEF HistoryInv, MainKeeps, FastForward, History

\* What the script and a dispatched run have pushed, and what they published.
ScriptOnMain == script.pc = "create" => head \in History(main)
OnMain(past, r) ==
  r.by = "dispatch" /\ r.pc \in {"pushTag", "publish"} => r.head \in past
RunsOnMain == \A i \in DOMAIN runs : OnMain(History(main), runs[i])
CutFromMain(past, release) ==
  release # NoRelease /\ release.by \in {"script", "dispatch"} => release.zip \in past
AllOnMain == \A v \in Versions : CutFromMain(History(main), released[v])

LEMMA OnMainIs ==
  OnMainInv <=> HistoryInv /\ ScriptOnMain /\ RunsOnMain /\ AllOnMain
BY DEF OnMainInv, MainInv, ReleaseIsOnMain, Published, ScriptOnMain, RunsOnMain,
       OnMain, AllOnMain, CutFromMain

LEMMA OnMainIsNext ==
  HistoryInv' /\ ScriptOnMain' /\ RunsOnMain' /\ AllOnMain' => OnMainInv'
BY DEF OnMainInv, MainInv, ReleaseIsOnMain, Published, ScriptOnMain, RunsOnMain,
       OnMain, AllOnMain, CutFromMain

\* What was on main stays there.
LEMMA ScriptStaysOnMain ==
  ASSUME ScriptOnMain, MainKeeps, UNCHANGED <<script, head>> PROVE ScriptOnMain'
BY DEF ScriptOnMain, MainKeeps

LEMMA RunStaysOnMain ==
  ASSUME RunsOnMain, MainKeeps, NEW j \in DOMAIN runs, runs'[j] = runs[j]
  PROVE  OnMain(History(main)', runs'[j])
BY DEF RunsOnMain, OnMain, MainKeeps

LEMMA RunsStayOnMain ==
  ASSUME RunsOnMain, MainKeeps, UNCHANGED runs PROVE RunsOnMain'
BY RunStaysOnMain DEF RunsOnMain

LEMMA ReleasesStayOnMain ==
  ASSUME AllOnMain, MainKeeps, UNCHANGED released PROVE AllOnMain'
BY DEF AllOnMain, CutFromMain, MainKeeps

\* A run that has just begun has pushed nothing.
LEMMA StartedOnMain ==
  ASSUME TypeOK, RunsOnMain, MainKeeps, NEW v \in Versions, runs' = Started(v)
  PROVE  RunsOnMain'
<1>1. TagRun(v) \in RunSet
  <2>1. 0 \in Commits BY LenProperties DEF TypeOK, Commits
  <2>. QED BY <2>1 DEF TagRun, RunSet, RunPcs
<1>2. OnMain(History(main)', TagRun(v)) BY DEF OnMain, TagRun
<1>3. CASE runs' = runs BY <1>3, RunsStayOnMain
<1>4. CASE runs' = Append(runs, TagRun(v))
  <2>1. SUFFICES ASSUME NEW j \in DOMAIN runs' PROVE OnMain(History(main)', runs'[j])
    BY DEF RunsOnMain
  <2>2. (j \in DOMAIN runs /\ runs'[j] = runs[j]) \/ runs'[j] = TagRun(v)
    BY <1>1, <1>4, NewRun
  <2>. QED BY <1>2, <2>2, RunStaysOnMain
<1>. QED BY <1>3, <1>4 DEF Started

LEMMA DispatchOnMain ==
  ASSUME TypeOK, RunsOnMain, MainKeeps, NEW want \in Versions \cup {0}, Dispatch(want)
  PROVE  RunsOnMain'
<1>1. PICK r : r = [by |-> "dispatch", want |-> want, pc |-> "start",
                    head |-> main, version |-> 0]
  OBVIOUS
<1>2. main \in Commits BY Types DEF Commits
<1>3. r \in RunSet BY <1>1, <1>2 DEF RunSet, RunPcs
<1>4. runs' = Append(runs, r) BY <1>1 DEF Dispatch
<1>5. SUFFICES ASSUME NEW j \in DOMAIN runs' PROVE OnMain(History(main)', runs'[j])
  BY DEF RunsOnMain
<1>6. (j \in DOMAIN runs /\ runs'[j] = runs[j]) \/ runs'[j] = r
  BY <1>3, <1>4, NewRun
<1>7. OnMain(History(main)', r) BY <1>1 DEF OnMain
<1>. QED BY <1>6, <1>7, RunStaysOnMain

LEMMA BeginningOnMain ==
  ASSUME TypeOK, RunInv, RunsOnMain, MainKeeps, NEW i \in DOMAIN runs, RunStarts(i)
  PROVE  RunsOnMain'
<1>1. /\ DOMAIN runs' = DOMAIN runs /\ Begins(runs[i], runs'[i])
      /\ \A j \in DOMAIN runs : j # i => runs'[j] = runs[j]
  BY RunStartsTyped
<1>2. runs[i] \in RunSet BY RunTyped
<1>3. runs'[i].pc \in {"check", "failed"} BY <1>1, <1>2 DEF Begins, RunSet
<1>4. OnMain(History(main)', runs'[i]) BY <1>3 DEF OnMain
<1>. QED BY <1>1, <1>4, RunStaysOnMain DEF RunsOnMain

\* A run that goes on: its push makes its commit main.
LEMMA GoingOnOnMain ==
  ASSUME TypeOK, RunInv, HistoryInv, RunsOnMain, NEW i \in DOMAIN runs,
         \/ RunChecks(i) \/ RunPacks(i) \/ RunPushes(i)
         \/ RunPushesTag(i) \/ RunPublishes(i)
  PROVE  HistoryInv' /\ MainKeeps /\ RunsOnMain'
<1>1. PICK pc \in RunPcs : To(i, pc) BY RunStepTyped
<1>2. /\ Kept /\ DOMAIN runs' = DOMAIN runs /\ UNCHANGED commits
      /\ runs'[i] = [runs[i] EXCEPT !.pc = pc]
      /\ \A j \in DOMAIN runs : j # i => runs'[j] = runs[j]
  BY <1>1, RunStepTyped, ToTyped
<1>3. runs[i] \in RunSet BY RunTyped
<1>4. HistoryInv' BY <1>2, SameHistory
<1>5. /\ runs'[i].pc = pc /\ runs'[i].head = runs[i].head /\ runs'[i].by = runs[i].by
  BY <1>2, <1>3 DEF RunSet
<1>6. MainKeeps /\ OnMain(History(main)', runs'[i])
  <2>1. CASE RunPushes(i)
    <3>1. RunFits(commits, tags, runs[i]) BY DEF RunInv
    <3>2. runs[i].head \in 1..Len(commits)
      BY <1>3, <2>1, <3>1 DEF RunPushes, RunFits, RunSet, Commits
    <3>3. \/ FastForward(main, runs[i].head) /\ main' = runs[i].head
          \/ UNCHANGED main /\ To(i, "failed")
      BY <2>1 DEF RunPushes, Fails
    <3>4. CASE FastForward(main, runs[i].head) /\ main' = runs[i].head
      <4>1. MainKeeps BY <1>2, <3>2, <3>4, MainAdvances
      <4>2. runs[i].head \in History(runs[i].head) BY <3>2 DEF HistoryInv
      <4>3. History(main)' = History(runs[i].head) BY <1>2, <3>4 DEF History
      <4>. QED BY <1>5, <4>1, <4>2, <4>3 DEF OnMain
    <3>5. CASE UNCHANGED main /\ To(i, "failed")
      <4>1. MainKeeps BY <1>2, <3>5, MainStays DEF Kept
      <4>2. runs'[i] = [runs[i] EXCEPT !.pc = "failed"] BY <3>5, ToTyped DEF RunPcs
      <4>3. runs'[i].pc = "failed" BY <1>3, <4>2 DEF RunSet
      <4>. QED BY <4>1, <4>3 DEF OnMain
    <3>. QED BY <3>3, <3>4, <3>5
  <2>2. CASE ~RunPushes(i)
    <3>1. UNCHANGED main
      BY <2>2 DEF RunChecks, RunPacks, RunPushesTag, RunPublishes
    <3>2. MainKeeps BY <1>2, <3>1, MainStays DEF Kept
    <3>3. CASE RunPushesTag(i)
      <4>1. OnMain(History(main), runs[i]) /\ runs[i].pc = "pushTag"
        BY <3>3 DEF RunsOnMain, RunPushesTag
      <4>. QED BY <1>5, <3>2, <4>1 DEF OnMain, MainKeeps
    <3>4. CASE RunChecks(i) \/ RunPublishes(i)
      <4>1. To(i, "pack") \/ To(i, "failed") \/ To(i, "done")
        BY <3>4 DEF RunChecks, RunPublishes, Fails
      <4>2. runs'[i].pc \in {"pack", "failed", "done"}
        <5>1. PICK q \in {"pack", "failed", "done"} : To(i, q) BY <4>1
        <5>2. runs'[i] = [runs[i] EXCEPT !.pc = q] BY <5>1, ToTyped DEF RunPcs
        <5>. QED BY <1>3, <5>2 DEF RunSet
      <4>. QED BY <3>2, <4>2 DEF OnMain
    <3>5. CASE RunPacks(i)
      <4>1. PICK q \in {"publish", "done", "push", "failed"} :
              To(i, q) /\ (q = "publish" => runs[i].by = "tag")
        BY <3>5 DEF RunPacks, Fails
      <4>2. runs'[i] = [runs[i] EXCEPT !.pc = q] BY <4>1, ToTyped DEF RunPcs
      <4>3. runs'[i].pc = q BY <1>3, <4>2 DEF RunSet
      <4>. QED BY <1>5, <3>2, <4>1, <4>3 DEF OnMain
    <3>. QED BY <2>2, <3>2, <3>3, <3>4, <3>5
  <2>. QED BY <2>1, <2>2
<1>7. \A j \in DOMAIN runs : j # i => OnMain(History(main)', runs'[j])
  BY <1>2, <1>6, RunStaysOnMain
<1>. QED BY <1>2, <1>4, <1>6, <1>7 DEF RunsOnMain

\* "Bump the version" adds one commit to the history of the one it starts from.
LEMMA StartsInHistory ==
  ASSUME TypeOK, RunInv, HistoryInv, NEW i \in DOMAIN runs, RunStarts(i)
  PROVE  HistoryInv' /\ CommitsStay
<1>1. PICK from : from = (IF runs[i].by = "tag" THEN tags[runs[i].want] ELSE runs[i].head)
  OBVIOUS
<1>2. runs[i] \in RunSet /\ RunFits(commits, tags, runs[i]) /\ runs[i].pc = "start"
  BY RunTyped DEF RunInv, RunStarts
<1>3. from \in 1..Len(commits)
  <2>1. runs[i].by = "tag" => tags[runs[i].want] \in Commits \ {0}
    BY <1>2, Types DEF RunFits
  <2>2. runs[i].by = "dispatch" => runs[i].head \in Commits \ {0}
    BY <1>2 DEF RunFits, RunSet
  <2>. QED BY <1>1, <1>2, <2>1, <2>2, Types DEF Commits, RunSet
<1>4. \/ UNCHANGED commits
      \/ /\ runs[i].want # 0
         /\ commits' = Append(commits, Commit(from, BumpVersion(Files(from), runs[i].want)))
  BY <1>1 DEF RunStarts
<1>5. CASE UNCHANGED commits BY <1>5, SameHistory, NoCommit
<1>6. CASE /\ runs[i].want # 0
           /\ commits' = Append(commits, Commit(from, BumpVersion(Files(from), runs[i].want)))
  <2>1. BumpVersion(Files(from), runs[i].want) \in FileSet
    BY <1>2, <1>3, <1>6, FilesOf, FilesTyped DEF RunSet
  <2>. QED BY <1>3, <1>6, <2>1, HistoryGrows
<1>. QED BY <1>4, <1>5, <1>6

LEMMA InitOnMain == Init => OnMainInv
<1>. SUFFICES ASSUME Init PROVE OnMainInv OBVIOUS
<1>1. Len(commits) = 1 /\ commits[1].past = {1} BY DEF Init
<1>2. HistoryInv BY <1>1 DEF HistoryInv, History
<1>3. ScriptOnMain /\ RunsOnMain BY DEF Init, Idle, ScriptOnMain, RunsOnMain
<1>4. AllOnMain BY DEF Init, AllOnMain, CutFromMain
<1>. QED BY <1>2, <1>3, <1>4, OnMainIs

\* Every step: whoever makes a commit keeps the histories whole, a push makes
\* the pusher's commit main or fails, and only what was pushed is published.
LEMMA NextOnMain ==
  ASSUME ReleaseInv, OnMainInv, [Next]_vars PROVE OnMainInv'
<1>0. /\ TypeOK /\ ScriptInv /\ RunInv
      /\ HistoryInv /\ ScriptOnMain /\ RunsOnMain /\ AllOnMain
  BY OnMainIs DEF ReleaseInv
<1>. SUFFICES HistoryInv' /\ ScriptOnMain' /\ RunsOnMain' /\ AllOnMain'
  BY OnMainIsNext
<1>1. ASSUME NEW v \in Versions, ScriptCommits(v)
      PROVE  HistoryInv' /\ ScriptOnMain' /\ RunsOnMain' /\ AllOnMain'
  <2>1. SetVersion(Files(head), v) \in FileSet BY <1>0, FilesOf, FilesTyped DEF TypeOK
  <2>2. commits' = Append(commits, Commit(head, SetVersion(Files(head), v)))
    BY <1>1 DEF ScriptCommits
  <2>3. HistoryInv' /\ CommitsStay BY <1>0, <2>1, <2>2, HistoryGrows DEF TypeOK
  <2>4. MainKeeps BY <1>0, <1>1, <2>3, MainStays DEF ScriptCommits
  <2>5. ScriptOnMain' BY <1>1 DEF ScriptCommits, ScriptOnMain
  <2>. QED BY <1>0, <1>1, <2>3, <2>4, <2>5, RunsStayOnMain, ReleasesStayOnMain
           DEF ScriptCommits
<1>2. ASSUME ScriptPacks
      PROVE  HistoryInv' /\ ScriptOnMain' /\ RunsOnMain' /\ AllOnMain'
  <2>1. script \in ScriptSet BY <1>0, Types
  <2>2. ScriptOnMain' BY <1>2, <2>1 DEF ScriptPacks, ScriptOnMain, ScriptSet, Idle
  <2>3. HistoryInv' /\ MainKeeps
    BY <1>0, <1>2, SameHistory, MainStays, NoCommit DEF ScriptPacks
  <2>. QED BY <1>0, <1>2, <2>2, <2>3, RunsStayOnMain, ReleasesStayOnMain DEF ScriptPacks
<1>3. ASSUME ScriptPushes
      PROVE  HistoryInv' /\ ScriptOnMain' /\ RunsOnMain' /\ AllOnMain'
  <2>1. /\ script \in ScriptSet /\ script.version \in Versions
        /\ head \in 1..Len(commits)
    BY <1>0, <1>3, Types DEF ScriptPushes, ScriptInv
  <2>2. HistoryInv' BY <1>0, <1>3, SameHistory DEF ScriptPushes
  <2>3. MainKeeps
    <3>1. CASE FastForward(main, head)
      <4>1. main' = head /\ UNCHANGED commits BY <1>3, <3>1 DEF ScriptPushes
      <4>. QED BY <1>0, <2>1, <3>1, <4>1, MainAdvances
    <3>2. CASE ~FastForward(main, head)
      <4>1. UNCHANGED main /\ UNCHANGED commits BY <1>3, <3>2 DEF ScriptPushes
      <4>. QED BY <1>0, <4>1, MainStays, NoCommit
    <3>. QED BY <3>1, <3>2
  <2>4. ScriptOnMain'
    <3>1. CASE FastForward(main, head)
      <4>1. main' = head /\ UNCHANGED <<commits, head>> BY <1>3, <3>1 DEF ScriptPushes
      <4>2. head \in History(head) BY <1>0, <2>1 DEF HistoryInv
      <4>. QED BY <4>1, <4>2 DEF ScriptOnMain, History
    <3>2. CASE ~FastForward(main, head)
      <4>1. script' = Idle BY <1>3, <3>2 DEF ScriptPushes, BothTaken
      <4>. QED BY <4>1 DEF ScriptOnMain, Idle
    <3>. QED BY <3>1, <3>2
  <2>5. RunsOnMain'
    <3>1. runs' = runs \/ runs' = Started(script.version) BY <1>3 DEF ScriptPushes
    <3>. QED BY <1>0, <2>1, <2>3, <3>1, RunsStayOnMain, StartedOnMain
  <2>. QED BY <1>0, <1>3, <2>2, <2>3, <2>4, <2>5, ReleasesStayOnMain DEF ScriptPushes
<1>4. ASSUME ScriptCreates
      PROVE  HistoryInv' /\ ScriptOnMain' /\ RunsOnMain' /\ AllOnMain'
  <2>1. HistoryInv' /\ MainKeeps
    BY <1>0, <1>4, SameHistory, MainStays, NoCommit DEF ScriptCreates
  <2>2. ScriptOnMain' BY <1>4 DEF ScriptCreates, ScriptOnMain, Idle
  <2>3. head \in History(main)' BY <1>0, <1>4, <2>1 DEF ScriptOnMain, ScriptCreates, MainKeeps
  <2>4. AllOnMain'
    <3>1. SUFFICES ASSUME NEW v \in Versions PROVE CutFromMain(History(main)', released'[v])
      BY DEF AllOnMain
    <3>2. \/ released'[v] = released[v]
          \/ released'[v] = [zip |-> head, by |-> "script"]
      BY <1>0, <1>4, Types DEF ScriptCreates
    <3>. QED BY <1>0, <2>1, <2>3, <3>2 DEF CutFromMain, AllOnMain, MainKeeps
  <2>. QED BY <1>0, <1>4, <2>1, <2>2, <2>4, RunsStayOnMain DEF ScriptCreates
<1>5. ASSUME PushMain
      PROVE  HistoryInv' /\ ScriptOnMain' /\ RunsOnMain' /\ AllOnMain'
  <2>1. PICK f \in HandMade(Files(main)) : commits' = Append(commits, Commit(main, f))
    BY <1>5 DEF PushMain
  <2>2. f \in FileSet BY <1>0, <2>1, FilesOf, FilesTyped, SomeVersion DEF TypeOK
  <2>3. main \in 1..Len(commits) /\ main' = New BY <1>0, <1>5 DEF TypeOK, PushMain
  <2>4. HistoryInv' /\ commits'[New].past = {New} \cup History(main)
    BY <1>0, <2>1, <2>2, <2>3, HistoryGrows
  <2>5. MainKeeps BY <2>3, <2>4 DEF MainKeeps, History
  <2>. QED BY <1>0, <1>5, <2>4, <2>5, ScriptStaysOnMain, RunsStayOnMain,
              ReleasesStayOnMain DEF PushMain
<1>6. ASSUME NEW v \in Versions, PushTag(v)
      PROVE  HistoryInv' /\ ScriptOnMain' /\ RunsOnMain' /\ AllOnMain'
  <2>1. HistoryInv' /\ MainKeeps
    BY <1>0, <1>6, SameHistory, MainStays, NoCommit DEF PushTag
  <2>2. RunsOnMain' BY <1>0, <1>6, <2>1, StartedOnMain DEF PushTag
  <2>. QED BY <1>0, <1>6, <2>1, <2>2, ScriptStaysOnMain, ReleasesStayOnMain DEF PushTag
<1>7. ASSUME Recover
      PROVE  HistoryInv' /\ ScriptOnMain' /\ RunsOnMain' /\ AllOnMain'
  <2>1. HistoryInv' /\ MainKeeps
    BY <1>0, <1>7, SameHistory, MainStays, NoCommit DEF Recover
  <2>2. ScriptOnMain' BY <1>7 DEF Recover, ScriptOnMain
  <2>. QED BY <1>0, <1>7, <2>1, <2>2, RunsStayOnMain, ReleasesStayOnMain DEF Recover
<1>8. ASSUME NEW want \in Versions \cup {0}, Dispatch(want)
      PROVE  HistoryInv' /\ ScriptOnMain' /\ RunsOnMain' /\ AllOnMain'
  <2>1. HistoryInv' /\ MainKeeps
    BY <1>0, <1>8, SameHistory, MainStays, NoCommit DEF Dispatch
  <2>2. RunsOnMain' BY <1>0, <1>8, <2>1, DispatchOnMain
  <2>. QED BY <1>0, <1>8, <2>1, <2>2, ScriptStaysOnMain, ReleasesStayOnMain DEF Dispatch
<1>9. ASSUME NEW i \in DOMAIN runs, RunStarts(i)
      PROVE  HistoryInv' /\ ScriptOnMain' /\ RunsOnMain' /\ AllOnMain'
  <2>1. UNCHANGED <<released, head, script, main>>
    BY <1>9 DEF RunStarts
  <2>2. HistoryInv' /\ CommitsStay BY <1>0, <1>9, StartsInHistory
  <2>3. MainKeeps BY <1>0, <2>1, <2>2, MainStays
  <2>4. RunsOnMain' BY <1>0, <1>9, <2>3, BeginningOnMain
  <2>. QED BY <1>0, <2>1, <2>2, <2>3, <2>4, ScriptStaysOnMain, ReleasesStayOnMain
<1>10. ASSUME NEW i \in DOMAIN runs,
              \/ RunChecks(i) \/ RunPacks(i) \/ RunPushes(i)
              \/ RunPushesTag(i) \/ RunPublishes(i)
       PROVE  HistoryInv' /\ ScriptOnMain' /\ RunsOnMain' /\ AllOnMain'
  <2>1. HistoryInv' /\ MainKeeps /\ RunsOnMain' BY <1>0, <1>10, GoingOnOnMain
  <2>2. UNCHANGED <<script, head>>
    BY <1>10 DEF RunChecks, RunPacks, RunPushes, RunPushesTag, RunPublishes
  <2>3. CASE RunPublishes(i)
    <3>1. SUFFICES ASSUME NEW v \in Versions PROVE CutFromMain(History(main)', released'[v])
      BY <1>0, <2>1, <2>2, ScriptStaysOnMain DEF AllOnMain
    <3>2. \/ released'[v] = released[v]
          \/ released'[v] = [zip |-> runs[i].head, by |-> runs[i].by]
      BY <1>0, <2>3, Types DEF RunPublishes
    <3>3. runs[i].by = "dispatch" => runs[i].head \in History(main)
      BY <1>0, <2>3 DEF RunsOnMain, OnMain, RunPublishes
    <3>4. runs[i].by # "script" BY <1>0, RunTyped DEF RunSet
    <3>. QED BY <1>0, <2>1, <3>2, <3>3, <3>4 DEF CutFromMain, AllOnMain, MainKeeps
  <2>4. CASE ~RunPublishes(i)
    <3>1. UNCHANGED released
      BY <1>10, <2>4 DEF RunChecks, RunPacks, RunPushes, RunPushesTag
    <3>. QED BY <1>0, <2>1, <2>2, <3>1, ScriptStaysOnMain, ReleasesStayOnMain
  <2>. QED BY <2>3, <2>4
<1>11. ASSUME UNCHANGED vars
       PROVE  HistoryInv' /\ ScriptOnMain' /\ RunsOnMain' /\ AllOnMain'
  <2>1. UNCHANGED <<commits, main, released, head, script, runs>> BY <1>11 DEF vars
  <2>2. HistoryInv' /\ MainKeeps BY <1>0, <2>1, SameHistory, MainStays, NoCommit
  <2>. QED BY <1>0, <2>1, <2>2, ScriptStaysOnMain, RunsStayOnMain, ReleasesStayOnMain
<1>. QED BY <1>1, <1>2, <1>3, <1>4, <1>5, <1>6, <1>7, <1>8, <1>9, <1>10, <1>11 DEF Next

\* A release that release.mjs or a dispatched run of release.yml cut from main
\* is in main, however main moves under them and whichever pushes are refused.
THEOREM ReleaseAlwaysOnMain == Spec => []ReleaseIsOnMain
<1>1. ReleaseInv /\ OnMainInv /\ [Next]_vars => ReleaseInv' /\ OnMainInv'
  BY NextRelease, NextOnMain
<1>2. OnMainInv => ReleaseIsOnMain BY DEF OnMainInv
<1>. QED BY InitRelease, InitOnMain, <1>1, <1>2, PTL DEF Spec

-----------------------------------------------------------------------------
(* EngineBuild, for every bound on leaked timers.                          *)

\* What a probe and a decision can be.
LEMMA DecisionType ==
  ASSUME NEW c \in Configs, NEW q \in BOOLEAN, BuildTypeOK
  PROVE  Decision(c, q) \in {"ok", "images", "bad-config", "building", "wait",
                             "prerequisites", "start"}
BY SMT DEF Decision

\* reconcileEngine() as a whole: what it leaves in the watch is a status, and
\* one that waits for the user has its timer.
LEMMA ReconcileKeeps ==
  ASSUME BuildTypeOK, WaitingIsTimed, NEW c \in Configs, NEW by \in {"push", "tick"},
         last = "none" \/ last \in Statuses,
         Reconcile(c, by), timer \in Configs \cup {"none"},
         last \in NeedsSetup => timer # "none"
  PROVE  /\ timer' \in Configs \cup {"none"}
         /\ last' \in Statuses
         /\ last' \in NeedsSetup => timer' # "none"
         /\ child' \in {"none", "configure", "compile", "linked"}
         /\ inFlight' \in BOOLEAN
         /\ lastResult' \in {"none", "ok", "failed"}
         /\ startedBy' \in {"push", "tick"}
<1> DEFINE d == Decision(c, Quiet(by))
<1>0. d \in {"ok", "images", "bad-config", "building", "wait", "prerequisites", "start"}
  BY DecisionType DEF Quiet
<1>1. CASE d = "start" /\ StartBuild(by)
  BY <1>1 DEF StartBuild, BuildTypeOK, Statuses, NeedsSetup, Configs
<1>2. CASE /\ d # "start"
           /\ timer' = IF Rechecks(d) THEN c ELSE "none"
           /\ last' = SaidAfter(d)
           /\ UNCHANGED builder
  <2>1. /\ child' = child /\ inFlight' = inFlight
        /\ lastResult' = lastResult /\ startedBy' = startedBy
    BY <1>2 DEF builder
  <2>2. timer' \in Configs \cup {"none"} BY <1>2
  <2>3. c # "none" BY DEF Configs
  <2>4. CASE Rechecks(d)
    BY <1>0, <1>2, <2>1, <2>2, <2>3, <2>4
       DEF BuildTypeOK, SaidAfter, Statuses, NeedsSetup, Rechecks
  <2>5. CASE ~Rechecks(d)
    BY <1>0, <1>2, <2>1, <2>2, <2>5
       DEF BuildTypeOK, SaidAfter, Statuses, NeedsSetup, Rechecks
  <2> QED BY <2>4, <2>5
<1> QED BY <1>1, <1>2 DEF Reconcile

\* The report of a failed build, over any timer.
LEMMA FailureKeeps ==
  ASSUME BuildTypeOK, ReportFailure
  PROVE  /\ timer' \in Configs \cup {"none"}
         /\ last' \in Statuses /\ last' \notin NeedsSetup
         /\ leaked' \in [Configs -> Nat]
<1>1. timer' = "blank" /\ last' = "failed" BY DEF ReportFailure
<1>2. leaked' \in [Configs -> Nat]
  <2>1. CASE timer = "none" BY <2>1 DEF ReportFailure, BuildTypeOK
  <2>2. CASE timer # "none"
    <3>1. timer \in Configs BY <2>2 DEF BuildTypeOK
    <3>2. leaked[timer] + 1 \in Nat BY <3>1 DEF BuildTypeOK
    <3> QED BY <2>2, <3>1, <3>2 DEF ReportFailure, BuildTypeOK
  <2> QED BY <2>1, <2>2
<1> QED BY <1>1, <1>2 DEF Statuses, NeedsSetup, Configs

BuildIInv == BuildTypeOK /\ WaitingIsTimed

LEMMA BuildInitIInv == BuildInit => BuildIInv
<1> SUFFICES ASSUME BuildInit PROVE BuildTypeOK /\ WaitingIsTimed BY DEF BuildIInv
<1>1. /\ mock \in BOOLEAN /\ images \in BOOLEAN /\ built \in BOOLEAN /\ own \in BOOLEAN
      /\ inFlight \in BOOLEAN
  BY Zenon DEF BuildInit
<1>2. cache \in {"none", "good", "bad"} BY DEF BuildInit
<1>3. last \in Statuses /\ WaitingIsTimed
  BY DEF BuildInit, WaitingIsTimed, Statuses, NeedsSetup
<1>4. leaked \in [Configs -> Nat] BY DEF BuildInit
<1>5. /\ tools \in {"none", "old", "ok"} /\ child = "none"
      /\ fromEnv \in {"unset", "present", "missing"}
      /\ lastResult = "none" /\ startedBy = "push"
      /\ config \in Configs /\ timer = "none"
  BY DEF BuildInit, Configs
<1> QED BY <1>1, <1>2, <1>3, <1>4, <1>5 DEF BuildTypeOK

LEMMA BuildNextIInv == BuildIInv /\ [BuildNext]_buildVars => BuildIInv'
<1> SUFFICES ASSUME BuildTypeOK, WaitingIsTimed, [BuildNext]_buildVars PROVE BuildTypeOK' /\ WaitingIsTimed'
  BY DEF BuildIInv
<1> USE DEF BuildTypeOK
<1>1. ASSUME NEW c \in Configs, ConfigPush(c) PROVE BuildTypeOK' /\ WaitingIsTimed'
  BY <1>1, ReconcileKeeps DEF ConfigPush, machine, WaitingIsTimed
<1>2. ASSUME NEW c \in Configs, LeakedTick(c) PROVE BuildTypeOK' /\ WaitingIsTimed'
  <2>1. leaked[c] - 1 \in Nat BY <1>2 DEF LeakedTick
  <2>2. leaked' \in [Configs -> Nat] BY <1>2, <2>1 DEF LeakedTick
  <2> QED BY <1>2, <2>2, ReconcileKeeps DEF LeakedTick, machine, WaitingIsTimed
<1>3. CASE Tick
  <2>1. timer \in Configs BY <1>3 DEF Tick
  <2> QED BY <1>3, <2>1, ReconcileKeeps DEF Tick, machine, WaitingIsTimed
<1>4. CASE BuildConfigures
  BY <1>4 DEF BuildConfigures, watch, WaitingIsTimed
<1>5. CASE BuildLinks
  BY <1>5 DEF BuildLinks, watch, WaitingIsTimed
<1>6. CASE BuildSucceeds
  <2>1. /\ BuildTypeOK!1' /\ BuildTypeOK!2' /\ BuildTypeOK!3' /\ BuildTypeOK!4'
        /\ BuildTypeOK!5' /\ config' \in Configs
        /\ startedBy' \in {"push", "tick"}
    BY <1>6 DEF BuildSucceeds, machine
  <2>2. child' = "none" /\ inFlight' = FALSE /\ lastResult' = "ok"
    BY <1>6 DEF BuildSucceeds
  <2>3. CASE EngineOk("blank")
    BY <1>6, <2>1, <2>2, <2>3
       DEF BuildSucceeds, WaitingIsTimed, Statuses, NeedsSetup, Configs
  <2>4. CASE ~EngineOk("blank")
    <3>1. ReportFailure BY <1>6, <2>4 DEF BuildSucceeds
    <3> QED BY <2>1, <2>2, <3>1, FailureKeeps DEF WaitingIsTimed
  <2> QED BY <2>3, <2>4
<1>7. CASE BuildFails
  <2>1. ReportFailure BY <1>7 DEF BuildFails
  <2>2. cache' \in {"none", "good", "bad"}
    BY <1>7 DEF BuildFails
  <2> QED BY <1>7, <2>1, <2>2, FailureKeeps DEF BuildFails, WaitingIsTimed
<1>8. CASE UserChangesTools
  <2>1. mock' = mock /\ UNCHANGED <<builder, config, watch>>
    BY <1>8, Zenon DEF UserChangesTools, Elsewhere
  <2>2. mock' \in BOOLEAN /\ images' \in BOOLEAN /\ built' \in BOOLEAN /\ own' \in BOOLEAN
    BY <1>8, <2>1, Zenon DEF UserChangesTools, Elsewhere
  <2>3. /\ tools' \in {"none", "old", "ok"} /\ cache' \in {"none", "good", "bad"}
        /\ fromEnv' \in {"unset", "present", "missing"}
    BY <1>8 DEF UserChangesTools
  <2> QED BY <2>1, <2>2, <2>3 DEF builder, watch, WaitingIsTimed
<1>9. CASE UserInstallsImages
  BY <1>9 DEF UserInstallsImages, Elsewhere, builder, watch, WaitingIsTimed
<1>10. CASE UserBuilds
  BY <1>10 DEF UserBuilds, Elsewhere, builder, watch, WaitingIsTimed
<1>11. CASE UserCleans
  <2>1. mock' = mock /\ UNCHANGED <<builder, config, watch>>
    BY <1>11, Zenon DEF UserCleans, Elsewhere
  <2>2. mock' \in BOOLEAN /\ images' \in BOOLEAN /\ built' \in BOOLEAN /\ own' \in BOOLEAN
    BY <1>11, <2>1, Zenon DEF UserCleans, Elsewhere
  <2>3. /\ tools' \in {"none", "old", "ok"} /\ cache' \in {"none", "good", "bad"}
        /\ fromEnv' \in {"unset", "present", "missing"}
    BY <1>11 DEF UserCleans
  <2> QED BY <2>1, <2>2, <2>3 DEF builder, watch, WaitingIsTimed
<1>12. CASE UserMovesOwn
  <2>1. UNCHANGED <<mock, tools, images, built, cache, builder, config, watch>>
    BY <1>12 DEF UserMovesOwn, Elsewhere
  <2>2. own' \in BOOLEAN BY <1>12, Zenon DEF UserMovesOwn
  <2>3. fromEnv' \in {"unset", "present", "missing"} BY <1>12 DEF UserMovesOwn
  <2> QED BY <2>1, <2>2, <2>3 DEF builder, watch, WaitingIsTimed
<1>13. CASE UNCHANGED buildVars
  BY <1>13 DEF buildVars, machine, builder, watch, WaitingIsTimed
<1> QED
  BY <1>1, <1>2, <1>3, <1>4, <1>5, <1>6, <1>7, <1>8, <1>9, <1>10, <1>11,
     <1>12, <1>13 DEF BuildNext

\* Every state is one of the declared kind.
THEOREM BuildTypeCorrect == BuildSpec => []BuildTypeOK
<1>1. BuildIInv => BuildTypeOK BY DEF BuildIInv
<1> QED BY BuildInitIInv, BuildNextIInv, <1>1, PTL DEF BuildSpec

\* A status that waits for the user always has a re-check armed, with any
\* number of leaked timers (engine-build.js:16-23).
THEOREM WaitingTimed == BuildSpec => []WaitingIsTimed
<1>1. BuildIInv => WaitingIsTimed BY DEF BuildIInv
<1> QED BY BuildInitIInv, BuildNextIInv, <1>1, PTL DEF BuildSpec

\* After a build that exited as failed, reconcileEngine() starts another for a
\* push only.
LEMMA StartsForPush ==
  ASSUME NEW c, NEW by, Reconcile(c, by), child = "none", child' # "none",
         lastResult = "failed", by \in {"push", "tick"}
  PROVE  startedBy' = "push"
<1>1. Decision(c, Quiet(by)) = "start" /\ StartBuild(by)
  BY DEF Reconcile, builder
<1>2. by # "tick"
  BY <1>1 DEF Decision, Quiet
<1> QED BY <1>1, <1>2 DEF StartBuild

\* No timer of any age starts another build after one whose process failed
\* (engine-build.js:370-375).
THEOREM FailedExitNeverRepeated == BuildSpec => FailedExitNotRepeated
<1>1. ASSUME [BuildNext]_buildVars, child = "none", child' # "none", lastResult = "failed"
      PROVE  startedBy' = "push"
  <2>1. ASSUME NEW c \in Configs, ConfigPush(c) PROVE startedBy' = "push"
    BY <1>1, <2>1, StartsForPush DEF ConfigPush
  <2>2. ASSUME NEW c \in Configs, LeakedTick(c) PROVE startedBy' = "push"
    BY <1>1, <2>2, StartsForPush DEF LeakedTick
  <2>3. CASE Tick
    BY <1>1, <2>3, StartsForPush DEF Tick
  <2>4. CASE BuildConfigures \/ BuildLinks \/ BuildSucceeds \/ BuildFails
    BY <1>1, <2>4 DEF BuildConfigures, BuildLinks, BuildSucceeds, BuildFails
  <2>5. CASE UserChangesTools \/ UserInstallsImages \/ UserBuilds \/ UserCleans
                \/ UserMovesOwn \/ UNCHANGED buildVars
    BY <1>1, <2>5 DEF UserChangesTools, UserInstallsImages, UserBuilds,
       UserCleans, UserMovesOwn, Elsewhere, builder, buildVars
  <2> QED BY <1>1, <2>1, <2>2, <2>3, <2>4, <2>5 DEF BuildNext
<1> QED BY <1>1, PTL DEF BuildSpec, FailedExitNotRepeated
=============================================================================
