------------------------------- MODULE Release -------------------------------
(***************************************************************************)
(* The two ways to cut a release: scripts/release.mjs on a maintainer's    *)
(* machine, and .github/workflows/release.yml, which a tag or a person     *)
(* starts, over one repository on GitHub.                                  *)
(*                                                                         *)
(* A commit is its history and its three versions.  What is local to one   *)
(* actor between two of its dealings with GitHub is one step.  Tags and    *)
(* Releases are not deleted.                                               *)
(***************************************************************************)
EXTENDS Integers, Sequences, FiniteSets

CONSTANTS
  Versions,   \* versions that may be released: numbers from 1
  MaxCommits, \* bound: commits anywhere
  MaxRuns,    \* bound: runs of the workflow
  MaxPushes   \* bound: pushes made by hand

ASSUME ReleaseAssumption ==
  /\ Versions \subseteq Nat \ {0} /\ 1 \in Versions
  /\ MaxCommits \in Nat /\ MaxRuns \in Nat /\ MaxPushes \in Nat

VARIABLES
  commits,  \* every commit: [past, files], past itself and all it follows
  main,     \* origin's main
  tags,     \* origin's tags: the commit of each version, 0 for none
  released, \* GitHub's Releases: [zip, by], or NoRelease
  head,     \* the maintainer's main
  tagged,   \* the maintainer's tags
  script,   \* release.mjs: [pc, version]
  runs,     \* release.yml: [by, want, pc, head, version]
  pushes    \* how many pushes were made by hand

vars == <<commits, main, tags, released, head, tagged, script, runs, pushes>>

NoRelease == [zip |-> 0, by |-> "nobody"]
Idle == [pc |-> "idle", version |-> 0]

Files(c) == commits[c].files
New == Len(commits) + 1

\* A commit and what it follows.
History(c) == commits[c].past
Commit(parent, files) == [past |-> {New} \cup History(parent), files |-> files]

\* bump-version.mjs: npm sets two of them, an edit the third.
BumpVersion(files, v) == [manifest |-> v, pkg |-> v, lock |-> v]

\* release.mjs, setVersion(): the manifest and package.json.
SetVersion(files, v) == [files EXCEPT !.manifest = v, !.pkg = v]

\* A push is taken when it only adds to the branch.
FastForward(old, new) == old \in History(new)

FileSet == [manifest : Versions, pkg : Versions, lock : Versions]
Commits == 0..Len(commits) \* 0 for none
RunPcs == {"start", "check", "pack", "push", "pushTag", "publish", "done", "failed"}

TypeOK == /\ commits \in Seq([past : SUBSET Nat, files : FileSet])
          /\ main \in 1..Len(commits) /\ head \in 1..Len(commits)
          /\ tags \in [Versions -> Commits] /\ tagged \in [Versions -> Commits]
          /\ released \in [Versions -> [zip : Commits,
                                        by : {"nobody", "script", "tag", "dispatch"}]]
          /\ script \in [pc : {"idle", "pack", "push", "create"},
                         version : Versions \cup {0}]
          /\ runs \in Seq([by : {"tag", "dispatch"}, want : Versions \cup {0},
                            pc : RunPcs, head : Commits, version : Versions \cup {0}])
          /\ pushes \in Nat

Init == /\ commits = <<[past |-> {1}, files |-> [manifest |-> 1, pkg |-> 1, lock |-> 1]]>>
        /\ main = 1 /\ head = 1
        /\ tags = [v \in Versions |-> 0]
        /\ tagged = [v \in Versions |-> 0]
        /\ released = [v \in Versions |-> NoRelease]
        /\ script = Idle
        /\ runs = <<>>
        /\ pushes = 0

\* A tag that a person pushes starts the workflow.
TagRun(v) == [by |-> "tag", want |-> v, pc |-> "start", head |-> 0, version |-> v]
Started(v) == IF Len(runs) < MaxRuns THEN Append(runs, TagRun(v)) ELSE runs

-----------------------------------------------------------------------------
(* release.mjs.                                                            *)

\* The checks, setVersion(), git commit and git tag.
ScriptCommits(v) ==
  /\ script.pc = "idle" /\ Len(commits) < MaxCommits
  /\ v # Files(head).manifest
  /\ tagged[v] = 0 /\ tags[v] = 0
  /\ commits' = Append(commits, Commit(head, SetVersion(Files(head), v)))
  /\ head' = New
  /\ tagged' = [tagged EXCEPT ![v] = New]
  /\ script' = [pc |-> "pack", version |-> v]
  /\ UNCHANGED <<main, tags, released, runs, pushes>>

\* The zip is packed, booted and verified, or the script has failed.
ScriptPacks ==
  /\ script.pc = "pack"
  /\ \E ok \in BOOLEAN :
       script' = IF ok /\ Files(head).manifest = script.version
                 THEN [script EXCEPT !.pc = "push"] ELSE Idle
  /\ UNCHANGED <<commits, main, tags, released, head, tagged, runs, pushes>>

\* Mutant: the script goes on when a part of the push was refused.
EitherTaken(mainOk, tagOk) == mainOk \/ tagOk

\* git push fails when it could not push both.
BothTaken(mainOk, tagOk) == mainOk /\ tagOk

\* git push origin main <tag>: each is taken or refused on its own.
ScriptPushes ==
  /\ script.pc = "push"
  /\ LET v == script.version
         mainOk == FastForward(main, head)
         tagOk == tags[v] = 0
     IN /\ main' = IF mainOk THEN head ELSE main
        /\ tags' = IF tagOk THEN [tags EXCEPT ![v] = head] ELSE tags
        /\ runs' = IF tagOk THEN Started(v) ELSE runs
        /\ script' = IF BothTaken(mainOk, tagOk)
                     THEN [script EXCEPT !.pc = "create"] ELSE Idle
  /\ UNCHANGED <<commits, released, head, tagged, pushes>>

\* gh release create --verify-tag, which fails where there is one.
ScriptCreates ==
  /\ script.pc = "create"
  /\ LET v == script.version IN
     released' = IF tags[v] # 0 /\ released[v] = NoRelease
                 THEN [released EXCEPT ![v] = [zip |-> head, by |-> "script"]]
                 ELSE released
  /\ script' = Idle
  /\ UNCHANGED <<commits, main, tags, head, tagged, runs, pushes>>

-----------------------------------------------------------------------------
(* Other doings of maintainers.                                            *)

\* What a commit by hand does to the versions: nothing, the bump that the
\* workflow's comment asks for, or a bump of one file only.
HandMade(files) == {files} \cup {BumpVersion(files, v) : v \in Versions}
                     \cup {[files EXCEPT !.manifest = v] : v \in Versions}

\* Main moves, from elsewhere.
PushMain == /\ pushes < MaxPushes /\ Len(commits) < MaxCommits
            /\ \E f \in HandMade(Files(main)) :
                 commits' = Append(commits, Commit(main, f))
            /\ main' = New
            /\ pushes' = pushes + 1
            /\ UNCHANGED <<tags, released, head, tagged, script, runs>>

\* git tag and git push origin <tag>, "from any commit": of main, or of the clone
\* in which the script has committed.
PushTag(v) == /\ pushes < MaxPushes /\ tags[v] = 0
              /\ \E c \in DOMAIN commits :
                   /\ c \in History(main) \cup History(head)
                   /\ tags' = [tags EXCEPT ![v] = c]
              /\ runs' = Started(v)
              /\ pushes' = pushes + 1
              /\ UNCHANGED <<commits, main, released, head, tagged, script>>

\* After a script that failed, or to catch up: git fetch, git reset --hard
\* and git tag -d.
Recover == /\ script.pc = "idle" /\ (head # main \/ tagged # tags)
           /\ head' = main /\ tagged' = tags
           /\ UNCHANGED <<commits, main, tags, released, script, runs, pushes>>

-----------------------------------------------------------------------------
(* release.yml.  Run i goes on.                                            *)

\* Run workflow, on main: with a version (or a bump that makes it so), or 0
\* for none, the rehearsal.  The commit is main's at that moment.
Dispatch(want) ==
  /\ Len(runs) < MaxRuns
  /\ runs' = Append(runs, [by |-> "dispatch", want |-> want, pc |-> "start",
                           head |-> main, version |-> 0])
  /\ UNCHANGED <<commits, main, tags, released, head, tagged, script, pushes>>

To(i, pc) == runs' = [runs EXCEPT ![i].pc = pc]
Fails(i) == To(i, "failed")

\* Checkout, and on a tag nothing more; "Bump the version" on a dispatch, which
\* fails for a tag that exists, and where npm has nothing to bump.
RunStarts(i) ==
  LET r == runs[i]
      from == IF r.by = "tag" THEN tags[r.want] ELSE r.head
      bumps == r.by = "dispatch" /\ r.want # 0 /\ r.want # Files(from).manifest
      exists == r.by = "dispatch" /\ r.want # 0 /\ tags[r.want] # 0
      same == bumps /\ r.want = Files(from).pkg
  IN /\ r.pc = "start"
     /\ bumps => Len(commits) < MaxCommits
     /\ IF exists \/ same THEN Fails(i) /\ UNCHANGED commits
        ELSE /\ commits' = IF bumps
                           THEN Append(commits, Commit(from, BumpVersion(Files(from), r.want)))
                           ELSE commits
             /\ runs' = [runs EXCEPT ![i].pc = "check", ![i].version = r.want,
                                     ![i].head = IF bumps THEN New ELSE from]
     /\ UNCHANGED <<main, tags, released, head, tagged, script, pushes>>

\* Mutant: no look at the lockfile.
LockUnchecked(files) == TRUE

\* doctor.mjs, the lockfile section.
LockIsFresh(files) == files.lock = files.pkg

\* npm run doctor, the schema and the tests, which fail for their own reasons.
RunChecks(i) ==
  /\ runs[i].pc = "check"
  /\ \/ LockIsFresh(Files(runs[i].head)) /\ To(i, "pack")
     \/ Fails(i)
  /\ UNCHANGED <<commits, main, tags, released, head, tagged, script, pushes>>

\* Mutant: the tag is not compared with the tree.
ExpectsNothing(files, want) == files.pkg = files.manifest

\* pack-release.mjs --expect; a rehearsal expects nothing.
AsExpected(files, want) ==
  files.pkg = files.manifest /\ (want # 0 => files.manifest = want)

\* pack-release.mjs, which may fail otherwise; a rehearsal ends here.
RunPacks(i) ==
  LET r == runs[i] IN
  /\ r.pc = "pack"
  /\ \/ /\ AsExpected(Files(r.head), r.version)
        /\ To(i, IF r.by = "tag" THEN "publish" ELSE IF r.version = 0 THEN "done" ELSE "push")
     \/ Fails(i)
  /\ UNCHANGED <<commits, main, tags, released, head, tagged, script, pushes>>

\* git push origin HEAD:main.
RunPushes(i) ==
  LET r == runs[i] IN
  /\ r.pc = "push"
  /\ \/ /\ FastForward(main, r.head)
        /\ main' = r.head /\ To(i, "pushTag")
     \/ /\ ~FastForward(main, r.head)
        /\ Fails(i) /\ UNCHANGED main
  /\ UNCHANGED <<commits, tags, released, head, tagged, script, pushes>>

\* git push origin <tag>: it starts no other run.
RunPushesTag(i) ==
  LET r == runs[i] IN
  /\ r.pc = "pushTag"
  /\ \/ /\ tags[r.version] = 0
        /\ tags' = [tags EXCEPT ![r.version] = r.head] /\ To(i, "publish")
     \/ /\ tags[r.version] # 0
        /\ Fails(i) /\ UNCHANGED tags
  /\ UNCHANGED <<commits, main, released, head, tagged, script, pushes>>

\* It stands down when the tag has a Release.
RunPublishes(i) ==
  LET r == runs[i] IN
  /\ r.pc = "publish"
  /\ released' = IF released[r.version] = NoRelease
                 THEN [released EXCEPT ![r.version] = [zip |-> r.head, by |-> r.by]]
                 ELSE released
  /\ To(i, "done")
  /\ UNCHANGED <<commits, main, tags, head, tagged, script, pushes>>

-----------------------------------------------------------------------------
Next == \/ \E v \in Versions : ScriptCommits(v) \/ PushTag(v)
        \/ ScriptPacks \/ ScriptPushes \/ ScriptCreates
        \/ PushMain \/ Recover
        \/ \E want \in Versions \cup {0} : Dispatch(want)
        \/ \E i \in DOMAIN runs :
             \/ RunStarts(i) \/ RunChecks(i) \/ RunPacks(i)
             \/ RunPushes(i) \/ RunPushesTag(i) \/ RunPublishes(i)

Spec == Init /\ [][Next]_vars

-----------------------------------------------------------------------------
(* What makes the properties inductive.                                    *)

\* What the script has made sure of where it stands.
ScriptInv ==
  /\ script.pc # "idle" => script.version \in Versions
  /\ script.pc \in {"push", "create"} => Files(head).manifest = script.version
  /\ script.pc = "create" => tags[script.version] = head

\* What a run of the workflow has: a tag that started it, then a commit, then
\* a lockfile that fits, then the version it expects, then its tag.
RunFits(log, tag, r) ==
  /\ r.by = "tag" => r.want \in Versions /\ tag[r.want] # 0
  /\ r.by = "tag" /\ r.pc # "start" => r.head = tag[r.want] /\ r.version = r.want
  /\ r.by = "dispatch" \/ r.pc \notin {"start", "failed"} => r.head # 0
  /\ r.pc \in {"pack", "push", "pushTag", "publish"} =>
       log[r.head].files.lock = log[r.head].files.pkg
  /\ r.pc \in {"push", "pushTag", "publish"} =>
       r.version \in Versions /\ AsExpected(log[r.head].files, r.version)
  /\ r.pc = "publish" => tag[r.version] = r.head

RunInv == \A i \in DOMAIN runs : RunFits(commits, tags, runs[i])

\* A history holds its own commit, and the whole history of each it holds.
HistoryInv == \A c \in 1..Len(commits) :
                /\ c \in History(c) /\ History(c) \subseteq 1..Len(commits)
                /\ \A p \in History(c) : History(p) \subseteq History(c)

\* What was pushed to main stays in it.
MainInv ==
  /\ script.pc = "create" => head \in History(main)
  /\ \A i \in DOMAIN runs :
       runs[i].by = "dispatch" /\ runs[i].pc \in {"pushTag", "publish"} =>
         runs[i].head \in History(main)

-----------------------------------------------------------------------------
(* Properties.                                                             *)

Published == {v \in Versions : released[v] # NoRelease}

\* What a Release of v carries is version v, made from the commit that v's
\* tag is on, whoever was first of the script and the runs that race for it
\* (release.yml:18-22, pack-release.mjs:29-31).
ReleaseIsItsTag ==
  \A v \in Published : /\ Files(released[v].zip).manifest = v
                       /\ released[v].zip = tags[v]

\* What the workflow publishes has the version in all three files
\* (bump-version.mjs:9-13).
WorkflowReleasesAgree ==
  \A v \in Published : released[v].by # "script" =>
    Files(released[v].zip) = [manifest |-> v, pkg |-> v, lock |-> v]

\* A release cut from main is in main, also when main moved meanwhile and the
\* push was refused (release.yml, "Everything passed").
ReleaseIsOnMain ==
  \A v \in Published : released[v].by \in {"script", "dispatch"} =>
    released[v].zip \in History(main)

ReleaseInv == /\ TypeOK /\ ScriptInv /\ RunInv
              /\ \A v \in Published : released[v].zip # 0
              /\ ReleaseIsItsTag /\ WorkflowReleasesAgree

OnMainInv == HistoryInv /\ MainInv /\ ReleaseIsOnMain
=============================================================================
