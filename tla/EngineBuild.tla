---------------------------- MODULE EngineBuild ----------------------------
(***************************************************************************)
(* driver/engine-build.js: what the plugin says about its engine, and the  *)
(* build it starts when there is none.                                     *)
(*                                                                         *)
(* reconcileEngine() is synchronous JavaScript, so each action is one      *)
(* event - a config push, a timer, the end of the build's process - with   *)
(* the whole of reconcileEngine().  The machine changes under the plugin:  *)
(* the user installs tools and images, builds or cleans by hand, and the   *)
(* build itself leaves a binary before it exits.                           *)
(***************************************************************************)
EXTENDS Naturals

CONSTANT MaxLeaked \* bound: re-checks pending that nobody can clear

ASSUME BuildAssumption == MaxLeaked \in Nat

VARIABLES
  mock,       \* SB_USRP_MOCK
  tools,      \* "none"; "old": a UHD, not all that is needed; "ok"
  images,     \* UHD's folder holds the B206mini-i's images
  built,      \* engine/build holds a binary
  own,        \* the file the "Engine binary" setting names exists
  fromEnv,    \* SB_USRP_ENGINE: "unset", or whether the file it names is there
  cache,      \* engine/build/CMakeCache.txt; "bad" after a failed configure
  child,      \* the process building for the plugin
  inFlight,   \* #inFlight
  lastResult, \* lastResult: "none", "ok" or "failed"
  startedBy,  \* the kind of call that started the build: its `quiet`
  config,     \* the settings last pushed: "blank" or "own" engine path
  timer,      \* watch.timer: the settings its callback holds, or "none"
  leaked,     \* timers still armed that watch.timer no longer names
  last        \* watch.last, which is also the status the host shows

machine == <<mock, tools, images, built, own, fromEnv, cache>>
builder == <<child, inFlight, lastResult, startedBy>>
watch == <<timer, leaked, last>>
buildVars == <<machine, builder, config, watch>>

Configs == {"blank", "own"}
NeedsSetup == {"images", "prerequisites"}
Statuses == NeedsSetup \cup {"none", "ok", "bad-config", "building", "failed"}

BuildTypeOK == /\ mock \in BOOLEAN /\ images \in BOOLEAN
               /\ built \in BOOLEAN /\ own \in BOOLEAN
               /\ fromEnv \in {"unset", "present", "missing"}
               /\ tools \in {"none", "old", "ok"}
               /\ cache \in {"none", "good", "bad"}
               /\ child \in {"none", "configure", "compile", "linked"}
               /\ inFlight \in BOOLEAN
               /\ lastResult \in {"none", "ok", "failed"}
               /\ startedBy \in {"push", "tick"}
               /\ config \in Configs
               /\ timer \in Configs \cup {"none"}
               /\ leaked \in [Configs -> Nat]
               /\ last \in Statuses

BuildInit == /\ mock \in BOOLEAN /\ images \in BOOLEAN
             /\ built \in BOOLEAN /\ own \in BOOLEAN
             /\ fromEnv \in {"unset", "present", "missing"}
             /\ tools \in {"none", "old", "ok"}
             /\ cache = IF built THEN "good" ELSE "none"
             /\ child = "none" /\ inFlight = FALSE
             /\ lastResult = "none" /\ startedBy = "push"
             /\ config = "blank"
             /\ timer = "none" /\ leaked = [c \in Configs |-> 0]
             /\ last = "none"

-----------------------------------------------------------------------------
(* What a probe of the machine says.                                       *)

\* resolveEngineBinary() and then isFile(): the fake engine is always there,
\* and wins over the setting, the setting over the environment, and the
\* environment over what was built.
EngineOk(c) == \/ mock
               \/ c = "own" /\ own
               \/ c = "blank" /\ IF fromEnv = "unset" THEN built
                                 ELSE fromEnv = "present"

\* Without uhd_config_info the question cannot be asked, and all is well.
ImagesOk == tools = "none" \/ images

\* reconcileEngine()'s decision.  A tick is quiet; building, the last result
\* and the tools are looked at only when there is no engine to run.
Decision(c, quiet) ==
  IF EngineOk(c) THEN IF mock \/ ImagesOk THEN "ok" ELSE "images"
  ELSE IF c = "own" THEN "bad-config"
  ELSE IF inFlight THEN "building"
  ELSE IF quiet /\ lastResult = "failed" THEN "wait"
  ELSE IF tools # "ok" THEN "prerequisites"
  ELSE "start"

-----------------------------------------------------------------------------
(* reconcileEngine().                                                      *)

\* Mutant: the missing images are reported and not looked for again.
RechecksToolsOnly(d) == d \in {"prerequisites", "wait"}

\* again() is called: the re-check replaces the timer just cleared.
Rechecks(d) == d \in NeedsSetup \cup {"wait"}

\* Mutant: a timer forgets that it is one.
ForgetsQuiet(by) == FALSE

Quiet(by) == by = "tick"

\* say(): a quiet call does not repeat the last status, which comes to the
\* same for what the host shows.  "wait" says nothing.
SaidAfter(d) == IF d = "wait" THEN last
                ELSE IF d = "start" THEN "building" ELSE d

\* builder.start(): the child is spawned.  A spawn that throws ends the build
\* inside the promise's executor, before #inFlight is assigned; the re-check
\* that its failure arms is then the only timer.
StartBuild(by) ==
  /\ startedBy' = by
  /\ inFlight' = TRUE
  /\ \/ /\ child' = IF cache = "none" THEN "configure" ELSE "compile"
        /\ timer' = "none"
        /\ last' = "building"
        /\ UNCHANGED lastResult
     \/ /\ child' = "none"
        /\ lastResult' = "failed"
        /\ timer' = "blank"
        /\ last' = "failed"

\* The whole of reconcileEngine(c), with the timer already cleared.
Reconcile(c, by) ==
  LET d == Decision(c, Quiet(by)) IN
  \/ d = "start" /\ StartBuild(by)
  \/ /\ d # "start"
     /\ timer' = IF Rechecks(d) THEN c ELSE "none"
     /\ last' = SaidAfter(d)
     /\ UNCHANGED builder

\* init() and configUpdated().
ConfigPush(c) == /\ \A k \in Configs : leaked[k] < MaxLeaked
                 /\ config' = c
                 /\ Reconcile(c, "push")
                 /\ UNCHANGED <<machine, leaked>>

\* The callback of watch.timer.
Tick == /\ timer # "none"
        /\ Reconcile(timer, "tick")
        /\ UNCHANGED <<machine, config, leaked>>

\* The callback of a timer that was overwritten: it clears the newer one.
LeakedTick(c) == /\ leaked[c] > 0
                 /\ leaked' = [leaked EXCEPT ![c] = @ - 1]
                 /\ Reconcile(c, "tick")
                 /\ UNCHANGED <<machine, config>>

-----------------------------------------------------------------------------
(* The build: scripts/build-engine.mjs, run detached.                      *)

BuildConfigures == /\ child = "configure"
                   /\ child' = "compile"
                   /\ cache' = "good"
                   /\ UNCHANGED <<mock, tools, images, built, own, fromEnv, inFlight,
                                  lastResult, startedBy, config, watch>>

\* The linker has written engine/build/engine; the script still runs.
BuildLinks == /\ child = "compile" /\ cache = "good" /\ tools = "ok"
              /\ child' = "linked"
              /\ built' = TRUE
              /\ UNCHANGED <<mock, tools, images, own, fromEnv, cache, inFlight,
                             lastResult, startedBy, config, watch>>

\* The callback of a build that failed, or left no binary: it reports, and
\* arms a timer over whatever watch.timer holds.
ReportFailure == /\ last' = "failed"
                 /\ timer' = "blank"
                 /\ leaked' = IF timer = "none" THEN leaked
                              ELSE [leaked EXCEPT ![timer] = @ + 1]

\* `exit` with status 0.  The binary being there is what counts; then a
\* reconcile with the settings of the call that started the build, which
\* cannot decide to build, as the engine is there.
BuildSucceeds ==
  /\ child = "linked"
  /\ child' = "none" /\ inFlight' = FALSE /\ lastResult' = "ok"
  /\ IF EngineOk("blank")
     THEN /\ last' = IF mock \/ ImagesOk THEN "ok" ELSE "images"
          /\ timer' = IF mock \/ ImagesOk THEN "none" ELSE "blank"
          /\ UNCHANGED leaked
     ELSE ReportFailure
  /\ UNCHANGED <<machine, startedBy, config>>

\* `exit` with another status or by a signal, or `error`.  A configure that
\* fails may leave its cache behind.
BuildFails ==
  /\ child # "none"
  /\ child' = "none" /\ inFlight' = FALSE /\ lastResult' = "failed"
  /\ ReportFailure
  /\ cache' \in IF child = "configure" THEN {"none", "bad"} ELSE {cache}
  /\ UNCHANGED <<mock, tools, images, built, own, fromEnv, startedBy, config>>

-----------------------------------------------------------------------------
(* The user, in a terminal or in the settings.                             *)

Elsewhere == UNCHANGED <<mock, builder, config, watch>>

\* Install, upgrade or remove the build tools.  Homebrew keeps the images in
\* the versioned folder of UHD, so an upgrade loses them.
UserChangesTools == /\ tools' \in {"none", "old", "ok"} \ {tools}
                    /\ images' \in {images, FALSE}
                    /\ UNCHANGED <<built, own, fromEnv, cache>> /\ Elsewhere

\* scripts/install-images.mjs: nothing without a UHD to own the images.
UserInstallsImages == /\ tools # "none"
                      /\ images' = TRUE
                      /\ UNCHANGED <<tools, built, own, fromEnv, cache>> /\ Elsewhere

\* scripts/build-engine.mjs by hand, which may run beside the plugin's build.
UserBuilds == /\ tools = "ok" /\ cache # "bad"
              /\ built' = TRUE /\ cache' = "good"
              /\ UNCHANGED <<tools, images, own, fromEnv>> /\ Elsewhere

\* build-engine.mjs --clean.
UserCleans == /\ built' = FALSE /\ cache' = "none"
              /\ UNCHANGED <<tools, images, own, fromEnv>> /\ Elsewhere

\* The file that the setting or the environment names comes or goes.
UserMovesOwn ==
  /\ \/ own' = ~own /\ UNCHANGED fromEnv
     \/ /\ fromEnv # "unset"
        /\ fromEnv' \in {"present", "missing"} \ {fromEnv}
        /\ UNCHANGED own
  /\ UNCHANGED <<tools, images, built, cache>> /\ Elsewhere

-----------------------------------------------------------------------------
BuildNext == \/ \E c \in Configs : ConfigPush(c) \/ LeakedTick(c)
             \/ Tick
             \/ BuildConfigures \/ BuildLinks \/ BuildSucceeds \/ BuildFails
             \/ UserChangesTools \/ UserInstallsImages \/ UserBuilds
             \/ UserCleans \/ UserMovesOwn

\* Timers fire and the build's process ends; nothing makes the user act.
BuildSpec == /\ BuildInit /\ [][BuildNext]_buildVars
             /\ WF_buildVars(Tick)
             /\ \A c \in Configs : WF_buildVars(LeakedTick(c))
             /\ WF_buildVars(BuildSucceeds \/ BuildFails)

-----------------------------------------------------------------------------
(* Properties.                                                             *)

\* A status that waits for the user is one the plugin will look at again: the
\* re-check survives pushes with other settings, builds that end meanwhile
\* and timers that fire out of turn (engine-build.js:16-23).
WaitingIsTimed == last \in NeedsSetup => timer # "none"

\* Once the user has done what the status asked for, and left it so, the
\* status does not go on asking, whatever timers leak and whichever settings
\* they hold (engine-build.js:63-65), as long as no build exits as failed.
SetupCompletesUnfailed ==
  <>[](tools = "ok" /\ images /\ lastResult # "failed")
    => <>[](last \notin NeedsSetup)

\* After a build whose process failed - another exit status, a signal, no
\* process at all - the next one is started for a push, also when the timer
\* that fires was armed before it failed (engine-build.js:20-23).  A build that
\* exits 0 and leaves no engine is reported as failed too, but not kept as one
\* (383-391): the next tick starts the compiler again, and this does not say
\* otherwise.
FailedExitNotRepeated ==
  [][child = "none" /\ child' # "none" /\ lastResult = "failed"
       => startedBy' = "push"]_buildVars
=============================================================================
