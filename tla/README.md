# Verification of the USRP B206mini-i SoundBase plugin

TLA+ models of the plugin's own logic, the TLC runs that check them on small
instances, and TLAPS proofs of what matters most, for every value of the
constants. Paths below are relative to the repository. `PROJECT.json` maps every
definition to the lines it models.

- [The system](#the-system)
- [Modules](#modules)
- [What each run checks](#what-each-run-checks)
- [What the violations show](#what-the-violations-show)
- [Observed, not run](#observed-not-run)
- [Bounds](#bounds)
- [Fairness](#fairness)
- [What is proved](#what-is-proved)
- [What is not modelled](#what-is-not-modelled)
- [Plan](#plan)

## The system

```
SoundBase ── HTTP ──> adapter.js ── EngineClient ── Unix socket ──> engine (C++) ── USB ──> radio
                      openRadios    start/stop/setPlan              ctl, rx, dsp, watchdog, main
                      WarningTracker  frames.js
                      engine-build.js (builds the engine)
```

One Node process holds any number of adapters, one per device; each open adapter
has one EngineClient, and each EngineClient has one engine process, which holds
one radio. Commands go down the socket as JSON lines; frames (traces, status,
`applied`, logs) come up. When an engine dies the adapter reports it to the
shell, which closes the adapter and opens it again.

### Components

**Rings** (`engine/src/ring.hpp`). State: the cursors `head_` and `tail_` and the
slots. Operations: `beginWrite`, `commitWrite`, `peekRead`, `commitRead`, no
locks. Two rings: chunks (rx to dsp, 512 slots) and capture requests (ctl to dsp,
4096). Hard: both threads work in place on the slots between two calls, and the
cursors run freely and wrap. Correct when producer and consumer never share a
slot, nothing is lost, torn or handed out twice, and full and empty are never
confused. *Modelled and proved.*

**EngineClient** (`driver/engine-client.js`). State: server, child, connection,
`#stopping`, `#dead`, the health timer, the queue of apply waiters. Operations:
`start`, `setPlan`, `send`, `stop`, and a callback per timer, socket, process and
frame event. Hard: the same death is seen as an exit, a closed connection, a
silence and a broken stream, in any order; `stop` may come during `start`; answers
to plans are matched by what they echo, and the engine announces plans nobody
sent. Correct when a death is reported once and in one way, never after a stop;
every promise settles; silence is always noticed; no engine, connection or server
outlives a stop. *Modelled and proved.*

**Engine control** (`engine/src/engine.cpp`, `main.cpp`). Threads: ctl takes
commands in batches, makes plans, reconfigures the radio and sweeps; rx receives
into the chunk ring; dsp cuts captures from it; the watchdog ends the process when
a UHD call hangs or the stream is silent; main waits for a reason to leave and
shuts down. Shared state: `running_`, `rxPaused_`, `rxIdle_`, `streamer_`, `plan_`,
`desired_`, `planDirty_`, counters. Hard: any UHD call may throw or never return;
a reconfigure half done; plans, stops and shutdowns that arrive in the middle of
something; the order of the joins. Correct when each sweep runs on the plan last
asked for and announced, no sweep begins that nobody asked for, a hang or a silence
ends the process, and the device is closed after the last thread that uses it.
*Modelled and proved; the dsp thread is in the capture pipeline.*

**Capture pipeline** (`engine.cpp`: `dspLoop`, `runSweep`). State: outstanding
requests, the capture under way, its deadline, `capturedId_`. Hard: radio time
against request time, overflow, late starts, muted windows that restart a
capture, ctl giving a capture up while dsp works on it, the clock set to zero by a
reconfigure. Correct when every request is answered once and in order, a capture's
samples lie in its window, the radio is not retuned under a capture, and a
complete trace is of one sweep. *Modelled and proved, without the grid's content.*

**Discovery and radio claims** (`adapter.js`, `driver/locate.js`). State: the
module's `openRadios` and the enumeration cache, each adapter's serial.
Operations: `discoverDevices`, `open`, `close`, `onFatal`. Hard: an open radio does
not answer enumeration, so the claim is what keeps it in the list; `close` during
`open` leaves a promise behind that settles up to ninety seconds later, when the
device may have been opened anew; an enumeration is served from a cache, and one in
flight knows the bus as it was; several adapters may be of one radio. Correct when a
radio at work is in every answer, and one that is neither at work nor attached soon
is not. *Modelled and proved, up to what one adapter's end does to another's
claim.*

**Adapter session** (`adapter.js`). State: `plan`, `geometry`, `controls`,
`sweeping`. Operations: `applyConfig`, `startSweep`, `stopSweep`, the sweep
callback. Hard: the engine announces plans nobody asked for, answers a batch of
them once, and between sweeps only; sweeps of the old plan are on their way when
the new one is echoed. Correct when the echo is what is in force, every trace drawn
was measured on the grid that was echoed, the averaging choice is kept, and what is
dropped is followed by what is drawn. *Modelled; safety proved.*

**Frames and points** (`driver/frames.js`, `driver/plan.js`). State: the chunks not
yet framed. Operations: `push`, the codec, and the pure way from a sweep's cells to
the trace's points. Correct when frames do not depend on how the stream was cut, a
bad record costs no more than it must, and each point is a level measured in its
own cells. *Modelled and proved.*

**Engine builder** (`driver/engine-build.js`). State: the build in flight, the last
result, the pending re-check, the last status. Operations: `init` and
`configUpdated` (a push), the timer's tick, the end of the build's process. Hard:
pushes with other settings cross a build; a build's callback arms a timer over
another; the machine changes at any moment. Correct when a status that waits for the
user is looked at again, goes away when the user has done what it asks, and a
build whose process failed is not repeated by itself. *Modelled; safety proved.*

**Releases** (`scripts/release.mjs`, `pack-release.mjs`, `bump-version.mjs`,
`doctor.mjs`, `.github/workflows/release.yml`). State: main, tags and Releases on
GitHub, a maintainer's clone, the workflow's runs. Hard: the script's tag starts the
workflow, which races with it for the Release; main moves; tags are put anywhere.
Correct when a Release is what its tag says, and is in main when it was cut from
there. *Modelled and proved.*

**Sweep grid** (`stitch.cpp`), **sweep planner** (`sweep_planner.cpp`), **warnings**
(`driver/warnings.js`), **signal processing**, **calibration**, **support code**,
**other scripts**: see [What is not modelled](#what-is-not-modelled).

## Modules

| module | models |
|---|---|
| `SpscRing` | `ring.hpp` with one producer and one consumer thread; refines `BoundedFifo` |
| `BoundedFifo` | what a ring promises: a bounded queue with at most one item taken out last |
| `SpscRingProofs` | theorems about `SpscRing` |
| `EngineClient` | `engine-client.js` and the engine process as the client can see it |
| `EngineClientProofs` | theorems about `EngineClient` |
| `EngineControl` | the engine's ctl, rx, watchdog and main threads |
| `MCEngineControl` | values of `EngineControl`'s plans for TLC |
| `EngineControlProofs` | theorems about `EngineControl` |
| `CapturePipeline` | the windows of a sweep: `runSweep()`, `rxLoop()`, `dspLoop()` over FIFO rings; refines `CaptureService` |
| `CaptureService` | what the dsp thread promises: captures answered once and in order |
| `CapturePipelineProofs` | theorems about `CapturePipeline` |
| `EngineBuild` | the builder and its setup status; theorems in `ReleaseProofs` |
| `RadioClaims`, `RadioClaimsProofs` | discovery, claims and the devices' opening and closing; theorems |
| `MCRadioClaims` | two adapters and two radios for TLC, and the view it has of a state |
| `AdapterSession`, `AdapterSessionProofs` | an open adapter and its engine, fake or real; theorems about it |
| `MCAdapterSession` | the patches the shell asks for |
| `TraceGeometry` | `plan.js`: grid, geometry, gaps, points, as operators, and what they are checked against |
| `FrameStream` | `frames.js`, the socket's chunks, and each sweep's points |
| `MCFrameStream` | the streams sent |
| `FrameStreamProofs` | theorems about `FrameStream` and `TraceGeometry` |
| `Release`, `ReleaseProofs` | the release script, the workflow and the maintainers over one repository; theorems about it and `EngineBuild` |

The modules that stand on one another: `CapturePipeline` takes its rings as
sequences because `SpscRing` implements a FIFO; `RadioClaims` and `AdapterSession`
take an engine client as what `EngineClient` shows of it (a promise that settles, a
waiter answered by what it echoes, an ordered stream); `AdapterSession` takes the
engine's ctl loop as `EngineControl` shows it (batches, between sweeps);
`FrameStream` extends `TraceGeometry`.

**SpscRing.** A ring call touches the shared memory once (it loads the other
thread's cursor or stores its own), so each call is one action, sequentially
consistent as acquire and release make it for one producer and one consumer. What
a thread does in place between two calls is an action too: `Fill` (recv into the
chunk), `Abandon` (rxLoop's `continue`s: the slot is given back without a commit
and may be left dirty), `ReadSlot` and `Keep` (a capture that ended inside a chunk
leaves it in the ring for the next). While a slot is being filled it holds `Torn`.
Cursors are counted modulo `Laps * Slots`, which stands for 2^64, a multiple of
512 and of 4096.

**EngineClient.** JavaScript runs a callback to its end, with the continuations of
the promises it settles, so one action is one event. `#die` and the first part of
`stop()` are operators used by the actions that call them; when `#die` fails a
pending `start()`, its catch block, which calls `stop()`, is part of the same
action (`FailStart`). `startPc` and `stopPc` say where the calls of `start()` and
`stop()` are; a waiter is the call it belongs to and the plan it sent, and
`AnswersHead` is `answers()`: an `applied` frame settles the oldest waiter if it
echoes that waiter's plan. The engine process is environment: it connects, sends
any frame (also a stream that does not parse), hangs up, exits and wedges whenever
it likes. `proc` is the process as it is together with what Node has reported of
it. A frame already sent is read even after the connection dropped.

**EngineControl.** An action is one step of one thread between two points where
another thread's steps matter. `handleCommands()` swaps the queue for a batch
(`CtlTop`), handles it command by command (`HandleCommand`) and applies the plan
once (`BatchDone`, and `PauseRx` to `ApplyPlan`). `reconfigure()` is four steps:
stop the stream and pause rx, wait for `rxIdle_` (or two seconds), set the rates,
start the stream and resume rx; it may throw from the last two, and always does when the
radio is dead; `ReconfigureFails` is `applyPlan()`'s catch. rx reads `rxPaused_`
and clears `rxIdle_` in two steps, as the code does. A plan is a profile (with its antenna: what
needs a reconfigure) and a span (the rest). What `applyPlan()` writes back
into `desired_` (the quantised span and bandwidths) is the same plan in the model.
A wedged ctl thread takes no step that calls UHD. The dsp thread is left out:
ctl waits for a capture or for its timeout, and does the same after both. The command
line may bring a plan or not (`QueueLinePlan`). `owed` is history, which no step of
the code looks at: the sweeps that were asked for and have not begun, none, one
(`single`) or any number (`start`).

**CapturePipeline.** Time is the radio's and is counted in samples; it advances
with each chunk (`Receive`), which the ring takes, which is lost on the way (an
overflow) or finds the ring full. A sample is the time it was taken and the
tuning it was taken with: the LO hop and the window, from the timed retunes that
are due. The ctl thread is at a hop (`Hop`, `Reconfigure`) or asking and waiting
(`Ask`, `Captured`, `GiveUp`); both of its waits have a limit. The dsp thread
takes one step per round of `dspLoop()`: `Discard`, `TakeRequest` or `Proceed`.
The body the last two share is `Examine`, `Begin` and `Take`, in the order of the
code's tests; `cur` and `got` are its locals, `cur = None` is `have == false`. A chunk may
turn out muted wherever one is looked at (`Take`). `Process` is `processCapture()`, a step of its own
because `capturedId_` is published before it. The grid is reduced to which
windows it holds. The rings are sequences: that `SpscRing` is a queue is
`RingIsFifo`. Sample counts are exact where the code rounds seconds; a stop is a
sweep that begins anew at the first LO position. A window is never shorter than the
fewest samples a capture is worth (`MinSamples`): both are `samplesNeeded()` of the
plan's FFT, with its averages and with one (`sweep_planner.cpp:162`,
`engine.cpp:213`). Four variables are history only: `refused` (a request found its
ring full), `faults`, `overdue` (a window was asked for after its retune was due) and
`stranded` (the clock was set back under captures not answered).

**EngineBuild.** `reconcileEngine()` has no await, so an action is one event with
the whole of it: `ConfigPush`, `Tick`, and `LeakedTick`, the callback of a timer
that was armed over and can no longer be cleared. `Decision` is its chain of tests,
`Reconcile` what follows from it; the callback of a build is `BuildSucceeds` or
`BuildFails`. The build's process goes through the stages of `build-engine.mjs` by
itself and writes its binary before it exits. Which engine there is to run follows
`resolveEngineBinary()`: the fake one, the one of the setting, the one
`SB_USRP_ENGINE` names (`fromEnv`), what was built; the named files may be missing,
come and go. `child` and `inFlight` are kept apart:
a spawn that throws leaves a build in flight without a child (`StartBuild`). Its
specification is `BuildSpec`, and not `Spec`, because `ReleaseProofs` is about two
specifications.

**RadioClaims.** Any number of adapters share the map and the cache, and several may
be of one radio: a device that is removed and added again is a new adapter. Each call
of `open()` is named, because calls overlap, of one adapter or of several: `close()`
stops a client whose `start()` is still pending, and that `start()` settles up to
ninety seconds later. Nothing holds an adapter back from opening or closing at any
moment. `owner[o]` is the adapter of a call, `named[o]` the serial it began with
(the adapter's own may change while it waits), `open[o]` its promise, `proc` and
`holds` its engine process. `Poll` is a call of `discoverDevices()` that has to
enumerate; what such a call answers is `Answer` at any moment at which the cache is
fresh. `FindSamples` and `FindEnds` are `engine --find` looking at the bus and its
result being read; `Later` is one `DISCOVERY_INTERVAL_MS`. Two variables are history:
`unseen` counts since when an enumeration could have seen a radio, which
`ListedIsRecent` is about; `robbed` is the calls at work whose claim another party
has given up (`Rob`).

**AdapterSession.** The adapter and its engine over two queues. `ApplyConfig` is
`applyConfig()` up to its await, `Deliver` a frame's callback, `Echo` the rest of
`applyConfig()`. The fake engine takes a line at a time, and keeps the plans that
come before its second announcement (`FakeAnnounces`); the real one takes all lines
between two sweeps and announces once (`RealLoop`). Its sweep ends for ctl when the
last capture is taken (`RealSweepEnds`); the dsp thread computes and sends the trace
afterwards (`RealSends`), so the answer to a plan may overtake the last sweep of the
plan before. Image rejection and averaging
are modelled as the two policies the adapter adds to what it was asked. An averaging
ratio is an RBW over a VBW; `Closer` compares two by their logarithms, without
taking any.

**FrameStream and TraceGeometry.** A stream of records is chosen, with or without a
fault, and cut up in every way (`Data`); what `push()` does with a chunk is computed
as the code does it, chunk list, head offset and all. Its loops are recursive
functions of the number of turns: `TakeTurn` is one turn of `#skip()` and `#take()`,
`Turn` one of `push()`, and a turn after the last changes nothing, so `Take` and
`Push` are what is left after as many turns as there can be. `OnFrame` is what the
client and the adapter do with a frame. `StreamAssumption` says what the engine may
send (`CanSend`): any frame that fits and whose traces have their cells, with one of
six faults or none. The two scans of `fillGaps()`
are recursive functions too, over the cells (`LeftIdx`, `RightIdx`), and `Source` is its
choice between them. `PointsAreMeasured` compares the points with a definition
that knows only the axis that was echoed and the cells.

**Release.** What one actor does between two dealings with GitHub is one step.
A commit is its history (itself and all that it follows) and the three files'
versions, so what is left out of a release is everything but which commit it was
made from. `FastForward` is what a push to a branch needs: the new commit's history
holds the old one.

## What each run checks

| run | module, spec | properties |
|---|---|---|
| `ring` | SpscRing, `Spec` | `CursorsInStep`, `SlotExclusive`, `ImplementsFifo` |
| `client` | EngineClient, `FairSpec` | `OneVerdict`, `WaitersMatch`, `SilenceIsTimed`, `StoppedIsReleased`, `NoFatalOnStop`, `LossIsReported`, `StopEndsEngine`, `StartSettles`, `CallsSettle` |
| `control` | EngineControl, `FairSpec` | `SweepsWhatItSaid`, `JoinedBeforeClose`, `LatestPlanApplied`, `SweepsAsAsked`, `WedgeIsFatal`, `SilenceIsFatal`, `ShutdownEnds` |
| `control_return` | EngineControl, `Spec` | `ReleasedOnReturn` is **violated** |
| `capture` | CapturePipeline, `Spec` | `DrainedOnHop`, `PunctualIsOwn`, `ExactOnFlawlessStream`, `TraceIsOneSweep`, `AnswersInOrder` |
| `capture_tail` | CapturePipeline, `Spec` | `TailIsOwn` is **violated** |
| `build` | EngineBuild, `BuildSpec` | `WaitingIsTimed`, `FailedExitNotRepeated`, `SetupCompletesUnfailed` |
| `claims` | RadioClaims, `Spec` | `WorkingIsListed`, `ListedIsRecent` |
| `session` | AdapterSession, `Spec` | `TypeOK`, `EchoIsInForce`, `TraceOnEchoedAxis`, `AveragingIsKept`, `TracesArrive` |
| `session_frozen` | AdapterSession, `Spec` | `DroppedIsFollowed` is **violated** |
| `wire` | FrameStream, `Spec` | `TypeOK`, `FramesAsSent`, `PointsAreMeasured` |
| `release` | Release, `Spec` | `ReleaseIsItsTag`, `WorkflowReleasesAgree`, `ReleaseIsOnMain` |

- `ring` shows that no interleaving of the two threads, on either side of a
  wrap, lets them meet in a slot, and that what comes out is what went in, whole,
  once and in order.
- `client` shows that every way an engine can die or fall silent ends in exactly one
  report, that nothing is reported once a stop was asked for, that `start()` and
  `setPlan()` settle whatever the engine does, that a plan's promise is open
  exactly while its waiter is queued, and that no engine outlives a stop.
- `control` shows that whatever arrives while a plan is applied or swept, the sweep
  that follows is of the plan announced last and asked for last; that the last
  plan of a burst is put in force, also one that needs no reconfigure; that after a
  `single` one sweep begins and after a `stop` none, until a `start` or another
  `single` is handled; that a hang or a silent stream ends the process; and that an
  orderly shutdown joins in the right order and comes to an end unless a UHD call
  hangs.
- `capture` shows that however chunks are lost, muted or late, and however long
  ctl or dsp take, each request is answered once and in turn; that the radio
  hops under a capture only after ctl gave it up (or could not even ask for the
  position's first one, which leaves it nothing to wait for); that a window whose
  retune was in time and that ended on schedule holds its own spectrum only; that as long
  as no sample is lost or muted, ctl keeps its timetable and the clock is not set
  back under a capture, every window is captured whole and to the sample; and that a complete
  trace has every window of its sweep, in order, unless a request found its ring
  full.
- `build` shows that a status that asks for something is looked at again whatever
  comes between, that it goes away when the user has done all it asks and no build
  has failed, and that after a build whose process failed the next is one that a push
  of settings asked for. A build that exits 0 and leaves no engine is not such a one;
  see [Observed, not run](#observed-not-run).
- `claims` shows that a radio at work is in every answer, also in one from the cache
  or from an enumeration begun before it was opened, when calls of `open()` of one
  adapter or of two overlap, fail late and are closed, as long as nobody but its own
  adapter's call gives its claim up; and that an answer names no radio that nobody
  has claimed and that was last there longer ago than an enumeration and the cache
  can take. It says nothing of a claim that outlives its engine.
- `session` shows, with both engines, that no announcement is taken for the answer of
  a call, so that the echo is the plan in force; that a trace is never of another
  axis than the one echoed; that a new RBW alone keeps the averaging; and that a
  configured adapter goes on drawing, unless a call was not acknowledged.
- `wire` shows that any cut of the stream gives the frames that were sent, and for
  every shape of sweep in the bounds the points that its axis promises.
- `release` shows that whoever wins, a Release is of its own version and its tag's
  commit; that one of the workflow's agrees with itself; and that one cut from main
  is in main.

Each property of the passing runs has a mutant in `PROJECT.json`: a definition of
the model with a plausible mistake in it, under which TLC finds the property
violated. The mutants are the definitions that stand before the ones they
change.

## What the violations show

1. `control_return`: after a `shutdown` command or a fatal error in ctl,
   `running_` is already false, so `Engine::shutdown()` (`engine.cpp:45`) returns at
   its first line: no join, no stream stop, no close, and joinable threads are
   destroyed.
2. `capture_tail`: a capture that meets zeros starts again after the muted chunk with its
   full length (`engine.cpp:182`), while the next window's retune keeps its time. Its
   tail is the neighbour's spectrum, and it counts as valid. The comment on late
   starts (`engine.cpp:165`) says why a window must not do that; only those are
   shortened. A chunk that finds the ring full in the middle of a capture
   (`engine.cpp:106`) has the same effect.
3. `session_frozen`: `setPlan()` gives up after ten seconds
   (`engine-client.js:217`), but the engine reads commands between sweeps only, and a
   sweep may be longer: at dwell `long` each step takes 100 ms or more. The plan is then applied
   all the same. Nobody waits for its `applied`, so the adapter keeps the old grid and
   `sameGrid()` (`adapter.js:680`) drops every sweep from then on, where the comment
   above it (`adapter.js:675`) counts on the next one. Warnings do not show it either,
   as the sweeps do arrive. Another `applyConfig()` that is answered ends it.
   `TracesArrive`, which the `session` run checks, is the same promise without a
   failed call.

## Observed, not run

Behaviour met while modelling. It is plain from the lines named, and a run would
only repeat them, or it concerns code outside the models.

- `pauseRx()` (`engine.cpp:121`) empties the chunk ring from the ctl thread with the
  consumer's calls while the dsp thread is in the same calls; `ring.hpp:1` says
  single consumer. Both may release the same chunk.
- A `stop()` during `start()`'s `#listen()` (`engine-client.js:162`) finds no server
  to close; `start()` then sets `#server` and throws, and the listening socket stays.
- A `stop` command is read between sweeps only (`engine.cpp:271`), so the test before
  each LO position (`engine.cpp:432`) cannot see one sent during the sweep;
  `docs/engine-protocol.md:205` promises the next LO position.
- A radio that dies in a reconfigure leaves the engine with no stream or with rx
  paused (`engine.cpp:331`): the watchdog has nothing to notice, and status goes on;
  `docs/architecture.md:222` says that must not be. `EngineControl` takes these steps,
  and its properties hold on them: a sweep without a stream is still announced, and
  `SilenceIsFatal` is about the engine's own stream.
- `pauseRx()` empties the chunk ring, but not `requests_`. A request that ctl gave up
  before a reconfigure keeps its time on the old clock: dsp waits with it until the
  new clock gets there (`engine.cpp:162`), and ctl gives up what it asks for behind it.
- `cal_` and `eq_` are replaced by ctl (`engine.cpp:373`) while the dsp thread may be
  using them for the last captures.
- Any exception thrown while a frame is handled, also by `onSweep` or `onTrace`, is
  reported as a frame stream that went bad, and ends the engine
  (`engine-client.js:362-368`).
- The claims are a set of serials, not counted. A call of `open()` that is rejected
  (`adapter.js:224`), an engine that dies (`241`) and an adapter that is closed
  (`663`) give the serial up whoever else works with it, and a radio at work leaves
  the list, which `adapter.js:72-79` says must not be. It needs no two devices at once:
  a device that is removed while it opens and added again is enough, since the first
  `open()` may be rejected up to ninety seconds later, when the second works.
  `WorkingIsListed` holds up to that moment; `robbed` is those calls.
- A status in the two seconds of grace after `close()` still resolves `open()`, which
  claims the radio anew (`adapter.js:266`) for an adapter that is gone. Nothing gives
  that claim up again until a device of this serial is closed or fails.
- A `spawn` that throws (`engine-build.js:244-286`) settles the build before
  `#inFlight` is assigned, so the builder is "building" for ever.
- After a failed build `again()` (`engine-build.js:391`) replaces `watch.timer` without
  clearing it, so timers do stack, contrary to the comment at 291; and the callback
  reconciles with the settings of the push that began the build. `leaked` is those
  timers; `WaitingIsTimed` and `FailedExitNotRepeated` hold with them.
- A build that exits 0 and leaves no engine is reported as failed
  (`engine-build.js:387-391`; the test at `__tests__/engine-build.test.js:156` calls
  it a failure), but `lastResult.ok` is true, so the test at 372 does not see one, and
  each re-check starts the compiler again, every fifteen seconds, which
  `engine-build.js:20-23` says must not be. `SB_USRP_ENGINE` naming a missing file is
  enough (it wins over what was built, `locate.js:82`), or a `--clean` before the
  build's exit is handled. `EngineBuild` has both.
- After a failed build, setup that is completed does not start another until the next
  push (`engine-build.js:372`), though the status promises that it carries on by
  itself (`63-65`). `SetupCompletesUnfailed` therefore excludes a failed build.
- `release.mjs` bumps two files and leaves `package-lock.json` behind, which
  `bump-version.mjs:9-13` is there to avoid. The workflow run that its tag starts then always fails
  in the doctor's lockfile check (`doctor.mjs:258`). The Release is the script's own.
- `git push origin main <tag>` (`release.mjs:354`) is not atomic: with a main that has
  moved the tag may be pushed without its commit being in main, and the workflow is
  started by it. `ReleaseIsOnMain` is therefore about releases cut from main, not about
  tags.
- One clipped sweep is counted once per status (`warnings.js:64`), and statuses come
  each second while a longer sweep is under way, so a streak of two can be one sweep.

## Bounds

| bound | value | why it is enough |
|---|---|---|
| `Slots`, `Laps` (ring) | 3, 2 | one slot filled, one read, one waiting; a wrap of the cursors in every long run |
| `Items` (ring) | 2 | two contents are enough to tell order and duplication apart; the proofs have any set |
| `Calls`, `Plans` (client) | 2, 2 | a waiter behind a waiter, with the same plan or another |
| `Closers` (client) | 1 | with the stop that `start()` makes itself, two overlap |
| `MaxInbox` (client) | 1 | the engine may always send the next frame once one is read; one frame left over after a hang-up or a kill is the interesting case |
| `Profiles`, `Spans` (control) | 2, 2 | a plan that needs a reconfigure, one that differs in its span only and needs none, and the same again |
| `Hops` (control) | 2 | something can happen between two LO positions |
| `TimeoutLimit` (control) | 0 | stands for the 6 of the watchdog: at 0 the first timeout is already one too many, so the watchdog may bite at more moments, not at fewer |
| `MaxCommands` (control) | 1 | with the command line's plan two commands can be in a batch, or one behind the other. The safety properties were also checked with two, and the theorems have any number |
| `ChunkLength`, `Window`, `Guard`, `DdcGuard` (capture) | 3, 4, 1, 1 | windows begin and end inside chunks, two windows meet in one chunk, and a window is met one, two (shortened), three (too short) and four samples late |
| `Positions`, `Windows` (capture) | 2, 3 | a sweep has two hops; the third window is the first that waits for a free timed command |
| `RingSlots`, `RequestSlots` (capture) | 2, 2 | dsp lags by two chunks; both rings fill up |
| `Slack`, `Patience`, `RetunePatience` (capture) | 1, 0, 0 | every limit is reached, and ctl's before dsp's and after it |
| `MaxTime`, `MaxSweeps`, `MaxEpochs`, `MaxFaults` (capture) | 30, 2, 1, 1 | a complete trace, also of a sweep that follows a stopped one; one fault reaches every branch of a round. Only the exemption of `DrainedOnHop` (no slot for a first request) takes two; the proof covers it. The proofs have any values, these four included |
| `MaxLeaked` (build) | 2 | a timer nobody can clear fires before and after another |
| `Adapters`, `Opens`, `Radios` (claims) | 2, 2, 2 | two adapters of one radio, of two, or with a blank serial; a call of `open()` that settles late beside one that follows it. TLC looks at states through a view that leaves out what is over (`ClaimView`). The proofs have any number of each |
| `FindMax` (claims) | 1 | an enumeration outlives the cache of the one before. `engine --find` may take 6 s, between two and three intervals of 2.5 s: 2 was checked with one radio, and the proofs have any timeout |
| `Requests` (session) | 5 patches | nothing; a span with an averaging; a video bandwidth over the RBW, with the image rejection; an RBW with the same grid (and the span); an RBW with another grid |
| `MaxCalls`, `MaxLines`, `MaxFrames` (session) | 3, 2, 2 | a call after one that was echoed and one that failed; a plan and a start in a batch; a sweep of the old plan before the answer. In `session_frozen` two calls are enough |
| `Ratios`, `MaxStep` (session) | {1, 10}, 20 | RBWs below, at and above the widest step; averaging that rounds. The proofs have any finite set of ratios |
| `Base`, `MaxPieces` (wire) | 16, 3 | a length of two units, either of which may be cut off; a record of three chunks, or two records with cuts inside both |
| `MaxPoints` (wire) | 2 | as many cells as points, one more, and a last point with fewer cells |
| `Streams` (wire) | 169 and 12 x 12 | each level, hole or no number in each of three cells; every ordered pair of records, good, skipped or fatal |
| `Versions`, `MaxCommits`, `MaxRuns`, `MaxPushes` (release) | 2, 4, 2, 1 | the version of the tree and the next; a commit each of the script, a run and a maintainer; a run started by the script's tag and one by hand |

## Fairness

Safety properties need none. For liveness:

- `EngineClient`: Node runs each callback that is due and each timer that is not
  cleared fires (weak fairness of each timer and event). The health timer is
  owed only if no status can come any more (`Silent`), because every status
  re-arms it. SIGKILL works, also on a wedged engine. The engine itself owes
  nothing: it may never connect, answer, or obey.
- `EngineControl`: the scheduler runs every thread that can go on (weak fairness
  per thread), and both of the watchdog's reactions. A UHD call returns or throws
  unless it has wedged; nothing is assumed of the client, the user or the radio, and
  a pulled cable or a hang is never owed. The watchdog gets one fairness condition
  per reaction since it looks at both things in each round.
- `EngineBuild`: timers that are armed fire, and the build's process ends, well or
  not. The user, and whoever pushes settings, owe nothing: `SetupCompletesUnfailed`
  is about the case that they did what was asked.
- `AdapterSession`: the engine goes on taking lines and sweeping, its dsp thread
  sends what was captured, the socket delivers, and a promise that is settled resumes its caller. Neither the shell's
  calls nor a timeout is owed, and the order of these is free.
- `RadioClaims`, `FrameStream`, `Release`, `SpscRing` and `CapturePipeline` state
  safety only.

## What is proved

All theorems hold for every value of the constants that satisfies the modules'
named assumptions (`SlotsAssumption`, `LapsAssumption`, `ItemsAssumption`,
`ClientAssumption`, `ControlAssumption`, `CaptureAssumption`, `NoneAssumption`,
`BuildAssumption`, `ClaimAssumption`, `SessionAssumption`, `GeometryAssumption`,
`StreamAssumption`, `ReleaseAssumption`), which TLC evaluates in each run.

**SpscRingProofs.** `RingInv` is inductive: `CursorsInStep` and `SlotExclusive`
alone are not, because a thread that has a slot must also *know* that there was
room (or a chunk) when it looked, and that the other thread's progress can only
have helped; and each slot between the cursors holds a whole chunk. The proof
rests on arithmetic lemmas about distances modulo `Wrap`, and on `Slots` dividing
`Wrap`. From it: `TypeCorrect`, `CursorsStayInStep`, `NoSlotRace`,
`HeldStaysOldest`. `RingIsFifo` is the refinement: each step maps to a put, a take
or a stutter of `BoundedFifo`, with `Stored`, the slots between the cursors, as
the queue.

**EngineClientProofs.** Three parts are inductive together. `ControlInv`: nothing
is under way before the child is spawned; `#stopping` is set exactly when a
stop has begun; once it is, that stop alone holds the child, so when no stop is in its
grace period the engine is gone or killed; a verdict goes with `#dead`.
`WaitersInv`: the queue's calls are the open ones, without repeats. `LinkTyped`:
the connection. From them: `ClientTypeCorrect`, `OneVerdictAlways`,
`NoCallForgotten`, `SilenceAlwaysTimed`, `StopReleases`, and the action property
`RequestedStopIsQuiet`.

**EngineControlProofs.** `ControlInv` adds to the typing what ctl knows where it
stands: dirty while it applies, clean from `BatchDone` to the end of the sweep
(`DirtyWhileApplying`); a clean plan is the one in force (`PlanInForce`); and what
main knows from the joins it has passed (`JoinsInOrder`: a thread that has ended
does not come back). `WantedIsOwed` ties `sweepingWanted_` and `single_` to what was
asked for: `single_` never stands alone, sweeping without it was a `start`'s, and with
it, the one sweep is still owed until it begins. From it: `ControlTypeCorrect`,
`SweepIsAnnounced`, `SweepsOnlyAsAsked`, `CloseIsLast`.

**CapturePipelineProofs.** `CaptureInv` is inductive. Its core is `Numbered`: the
capture under way and the requests behind it bear the numbers that follow
`capturedId_`, up to `nextReqId_`, which neither `AnswersInOrder` nor
`DrainedOnHop` says by itself. A round of `dspLoop()` either leaves its capture
unfinished or answers it (`ExamineRound`), so the numbers close up by at most one
(`RoundStep`). A capture under way lacks samples (`CaptureTyped`), so it never
overruns its buffer. When ctl sees the last number it asked for, nothing is left
outstanding (`CapturedStep`). From it: `TypeCorrect`, `HopsDrained`, and the refinement
`ServiceImplemented`.

Three more invariants stand on that one:

- `TraceInv`, for `TraceAlwaysOneSweep`. The windows of a sweep are numbered, and what
  was last added to the grid, the capture at work or just done, the requests and the
  window ctl asks for next form a chain (`Chained`): each link begins a sweep or goes
  on with the one before. A request that found its ring full breaks the chain, hence the
  property's exemption. The grid is then always a first part of one sweep.
- `OwnInv`, for `PunctualAlwaysOwn`. The retunes of the position are in time with its
  windows (`Timetable`); a request is of the position and its retune is timed, or its
  time is over (`Scheduled`); so a sample of the window's time, in the ring or in the
  capture, was taken with the radio tuned to it (`RingOwn`, `SamplesOwn`). It must be
  said of the ring, since ctl's retunes and dsp's captures meet only there.
- `ExactInv`, for `ExactAlways`. Without a fault the ring is contiguous, the requests
  are in the order of time and begin where or after the stream goes on (`NextAt`), and
  a capture has exactly the samples from its start up to there (`Cut`).

  The last one is not inductive where the clock is set to zero by a reconfigure
  with captures unanswered (ctl has given them up): their times are then of another
  clock than the samples. `stranded` is the history of that, and the property
  excludes it, instead of every sweep in which ctl gave a capture up as it once did.

**RadioClaimsProofs.** For any adapters, of one radio or several, and any calls.
`WorkingIsClaimed` is inductive with the types: the radio of each call at work that is
not in `robbed` is claimed. A call gets its claim when it begins to work
(`OpenResolves`), and each of the four steps that delete a claim either ends that
call's own work or puts the others with the same radio into `robbed` (`KeepsClaim`);
every other step leaves claims and work alone (`QuietKeeps`). Without `robbed` it is
false, as described [above](#observed-not-run). `DevicesListed` follows, because an
answer is laid over with the claims as they are when it is given. For `AlwaysRecent`:
in `RecentInv`, what a running enumeration has found was seen no longer ago than the
enumeration has run, and what a fresh cache names no longer ago than one may run.

**AdapterSessionProofs.** `EchoAlwaysInForce`, `AveragingAlwaysKept` and
`SessionTypeCorrect` follow from `SessionInv`, which has every line and frame under
way in it. Between calls (`Quiet`) nothing that is still to be read changes the
plan in force, and every answer under way is of it. While a call waits (`Waits`), only
the last `setPlan` line, the call's own, may change the plan (`SettledButLast`), and as
soon as an answer that passes for the call's is under way, it and all behind it are
of the plan in force: that is why an announcement nobody asked for may settle the
call without harm. `SessionTypeCorrect` apart, this holds until a call is not
acknowledged (`failed`); what may come after that `DroppedIsFollowed` shows. The averaging rests on a lemma about
`AveragingId`: of the plan `planFor()` makes for a ratio, that ratio is the closest
one, for any set of ratios. `TracesOnAxis` needs less, and holds behind a failed
call too: the geometry, if any, is the grid of `plan`, and an echo, which changes it,
comes from the call and forgets what was drawn (`AxisInv`).

**FrameStreamProofs.** `StreamInv` says where the reader stands: it has handled the
first k records, each as `OnFrame` handles one (`Handled`); and either it waits,
what is buffered and what is on the wire being the other records to the unit
(`Reading`) and the next of them not yet whole (`Waits`), or the next was fatal
(`Ended`); the two together are `Settled`. TLC checked it on the instance of `wire` first. It rests on three
results of their own. `FrameRoundTrip`: `decodeFrame()` gives back every frame that
`encodeFrame()` made. `TakeIs`: `#skip()` and `#take()` take the next n units and no
others, over any number of chunks, and no chunk that is used up stays. `PushIs`:
`push()` keeps `Reading` in each turn and goes on as long as a record is whole;
since a record has more than eight units, the turns the model gives it are enough.
From the invariant: `TypeCorrect`; `SentFramesCome`, because the k of `StreamInv`
is `Came`, the number of records that are there by their lengths alone; and
`SweepsAreMeasured`, because the points are those of the frames as they were sent.

Induction over data is out of the prover's reach, and not used. A loop of n turns
is a function on 0..n; that it exists is shown from an operator that gives each turn
its value, and what its turns keep holds in all of them because no turn
is the first in which it could fail (`UpTo`, from the least of a set of naturals).
Concatenations of many sequences, `FlattenSeq`, are handled the same way.

The second part is about `TraceGeometry`, for sweeps of any length, with any holes,
on any grid. `GridCoversSpan`: `snapToGrid()` gives a grid that covers the span and
exceeds it by less than a step at its start, by a step at most at its end.
`PointsFit`: `nativeGeometry()` promises as many points as `decimate()` makes, two or
more and never too many. `GapsAreNearest`: `fillGaps()` gives each cell the
level of the nearest measured one, the lower of two. `TraceIsMeasured` puts
them together: each point is the strongest (or weakest) level among the cells
that the reconstructed axis gives to it, which is what `PointsAreMeasured` checks of
the points of one sweep. The scans of `fillGaps()` are recursive functions;
what they compute (`LeftScan`, `RightScan`) is proved without induction: a function
with the wanted values satisfies the recursion, and one that does has them, since there
is no first cell at which it could differ.

**ReleaseProofs.** `ReleaseInv`: what the script has made sure of at each of its
steps (`ScriptInv`), what each run of the workflow has (`RunFits`: a tag or a commit,
then a lockfile that fits, then the version it expects, then its tag on its commit),
and two of the properties. Commits are only added and tags not moved (`Kept`), so what
one actor knows stays true under another's steps; what it does not know, that no
Release is there, is tested in the step that creates it. `OnMainInv` is about the
third, `ReleaseAlwaysOnMain`: a history has the whole history of each commit in it
(`HistoryInv`), so a fast-forward loses nothing (`MainKeeps`), and what the script or
a dispatched run has pushed to main is still in main when it gets to publishing,
however main moved in between (`MainInv`).

The second part is about `EngineBuild` (`BuildTypeCorrect`, `WaitingTimed`,
`FailedExitNeverRepeated`). `WaitingIsTimed` needs to know of the other statuses too: one that
builds is timed by the build, which is either in flight with its child or has
reported. `FailedExitNotRepeated` follows from what a tick, armed before or after the
failure, decides.

**Model-checked only.** Every safety property of the runs that hold is proved. Liveness
(`LossIsReported`, `StopEndsEngine`, `StartSettles`, `CallsSettle`,
`LatestPlanApplied`, `WedgeIsFatal`, `SilenceIsFatal`, `ShutdownEnds`,
`SetupCompletesUnfailed`, `TracesArrive`) stays with TLC: liveness under fairness,
and ENABLED, are outside what the prover's installed backends do.

## What is not modelled

- A plan that changes while requests of the old one are queued, partial traces,
  the untimed DDC fallback, and a shutdown in the middle of a capture, in
  `CapturePipeline`. After a clock reset, requests given up before it are still queued
  with times of the old clock: the model has them (they are answered, in order),
  but no property says how soon.
- Auto gain, status frames, calibration planting, `recal`, `dump` and
  the gain commands of the engine. A `recv()` that throws on a dead device ends the
  process at once through `std::terminate`; the model has a dead device time
  out, the slower of the two.
- Undefined behaviour beyond the choice it stands for: `streamer_` replaced while
  rx reads it (`engine.cpp:90`, when `rxIdle_` is stale) is a receive from the new
  stream or from none.
- The engine's reconnect loop and partial writes (`socket.cpp`), the lock file
  (`main.cpp`; every client passes its own path, so two engines never compete for
  one), and what is in a frame.
- The server's own failure after it has begun to listen, which only logs, and the
  log and trace frames of EngineClient, which leave its state alone.
- The sweep grid (`stitch.cpp`) and the planner (`sweep_planner.cpp`): arithmetic of one
  thread on floating-point levels and frequencies, tested by the engine's own unit
  tests. A model on small integers would have to invent the tolerances that make it
  right or wrong.
- `warnings.js`: counters and thresholds of one object, with tests of their own; its
  one remarkable case is under [Observed, not run](#observed-not-run).
- The controls of the adapter that are clamped and passed on, the overlay, and the
  capabilities `open()` reports.
- In `AdapterSession`, sweeps that are broken off: the test at `engine.cpp:432` is not
  met while the engine runs, since the flags it reads are written between sweeps by
  the same thread, and the one at 466 takes 4096 queued requests.
- In `FrameStream`, the tests of `#onSweep()` before a sweep is drawn
  (`adapter.js:679-684`; `AdapterSession` has them): each sweep is drawn on the
  geometry of its own grid. `decodeFrame()`'s error for a data type other than 0
  (`frames.js:148`), which costs that frame only, like the other bad records.
- In `Release`, tags and Releases that are deleted or moved by hand, what goes
  into the zip, and a run that is dispatched on another branch than main
  (`release.yml:190` pushes to whichever it is).
- Signal processing (`dsp.cpp`, `fft_pffft.cpp`), calibration and profile tables,
  logging, the C++ encoder (`protocol.cpp`, checked by fixtures that both sides
  share), lookups in the file system and the environment, the scripts that are run
  by hand and keep nothing (viewers, analyses, the renamer, the smoke probe), the
  example plugin, vendored libraries.

## Plan

1. `SpscRing`, `BoundedFifo`, their run, the refinement and its proof. **Done.**
2. `EngineClient`, its run and its proofs. **Done.**
3. `EngineControl`, its runs and its proofs. **Done.**
4. `CapturePipeline`, `CaptureService`, their runs, the refinement and the proofs of
   its safety properties. **Done.**
5. `RadioClaims`, its run and its proofs. **Done.**
6. `AdapterSession`, its runs and the proofs of its safety properties. **Done.**
7. `TraceGeometry` and `FrameStream`, with reference definitions, their run, and the
   proofs of its properties. **Done.**
8. `EngineBuild`, its run and its proofs. **Done.**
9. `Release`, its run and its proofs. **Done.**

What remains, should the code change so as to ask for it: liveness of the capture
pipeline (every wait ends while chunks come); a claim that is kept per call of
`open()`, after which `WorkingIsListed` should hold without `robbed`; a failure that
the builder remembers also of a build that left no engine; a composition of
`AdapterSession` with a second `applyConfig()` under way, should the shell stop
making one at a time.

Each state machine that is proved about is written with constants and named
assumptions, one action per operation and without RECURSIVE operators.
