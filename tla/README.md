# A verification development of astrolol

astrolol is an asyncio program that drives an astronomical observatory: a sequencer runs a night's tasks
on one or more cameras, managers slew and flip the telescope, take exposures, turn filter wheels and light
flat panels, and plugins guide, focus and calibrate. Everything runs on **one event loop**: a coroutine is
interrupted only where it awaits. The hard part is not parallelism but what happens between two awaits, when
another client, a timer, a cancellation or a driver has changed what was checked before.

This directory holds TLA+ modules of the parts of astrolol that decide something under such interleavings,
the TLC configurations that check them on small instances, and proofs that hold for every size.
Paths below are relative to `astrolol/` in the repository.

## 1. Inventory

| Component | State it keeps | Operations | Hard behaviour | What makes it correct |
|---|---|---|---|---|
| Sequencer queue (`plugins/sequencer/service.py`, `store.py`) | ordered entries, status and frame counts, a JSON file | add, insert, duplicate, update, remove, reorder, reset, set status, clear, load | edits while a run executes an entry; the process dies between a count and a commit | the executed entry cannot be edited; the file is behind by what is documented and never ahead |
| Sequencer runner (`runner.py`) | lifecycle, pending request, current entry, the task body | start, pause, resume, skip, switch, stop, cancel; the run loop | requests overwrite each other, cancellation races with results, errors pause, defer or abort | a request reaches the task it was meant for, stop is final, a run ends |
| Lanes and the rig (`lanes.py`, `guiding.py`) | one coroutine per camera, what the primary published about the mount | expose, record, dither, flip, focus, guide again | cameras of different rhythm share one mount; lanes wait for each other | nobody exposes while the mount is moved, and nobody waits for ever |
| Steps, stalls, journal | per-step counters, a log | centre, focus, write a record | external programs that fail or never settle | each step returns, fails or is cancelled |
| Mount manager, operations (`mount/manager.py`) | one slot for a worker task, target, side | slew, park, flip, stop, unpark, sync, pulse | check-then-await, a slot emptied after an await, drivers that hang | one operation at a time, a stop stops |
| Mount manager, automation | guards for park, horizon, flip; nested suspension | a loop every 30 s | status read before an await and used after it; guards that are never reset | acts once per event, never under a suspension |
| Mount manager, hand nudges | directions in motion, lease per nudge, a lock | start_move, stop_move, lease timer | clients that vanish, a stop overtaking its start, a timer firing while its renewal waits | a mount without a commanding client comes to a stand |
| Imager (`imaging/imager.py`) | state per camera, loop task, halt epoch | expose, start_loop, stop_loop, halt | frames that arrive after a halt, cancelled callers, loops replaced while awaited | halted frames are dropped, the camera is freed |
| Streams (`imaging/streaming.py`) | one stream per camera, its subscribers | start, stop, subscribe | whoever stops it stops it for all, and ends subscriptions made since | no stream left on for nobody |
| Device manager (`devices/manager.py`) | table of devices, a watchdog each | connect (with eviction and companions), disconnect, soft_disconnect, reconnect, ping | check-then-await on the table; calls that write by id over what another call put there | what is shown as connected is watched; what was disconnected stays so |
| Guider (`plugins/guider`) | the run, its stream and star, a pending settle | guide, stop, dither, pause, resume, preview, darks, settings | two requests at once, tasks displaced while they end | one run; a waiter is always served; health tells the truth |
| PHD2 client (`plugins/phd2/client.py`) | connection, pending calls, one settle | calls, guide, dither, reconnect, stop | answers lost, late or reordered; the connection lost in the middle | a lost connection ends every wait and looks like no success |
| Autofocus (`plugins/autofocus/engine.py`), focuser manager (`focuser/manager.py`) | one run, one move | start, focus, abort; move, halt | cancelled anywhere, while the motor keeps going; two commanders | the focuser is left where it was found |
| Flat wizard (`plugins/flat_wizard/engine.py`), wheel and panel managers | one run over all cameras, a lock per wheel | start, abort | cameras share a wheel; panels fail; abort in every await | no exposure through another camera's filter; panels dark and open at the end |
| Event bus (`core/events/bus.py`) | bounded queues per subscriber | publish, subscribe | slow subscribers | what is dropped is the oldest |
| Polar alignment, plate solving | a job each | start, cancel | cancellation in the middle of a move | the hardware is left where it was found |
| Protocol servers (LX200, Stellarium, Alpaca, MCP), EQMOD, INDI adapters | connections | translate to the managers or from the driver | - | same as the managers they call |
| API, profiles, equipment, security, system, UI, packaging | user data, settings | requests and stores | none, or outside this development | - |

How they interact: the HTTP and WebSocket API, the protocol servers and the plugins call the managers; a call
is a coroutine in the caller's task. The sequencer's lanes call `imager.expose()` and, through their steps, the
mount, the guider and autofocus; a "now" request cancels the task body, and with it whatever call it is in.
The guider and PHD2 implement one interface (`core/guiding/service.py`), by whose health the sequencer knows
whether a frame counts. The mount's automation loop calls the mount manager's own operations; the sequencer and
the polar-alignment wizard suspend the automatic flip while they flip themselves. Results travel back as return
values and exceptions; the event bus only informs.

`PROJECT.json` lists each component with its status, and under `hazards` the lines where these behaviours
bite with the properties that would catch them.

## 2. Modules

One action is what a coroutine does **between two suspensions**. A handler that never awaits is one action;
one that awaits is split there. Interleavings of the event loop are thus interleavings of actions; where the
model leaves something to choice, or joins awaits (see Abstractions), it is said there. Cancellation is a flag set by the canceller and delivered in a step of its own, as asyncio
does.

| Module | Models | State and actions |
|---|---|---|
| `SequencerQueue` | the queue and its file | `status`, `rank` (order), `plan` and `done` (frames per lane), `savedDone` (counts in the file). One action per queue operation, commit included; `Load` is start-up, from a file that can be read or not. |
| `SequencerRunner` (extends `SequencerQueue`) | the runner over its queue, with its lanes | `state`, `request`, `resumeReq` are `_state`, `_request`, `_resume_requested`; `at` is where the run coroutine waits; `body`, `cancelled`, `result` describe `_exec_task`; `lane` each camera. Clients: `Start`, `StartOnly`, `Request`, `Resume`, `QueueEdit`. Run: `Started`, the boundary and choice of the next entry (`Loop`), the wake-ups of `_execute`, `_on_request`, `_on_error`, the paused states. Body: setup, frames, duties, returns, failures, cancellation. Process: `Crash`, `Shutdown`. |
| `FrameLedger` | what the sequencer promises about frames: an **abstract specification** | the task worked on, frames counted in memory, frames in the file. `SequencerRunner` implements it under `worked <- current, counted <- done, kept <- savedDone`; the run `runner_queue` has it as a property and `SequencerRunnerProofs` proves it. |
| `SequencerRig` | the cameras of one task and the mount they share | time in ticks; where each lane is and how long it still exposes; the plan the primary publishes (`RigSchedule`), who is busy, the autofocus lock, the guider's health, the time to the flip. The primary's duties (dither, flip, guide again, wait for the others), the others' fit rule, pauses and faults. It is `SequencerRunner`'s body opened up. |
| `MountManager` | slew, park, flip, stop and the workers | `slot` is `_active_task`; `job`, `work`, `cancelled` describe the workers; `call`, `aim` the clients; `motor` the mount. What a stop found under way (`found`) and which workers were put out of the slot (`adrift`) is history. |
| `MountAutomation` (extends `MountManager`) | the automation loop and flip suspension | `auto` (where the loop waits), `seen` (the status it works with), `parkLast`, `horizonTried`, `flipTried`, `depth`. The sky, the clock and the mount's motion are environment actions. |
| `MountMove` | start_move, stop_move, leases | `stage`, `holder` and `behind` are the asyncio lock with its first-come queue, `moving` is `_moving`, `lease` is `_move_leases`, `motion` the mount. |
| `Imager` | expose, loops, stop_loop, halt of one camera | `phase` is the await an exposing task is in; `state`, `loopTask` as in the code; the halt epoch is abstracted to where the last halt met each exposure (`met`). |
| `DeviceManager` | the table of devices | `table` is `_devices`; `entry` the `ConnectedDevice` objects, which calls keep a reference to; `watch` and `pinged` the watchdogs; `call` where each client is. One action per stretch between two waits for a driver. |
| `Guider` | the built-in guider with its camera's stream | `task`, `preview`, `_capturing_dark`, `_settle`, `_sub`, `_paused` by their names; where each run and preview waits; who started the stream, who waits for it to stop. |
| `Phd2Client` | the client of PHD2 | every connect loop with its connection; `writer`, `sent` (`_pending`), `settle`, `dithering`; messages of PHD2 in order and not read yet (`link`). PHD2 is external. |
| `Focusing` | focuser manager and autofocus over one motor | `task`, `run`, `home` (`restore_to`) and status of the engine; `slot` and workers of the manager; where the motor is and where it goes. The driver may refuse, break off or lose a command, and a wait then ends as if the move were done. |
| `FlatWizard` | the wizard with the wheel and panel managers | the run, one search per camera, the lock of the wheel, wheel, covers and lights, and what the client of the panels believes of them. |
| `*Proofs` | theorems | one module for each subsystem, which extends the modules it is about. |
| `MC*` | - | values for constants, symmetry. |

History variables (`parkedToday`, `climbed`, `forgot`, `adrift`, `found`, `ahead`, `loose`, `stuck`, `deaf`, `disturbed`,
`settled`, `by`, `astray`, `uncounted`, `faulty`, `missed`) are named as such where they are declared; no guard of the code reads them.
Where one of them appears in a property, it names an exception, and section 5 says what the code does there.
`Imager.met` stands for the epoch where the code compares it, and is history elsewhere.

Operators under the comment "Seeded fault" are not part of the specification: each is a variant of the
definition that follows it with a plausible programming error, used to show that a property notices it.

### Abstractions

- In `SequencerRunner` a task is the number of frames each lane wants; a frame is counted or not
  (`"unguided"`: not counted). Setup, dithering, focusing and guiding are one step that ends, fails or is
  cancelled. `SequencerRig` opens these up for one body, without cancellation.
- In `SequencerRig` a frame, its download and its recording take at most `Margin` ticks more than the
  exposure, which is what `download_margin_s` is for; a delay between frames (`sub_delay`) and the trackers of
  stalls are left out, guiding is always asked for.
- Identities of tasks, workers, runs, requests and entries are reused once nothing refers to them, so the
  number of operations over time is not bounded, only the number alive at once.
- Outside `SequencerRig` times are order only. A timeout or timer may fire whenever it is armed; in
  `Phd2Client` a call does not time out while its answer is there for a loop that reads.
- The mount reports where it is as one of three altitudes and three hour angles, what the thresholds tell
  apart (`_HORIZON_REARM_DEG`, `meridian_flip_due`).
- `start()` of the runner awaits a pre-flight between its check and its effect; the model makes it one step
  and so assumes that clients start runs one after the other.
- In `Imager`, awaits that depend on the configuration (mount status, filter wheel, upload directory) are
  always there; without them an exposure just passes through the phase.
- In `Guider` what the frames show is a choice: a usable star, none, or something the run gives up on.
  Choosing stars and calibrating fail alike and are one phase. The task that watches the mount is cancelled and
  awaited at the end of `_run` and ends in the same step.
- In `Focusing` where a sweep goes and what is measured there is a choice. `by` is the run in the engine's slot if the
  last to command or halt the motor was that run, and nobody otherwise.
- In `FlatWizard` one wheel serves the cameras, every panel has a cover and a light, nobody else commands them,
  and brightness is duration times a level fixed for one filter. A cover stops where it was sent, or the command fails;
  one that stops in Alert, which the code takes for arrived, is left out. Queueing the task does not suspend; the lanes
  queued are the cameras with a filter solved.
- Statistics, logs, events and user-visible texts are left out everywhere.

## 3. Runs

Every run starts from the specification's initial states and is complete: TLC exhausts the states within the
bounds. Deadlock is checked in every run but two: in `runner_control` clients may not edit the queue, and a
queue in which nothing is runnable any more is a legitimate final state; in `rig_lanes` the end of the body is
the end of the module.

| Run | Instance | Shows | States |
|---|---|---|---|
| `runner_control` | 2 tasks, 1 lane, one frame each; all requests, at a frame boundary and at once; errors that pause or defer, unexpected exceptions | `StopIsFinal`, `SkipStaysWithItsTask`, `UnattendedRunSettles` | 820,000 |
| `runner_queue` | 2 entries, each with two frames on the primary lane or one on both lanes, every queue operation, stop and resume, errors, uncounted frames, restarts, a file that cannot be read | `FileKeepsUp`, `OneTaskRuns`, and `KeepsLedger`: the runner implements `FrameLedger` | 707,000 |
| `rig_lanes` | 2 cameras, 3 frames of the primary with a dither every second, a secondary whose frames fit or never do, a flip; guiding lost and regained, errors, uncounted frames, a flip time that cannot be read, pauses | `MountMovesAlone`, `DithersUnhindered`, `RigFinishes` | 671,000 |
| `mount_operations` | 2 clients, 3 workers, slew, park, flip, stop | `StopEndsWhatItFinds`, `OperationsEnd`, `StopReturns` | 93,000 |
| `mount_automation` | the loop with every horizon action, auto-park and auto-flip, 2 components that suspend, a failing driver, reconnections, an outside program that slews, days without end; no requests by clients (`Ops`), which are the subject of `mount_operations` | `SuspensionCounts`, `ParksOnce`, `ActsOncePerCrossing` | 2,910,000 |
| `mount_nudges` | 2 clients, 3 directions on 2 axes, 2 rates, timed or not, 2 leases, a failing driver, emergency stops | `LeaseIsCurrent`, `StopNotOvertaken`, `MotionHasLease`, `VanishedClientsStop` | 1,108,000 |
| `imager_halt` | 2 exposing tasks, 2 callers of halt and stop_loop | `BusyIsBusy`, `HaltedFrameIsDropped`, `CallsReturn` | 106,000 |
| `device_table` | 2 mounts, one with a companion, 2 clients, 2 entries alive at once, drivers that fail, links that die and come back | `ShownIsWatched`, `StaysDown` | 1,077,000 |
| `guider_requests` | 2 clients, 2 runs, a preview, 3 settle requests, every call, frames that fail | `StrayRunsEnd`, `NoStreamForNobody`, `WaitersAreServed`, `HealthTells` | 705,000 |
| `phd2_calls` | 2 clients, 1 caller of reconnect and stop, 2 connect loops, 3 requests, 2 unread messages | `SettleSlot`, `OkMeansSettled`, `NobodyWaitsOnDeadLink`, `HealthNeedsLink` | 526,000 |
| `focusing` | 2 clients, 2 runs, 2 moves, 2 positions, a driver that refuses, breaks off or loses moves | `OneRun`, `LeavesFocuser`, `ExposesInPlace`, `CallsReturn` | 693,000 |
| `flat_wizard` | 2 cameras on one wheel with 2 filters, 2 panels, 4 levels (nothing to be seen, too dim, right, too bright), failures of camera, wheel and panel | `WheelStays`, `PanelsReleased`, `ReachableIsSolved` | 6,117,000 |

Why the bounds are enough for what they are used for:

- *Two tasks.* Every property of the runner relates the executed task to at most one other: the one a
  request was meant for, the one skipped to, the one edited. A third task would be one of these again.
- *One or two frames per lane, two lanes* (runner). With one frame each, one lane can be ahead of, level with
  or behind the other. With two frames on one lane the second is exposed over a first that may not be committed
  yet; more frames repeat the cycle.
- *Three frames with a dither every second, one secondary* (rig). A dither falls between frames and after the
  last; the secondary has a frame that fits, one that does only in some places, and one that fits nowhere.
  Secondaries do not talk to each other except through the autofocus lock, which the primary takes as well.
- *Three workers.* A mount has at most one worker in the slot, one a stop waits for per client, and orphans.
  Two clients and three identities let an operation be replaced while it is awaited and again before the
  waiter wakes. With fewer, creation would be blocked for want of a name.
- *Two leases.* At most one lease is armed; the other is one that was cancelled or is running.
- *Two exposing tasks.* One that began before and one after a halt, a loop and its successor, a single
  exposure that overlaps a loop.
- *Two entries and two clients* (devices). A call that works on an entry the table no longer shows, and the
  entry stored since; the eviction of a mount while another client uses it. A third entry alive at once is out
  of reach of a run; the theorems hold for any number.
- *Two runs* (guider, autofocus). One that is displaced or aborted, and its successor.
- *Two connect loops and one administrator* (PHD2). A loop that was cancelled and the one started since. With
  two callers of `reconnect()` and `stop()` the run is out of reach: with two administrators and one client TLC
  found no violation of `HealthNeedsLink` in 7 million states, and `HealthIsOfTheLink` proves it for any number. What does
  fail with two is in section 5 (`OneLoop`, `HealthAgrees`).
- *Two cameras, two filters, two panels.* One holds the wheel's lock while the other waits; a panel is released
  while another is still to be.
- *Numbers of the flat wizard.* The seed, limits, target and tolerance are chosen so that a search succeeds at
  once, after steps up and down, at a limit and never. `ReachableIsSolved` is a statement about these numbers: with fewer
  attempts a reachable target may be missed, which is what `MaxAttempts` is there for (section 4).
- *Faults*, *MoveFaults*, *Controls*, *Whens*, *Uses*, *Ops* and *Edits* are environment choices: they switch classes of
  behaviour on. A run that leaves one off says so in the table; the theorems hold for all of them.

Type invariants (`TypeOK`, `MountTypeOK`, `DeviceTypeOK`, ...) are stated in each module; that of the runner is
a theorem, those of the guider and of the lanes are part of proved inductive invariants, and the other proofs use the
part of the types they need.

### Fairness

Weak fairness is given to coroutines and timers, never to clients, faults, the sky or the camera's success:

- the event loop runs every coroutine that can run (`RunStep`, `BodyStep`, `LaneStep`, `TaskStep`,
  `CallStep`, `ActorStep`, `PrimaryStep`, `SecondaryStep`), and a cancellation that was requested is delivered;
- in `SequencerRunner` an exposure ends (`LaneGoesOn`: the step has a timeout, and `camera.expose()` waits for at most its
  duration and 60 s), and so does what follows a request, a cancellation or the last lane (`BodyGoesOn`). Setup and
  what precedes a frame are **not** fair: guiding and centering are tried again without limit unless
  `stall_timeout_min` is set, and its default is "null = never" (`stalls.py:5`, `settings.py:62`);
- a camera's `abort()` takes at most its grace period;
- operations of the mount end because the workers wrap the driver in `wait_for` with `SLEW_TIMEOUT` and
  `PARK_TIMEOUT` (`WorkerGivesUp`): it is these limits, not the driver, that are fair; a focuser's move has
  its timeout in the same way;
- a lease is a sleeping task, and the automation loop sleeps with a bound;
- in `rig_lanes` the lanes run, time passes, and a star that is tracked is tracked for long enough to settle
  (`GuideSettles`). That guiding comes back is no fairness but the premise of `RigFinishes`.

`UnattendedRunSettles` and `RigFinishes` are about runs that are left alone from some moment on
(`<>[][~Client]_vars`, `<>[][Quiet]_vars`); the first ends in a run that is over, in a pause, or in a step that waits for the
sky with nobody having asked it to stop (`WaitsForSky`), so that it also says that a stop gets through to such a step; the latter also assumes that guiding is healthy again and again,
since lanes rightly wait for it. In `mount_automation` a park minute does not end before the loop has woken in
it: its interval is shorter.

## 4. Proofs

The theorems hold for every value of the constants that satisfies the named `ASSUME`s: any finite set of
tasks, any lanes, plans, error policies, requests, edits and faults; any times of frames and dithers; any clients,
directions, axes, leases and driver failures; any devices, entries, runs, cameras, panels, limits and levels.

`SequencerRunnerProofs`

- `TypeCorrect`, `OneTaskAtATime`, `FileIsCurrent` from the inductive invariant
  `IInv == TypeOK /\ TaskInv /\ FileKeepsUp /\ IdleHasNoRequest`. `OneTaskRuns` alone is not inductive: whether
  a wake-up may leave the current task depends on where the run waits (`WithinTask`: a run that executes or
  resumes has a task), and whether a lane may expose depends on the body (`LanesInBody`). The proof has
  one lemma per group of actions and conjunct, with the helpers shared by several actions (`NoBody`,
  `EndRun`, `Finish`, `StartBody`, `OnRequest`, `QueueEdit`) as lemmas of their own. For the file each step is
  shown to be one of four harmless kinds (`FileStep`).
- `SkipReachesNoOther` is an action property that holds of every step by itself: a task is left to the loop, or by
  an end of the run that drops whatever is pending, and the loop starts a task only with nothing pending.
- `StopIsNeverLost` is an action property. It needs `IdleHasNoRequest`: a run that starts must not find a
  request of the run before it, and that is only known because every way back to `idle` clears it.

- `RunnerKeepsLedger`: the runner implements `FrameLedger`. Initial states map to initial states, and under
  `IInv` each action is shown to be a step of the ledger or to leave it alone (`LedgerStep`), the queue's
  edits because the executed entry is the one marked running (`OneTaskRuns`), which they refuse.

`MountProofs` (about `MountMove`, `MountManager` and `MountAutomation`)

- `LeaseEndsItsNudge` and `StopsInOrder` from `IInv == TypeOK /\ LockInv /\ LeaseInv /\ OrderInv`: who is inside
  the lock is its holder, a lease that is not over is the current one, and the starts a stop was called
  after stand before it in the lock's queue.
- `NudgesAreLeased` from `IInv` and `MotionInv`: a mount that moves has a lease, or the holder of the lock is
  about to stop it, unless the motion is loose.
- `StopFindsAllInTheSlot` and `StopFindsTheLoopsWork` from `OpsInv`: what is under way outside the slot was put out
  of it, and a stop waits for the one operation that it found; a new worker has an identity that no stop waits for, so the
  end that a stop sees is that of the operation it cancelled. The loop's steps are shown to be steps of the same
  kinds, or to leave the workers alone.
- `SuspensionIsCounted`, `ParkIsOncePerDay` and `HorizonActsOnce` are action properties. They need `HoldInv` (the depth is
  the number of components inside the context, so it is 0 only when there is none), `ParkInv` (a park of today is
  one that the loop remembers or forgot in a reconnection) and `HorizonInv` (a guard that is free means that the mount has
  been above the limit since, or that a reconnection freed it). All of it is `AutoInv`.

`GuiderProofs`

- `StrayRunsAreOnTheirWayOut`, `StreamHasAnOwner`, `WaitersHaveARun` and `HealthIsARuns` from
  `IInv == GuiderTypeOK /\ StrayRunsEnd /\ StreamInv /\ SettleInv /\ HealthInv` (`GuiderInvariant`). `StrayRunsEnd` is
  inductive with the types; the other three properties need what the code keeps together: the owner of the
  stream is in a place whose `finally` stops it (`StreamInv`), a pending settle is the one of the call that waits
  for it and its run is alive (`SettleInv`), and the guiding flag is up only in the phases of a run that take it
  down (`HealthInv`). The many entry points of the clients do twelve kinds of things to that state
  (`ClientForms`), so each conjunct has one lemma about these, one about the runs and previews, and one about the
  rest.

`CameraProofs` (about `Imager` and `SequencerRig`)

- `HaltedIsDropped` from `TaskInv`: what a halt finds at the camera is marked, and no exposure that is being
  prepared or saved bears the mark.
- `BusyIsOwned` from `StateInv`: whenever the state says busy there is a task that works or a call that will
  reset it. It needs that a loop that was cancelled has a call waiting for it (`WaitedFor`), since a loop that
  ends cancelled leaves the state to that call.
- `NobodyExposesWhileTheMountMoves` and `DitherFindsFramesOver` from
  `RigInv == RigTypeOK /\ PlaceInv /\ MountInv /\ PlanInv /\ FitInv` (`LanesInvariant`). For the first it is enough that a
  lane is busy before it exposes and that the mount is announced before the primary looks at who is busy
  (`MountInv`). The second is arithmetic over the plan of the task. `Remaining` is the time of the frames the
  primary has left until its next dither; what it publishes is never more than that, also while a frame is in flight,
  is paused, is repeated or is lost (`PlanInv`), every step leaves `Remaining` as it is or lets it grow, except for
  the one that counts the frame just taken; so a secondary's frame that was found to fit ends before the dither
  (`FitInv`), and at the dither nothing remains. The lemmas say what a plan is made of (`TotalMonotone`,
  `PublishedIdle`, `PublishedExposing`), what is published and what remains (`PublishedBetween`,
  `PublishedInFlight`, `CountedIsAhead`), and which steps bring neither the end of a frame nor the dither nearer
  (`PlanKept`, `PlanPublished`, `FitGrows`).

`DeviceManagerProofs`

- `DeadHardwareIsNoticed` from `IInv == IdInv /\ ShownIsWatched`. A watchdog looks its device up by id while calls
  work on entries, so the invariant relates the two: whatever is referred to keeps its id, the table holds an
  entry under its own id, and a watchdog pings only entries of its own id (`IdInv`). Three lemmas carry the actions:
  steps that empty places of the table (`ClosingStep`), that store an entry (`StoresStep`), and that
  leave the table alone (`StandingStep`).
- `DisconnectedStaysDown` is an action property. It needs that an identity nobody refers to is blank
  (`BlankInv`), for a new entry is connected from the start.

`Phd2ClientProofs`

- `SettleIsGivenBack`, `DeadLinkWakesAll`, `SettleIsTrue` from `IInv`: a request is unanswered exactly while it is
  pending and no two callers wait for the same one (`PendingInv`), so the disconnect that fails what is pending
  reaches every caller; the settle belongs to the client inside its call (`SlotInv`).
- `HealthIsOfTheLink` is inductive by itself: only a loop that reads raises the flag, and however it stops reading it goes
  through `_on_disconnect`, which takes the flag down. It holds for any number of administrators and of loops they
  leave behind.

`FocusingProofs`

- `OneRunAlive`, `FocuserIsLeft`, `ExposuresInPlace` from `IInv == RunType /\ OneRun /\ \A r : RunInv(r)`: while the
  motor's last command is a run's and the driver has not failed it (`Commanded`), the motor stands
  where the run sent it or is on its way there (`Obeys`), and a run that was sent back goes to where it found the focuser.

`FlatWizardProofs`

- `WheelHeldStill` from `WheelInv`: the wheel turns only for the holder of its lock (`LockInv`), towards the filter
  the holder wants (`TurnInv`).
- `PanelsAreReleased` from `PanelInv`: a panel of a run that unwinds is dark and open, accounted for, or still
  to be released.
- `GivesUpOnlyInVain` from `SearchInv`: a search that exposes has only halved its duration so far and was saturated
  above the minimum each time, or takes the duration closest to the target, or no duration would do.
  `ClosestMisses` is the arithmetic: where the closest duration misses the target, every other one does. The theorem has
  three hypotheses on the numbers, for without any one of them the property can fail: a frame on target is
  not saturated (`TargetBelowSaturation`; the configuration only bounds the two one by one), the attempts suffice to halve the seed down to the
  minimum (`EnoughAttempts`; the defaults do: 10 ms are halved down to 1 ms by the fifth of 8 attempts), and whole
  units are fine enough (`UnitsAreFine`; durations are floats in the code). `MCFlatWizard` assumes them of the numbers of the run.

Every invariant and every action property of the runs is stated by a theorem. Only model-checked is all liveness
(`UnattendedRunSettles`, `RigFinishes`, `OperationsEnd`, `StopReturns`, `VanishedClientsStop`,
`CallsReturn`), since the prover handles neither fairness nor `ENABLED`.

## 5. Where the code and what is said of it part

The runs above show what holds. The formulas of this section are stated in their modules, are in no `.cfg`, and
TLC finds each **violated** with the constants of the run named, changed as said. Each is a statement one would
expect to hold, many of them words of a docstring or of the documents. Where a property that does hold needs
an exception, the exception is a named operator and is listed here as well.

**`SequencerRunner`**

- `OnlyStopEndsRun` (`runner_control` with one task, pause and resume "now"). `resume()` says "Resume before the
  pause took effect: just drop the pending pause." (`runner.py:313`). After a pause "now" the task body has
  already been cancelled; with the request dropped, the run takes the cancellation for one of its own and ends
  (`:494`).
- `DroppedPauseIsGone` (`runner_control`). `_execute` acts on the request the exception carried, which `resume()`
  may have dropped since (`:512`).
- `PausedIsQuiet` (`runner_control`). A pause left by a skip or a switch keeps the PAUSED state while the next entry
  runs, and other requests are judged by it (`:543`).
- `DoneMeansEveryFrame` (`runner_queue`, `Whens` {"frame","task"}, or `Controls` {"pause","resume"}) and
  `CompletedMeansEveryLane` (`runner_queue`, every plan on both lanes, one task, stop). "The task completes when
  every lane has finished" (`SEQUENCER_SPEC.md:717`). A request seen at the boundary of the last frame of
  one lane leaves the lanes loop early, and a body that returns is taken as completed (`lanes.py:267`,
  `runner.py:355`, `:995`).
- A run may be left stalled for ever by default: `UnattendedRunSettles` lists that outcome (`WaitsForSky`).
- A queue file that cannot be read, or is of another version, is taken for an empty queue and only logged
  (`store.py:39`); the next commit writes over it.
- Exception of `FileKeepsUp`: a task that pauses on the error of one lane leaves a frame that another lane
  has counted out of the file until the next commit (`runner.py:614`).

**`MountManager`, `MountAutomation`, `MountMove`**

- `LiveIsInSlot` (`mount_operations`). `stop()` empties the slot after it awaited the cancelled worker
  (`mount/manager.py:213`); a slew begun in between keeps driving and is in no slot, like the
  one that a flip puts out of it (next point). These are the exception of `StopEndsWhatItFinds` (`adrift`): no later stop
  finds such an operation.
- `OneOperation` (`mount_operations`). `meridian_flip()` awaits the status between its busy check and the creation
  of its worker (`:340`, `:201`).
- `ParkedAtDawn` (`mount_automation`). The mount is to be parked automatically at a local time "so the mount is safe at
  dawn even if you are asleep" (`docs/en/mount.md:53`). What is remembered is the time of day at which it was
  parked, without the date, until a disconnect: while the connection lives on, the next day's park time is not acted on (`:524`).
- `ParksOnceADay` (`mount_automation`). The guard remembers the time the mount was "last parked" at
  (`mount/manager.py:97`), but every disconnect forgets it (`:473`): a mount that is unparked and connected again within
  its park minute is parked a second time. `ActsOnceBelow` (`mount_automation`): in the same way the horizon action, which is
  applied "once when a tracking mount sinks below the limit" (`:419`), is applied again after a
  reconnection below the limit. `forgot` is the exception of `ParksOnce` and `ActsOncePerCrossing` for it.
- `NoAutoFlipUnderHold` (`mount_automation`). The suspension is checked before the await inside the flip
  (`:562`, docstring `:458`).
- `HorizonEnforced` (fair, horizon action `stop_tracking` only, no operations, holds or faults). The
  guard is reset only 1 degree above the limit (`:423`): a mount that was stopped, is pointed at a place less than
  that above it, tracks again and sinks again is left alone.
- `AutoFlipHappens` (fair, `Ops` {"slew"}, no horizon action, no auto-park, no faults). The one attempt is spent on a
  mount that is busy at that moment (`:553`).
- `NudgeMoves` (`mount_nudges`). A nudge whose direction and rate are recorded as moving does not touch the driver (`:290`);
  `stop()`, which halts the mount, does not clear that record (`:217`).

**`Imager`** (all with `imager_halt`)

- `HaltNeverDelivers`. "An exposure that started before it never delivers a frame" (`imaging/imager.py:97`): the epoch is
  read only before the camera is asked (`:507`), after the awaits of the preparation, and compared before the frame is
  saved and published (`:528`). A halt before the one or after the other is not noticed; `HaltedFrameIsDropped` is
  about what lies between.
- `OneAtCamera`. "Raises if camera is already busy" is decided before the awaits that precede EXPOSING
  (`:257`, `:483`): two calls pass. `LoopIsInSlot`: a halt that began before a loop was started makes the camera idle
  under it, and the loop started then replaces it in the slot (`:293`).
- `stop_loop()` cancels the exposure of the moment, though it says that it lets it finish (`:284`).
- Exception `stuck` of `BusyIsBusy`: an error while the file is written leaves the state at EXPOSING.

**`DeviceManager`** (all with `device_table`)

- `OneMount`. Two connects both pass the eviction of the old mount before either stores its own
  (`devices/manager.py:35`, `:92`). `ReplacesNothing`: the same with one id (`:92`).
- `RemovesItsOwn`. `disconnect()` removes by id, after awaiting the driver, what was connected since.
- `CompanionsFollow`. A primary that is disconnected while its companion is being opened leaves the companion.

**`Guider`** (all with `guider_requests`)

- `StopIsHeard`. "Stop guiding (and capture)" (`core/guiding/service.py:44`): a stop that cancels the run while it
  restarts its stream is swallowed by the `suppress(CancelledError)` around the old stream's end
  (`imaging/streaming.py:73`), and the run guides on. `StrayRunsEnd` is what is left of it.
- `PauseLasts`. The `_finish` of the run before clears the pause and the settle of the run after.
- `DarksAlone`. A dark library is begun while `guide()` waits before it creates its task (`guider.py:558`).
- Exception `disturbed`: the `_finish` of an old run takes the new run's subscription, stream or settle, and
  a run stopped before its first step leaves its settle pending.

**`Phd2Client`**

- `AnswersAreHeard` (`phd2_calls`). After connecting, the loop itself calls and awaits an answer which only it
  could read (`phd2/client.py:263`, `:449`): the question always times out.
- `OneLoop` (`phd2_calls` with `Admins` {a1, a2}). Overlapping `reconnect()` and `stop()` leave a
  loop that nobody stops. `HealthAgrees` (`Admins` {a1, a2}, one client, one unread message): the end of one of two
  loops clears the connection of the other (`:301`), which reads on: the client is shown as disconnected and guiding.
- `SettleIsOwn` (`phd2_calls`). A `SettleDone` of an earlier settle that arrives before the answer ends the
  settle just asked for (`:407`).

**`Focusing`** (all with `focusing`)

- `AlwaysLandsBack`. "A failed/aborted run always lands back where the user actually was"
  (`plugins/autofocus/engine.py:241`). The restore is "best effort": it is only logged when the device is gone (`:453`), and like every
  move it ends normally when the driver gives the move up in Alert (`devices/indi/client.py:529`) or the command
  was never sent (`_vendor/indipyclient/ipyclient.py:782`, `devices/indi/client.py:556`). By the same,
  `CompletedAtOptimum` and `MeasuresInPlace`: a run is completed away from its optimum, and a sample is
  recorded for a position at which it was not taken. The exception of `LeavesFocuser` and `ExposesInPlace` is `astray`.
- `StatusTells`. A run aborted before its first step never leaves "running".
- `HomeIsReal`. A position that is unknown is taken for 0, and one read while the motor moves for a rest.
- `OneMove`. `move_by()` awaits the status between the check and its task (`focuser/manager.py:54`).
- `OneCommander`. Moves and halts during autofocus are not refused. `LeavesFocuser` therefore speaks of the time in
  which the run's command is the motor's last.
- `AbortsOwnRun`. A cancelled `focus()` aborts the run in the slot, which may be a later one.

**`SequencerRig`** (all with `rig_lanes`)

- `UnfitNeverStarts`. A lane whose frames fit between no two dithers "will actually stall forever in WAITING_FOR_PRIMARY at
  runtime" (`lanes.py:172`, likewise `TODO.md:292`, `SEQUENCER_SPEC.md:710` and the docstring at `tests/test_lanes.py:131`). It stalls until the primary has finished its
  plan: then no dither is expected any more (`lanes.py:84`) and every frame fits, as `SEQUENCER_SPEC.md:713` says.
  `RigFinishes` therefore covers such lanes.
- `FocusesAtRest`. "Wait until no secondary is exposing or focusing" (`lanes.py:122`): a secondary that prepares its
  frame marks itself busy for its autofocus after the primary has seen all idle (`:485`) and does not look at the
  mount.
- `NoneCrossesFlip` (`SEQUENCER_SPEC.md:577`, `lanes.py:346`). The primary looks at the flip time before it prepares the
  frame and sees to guiding; and a flip whose time nobody has read yet, or any more, is no obstacle for a secondary.
  The primary waits for it then, so `MountMovesAlone` holds all the same.
- Exception `uncounted` of `DithersUnhindered`: a frame of the primary that is not counted shifts the dither past
  what the others were told.
- Exception `Stranded` of `RigFinishes`: a primary that stopped for a pause which is then withdrawn does not come
  back, and the others wait for duties nobody does.

**`FlatWizard`**

- `AllPanelsReleased` (`flat_wizard` without faults). The release says "Never raises: it runs while another error
  unwinds" (`flat_wizard/engine.py:353`); a second abort does cancel it, and the `light_on` it reads (`:358`) may
  be older than the command. Either leaves a panel lit or closed.
- `StatusTellsWizard` (`flat_wizard`). Aborted before its first step: the status stays "running".
- Exception `faulty` of `WheelStays`: a move that timed out, was cancelled or ended in Alert may still be under way
  when the lock is given back.

**Seen while reading, without a formula**: the record of stalls is shared by the trackers of a task and not cleared
at a boundary (`stalls.py:125`); `mount_busy` adds nothing for exposures to the schedule of the primary; the
polar-alignment wizard holds the flip suspension in a `with` block that ends before the stage its docstring
names, its `start()` awaits between check and creation of the task, and cancelled before its first step it
stays "running".

## 6. Plan

Done are the modules of section 2. In the order of what they would add:

1. the polar-alignment wizard, a job with moves, exposures and cancellation like `Focusing`;
2. `start()` of the runner with its pre-flight suspended, which two clients may pass together;
3. stalls and the retries of the steps, and the event bus with its bounded queues;
4. a lane over `Imager`, in place of the one action `expose` is in the sequencer's modules.

Not modelled, and why:

- *Arithmetic over the reals*: guide corrections, calibration, alignment models, ephemerides, star detection, curve
  fits. TLC computes with integers; the modules take their results as a choice among outcomes.
- *The INDI client, vendored code and device adapters*: they translate a protocol of another program. The modules
  above use them as the managers do, through calls that succeed, fail, hang or end late.
- *Protocol servers (LX200, Stellarium, Alpaca, MCP, mDNS) and EQMOD*: parsers and translations; their requests
  are those of the managers' clients.
- *API, sequences and settings, profiles, equipment, resolver, viewer, UI, packaging*: requests, stores and views
  that decide nothing under interleavings of their own.
- *Authentication and security*: outside this development.
- *Proofs*: liveness under fairness and `ENABLED`, induction over data and recursive operators are beyond the
  prover and stay with TLC.
