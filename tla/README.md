# A formal model of the USB mouse jiggler

The repository is an application for a handheld (an Anbernic RG34XXSP) that
turns the device into a USB mouse and moves the pointer from time to time. This
directory holds TLA+ modules that model it, TLC configurations that check the
modules on small instances, and proofs, checked by TLAPS, of the safety
properties of every part, and of the bounds behind its progress, for every value of its constants.

Contents: [the system](#the-system), [hard behaviours](#hard-behaviours),
[the modules](#the-modules), [the runs](#the-runs), [findings](#findings),
[bounds](#bounds), [fairness](#fairness), [the proofs](#the-proofs),
[what is not modelled](#what-is-not-modelled), [plan](#plan).

## The system

| Part | State it keeps | Operations | Talks to |
| --- | --- | --- | --- |
| Session runtime (`src/app_runtime.c`) | `struct AppRuntime` under one mutex: state, settings, deadline, ownership, requests, HID descriptor; the worker thread's locals; one helper process | `app_runtime_*` calls, the worker's loop, `run_helper`, `terminate_helper` | scripts (fork, signals, exit status), `/dev/hidg0`, callers (mutex and condition) |
| Gesture arithmetic (same file) | locals of `emit_cycle` | `build_movement_vectors`, `app_runtime_interpolate_step` | the HID device, one report per frame |
| Gadget scripts (`scripts/gadget_*.sh`) | shell flags, the state file in `/tmp`, the kernel module, ConfigFS, the UDC | setup with rollback, cleanup | kernel, other programs, whoever starts them |
| View model (`src/ui_model.c`) | screen, focused row, settings being edited | `ui_model_handle` | main loop |
| Input tracker (same file) | held direction and its two sources, last action | `ui_input_tracker_event`, `_repeat` | SDL events; GPTOKEYB duplicates controls as keys |
| Main loop (`src/usbjiggler.c`) | snapshot, shutdown screen, exit code | poll, dispatch, repeat, look, close | all of the above, settings file, signals |
| Settings store (`src/settings.c`) | `usbjiggler.cfg` and a temporary file | load, save | main loop |
| Launcher (`usbjiggler.sh`) | two process ids, the status it will exit with | start, wait, traps, `stop_process`: SIGTERM, SIGKILL after 45 s | the program and GPTOKEYB; whoever signals it |
| Drawing (`src/usbjiggler.c`) | none | `render_application` picks a screen and its button hints | view, snapshot |
| Capture, build and diagnosis scripts | none that outlives a call | | |

The main loop calls into the runtime without ever blocking: an API call takes
the mutex, edits fields and signals the condition. Everything that may block is
done by the runtime's one worker thread, which forks a script, waits for it with
a time limit, opens the device, and plays gestures without holding the mutex. The
loop learns what happened from snapshots. The scripts leave their results in the
kernel, where they survive the program.

### What makes each part correct

* Runtime: the device is open only on a gadget that is up, owned and not being
  worked on; a gesture has it to itself and ends where it began; ownership is
  given up only when nothing is left in the kernel; no request, stop or wakeup
  is lost or meets the wrong session; nothing replaces EXITING; every shutdown,
  preparation and stop comes to its end although a script may hang.
* Gesture: after every report the pointer is exactly on the planned path, no
  report overflows its signed byte, a complete gesture sums to nothing.
* Scripts: setup never touches what it found; a rollback that works leaves
  nothing; a cleanup that has read the record removes everything; as long as
  the runtime owns a gadget, the record that a cleanup needs is there.
* Tracker: a press is one action, however many sources report it and in
  whatever order; no direction repeats that nobody holds.
* Main loop: edited, played and stored settings are the same; the program ends
  after every exit request, and its exit code says whether the runtime still owns
  anything. (What a setup that was broken off left without being owned it does not
  say: finding 1.)
* Drawing: a hint on the screen is what the button will do (but see finding 5).
* Settings store: the file changes as a whole, through failures, kills and power
  losses; no file, however damaged, makes the program play illegal settings; a
  save that reported no failure is what the next start loads.
* Launcher: it ends what it started before it hands the device back, whatever
  hangs; it leaves the program the time its cleanup needs; its 0 stands for a program
  that ended with 0 and owned nothing, and for a `pm_finish` that succeeded.

## Hard behaviours

The hazards are listed, each at its line, in `PROJECT.json`. The main ones:

* *Interleaving.* The worker decides on copies it made before it released the
  mutex, and plays gestures without it; callers stop, restart, reconfigure and
  shut down meanwhile.
* *Signals.* A script may be ended between any two of its commands: by a
  cancelled or timed-out `run_helper` (SIGTERM to the process group, SIGKILL after
  a grace period) or by anybody else. Setup undoes what its flags say it made.
* *Late results.* A setup may finish while it is being cancelled; a gesture may
  fail after a shutdown request; a release may arrive while input is ignored.
* *Partial failure.* Every command of the scripts, the rollback's included, and
  every report and save may fail.
* *Duplicated and reordered input* from keys, hats, axes and buttons.
* *Crashes.* The program may be killed, and the device lose power, between any
  two steps of a save; the next run may even have the same process id.
* *Time budgets.* The launcher gives the program 45 s; a shutdown may have to wait
  for a gesture and then run a script with a time limit and a grace period. SIGTERM
  sets a flag only, and work may still begin before the main loop reads it.

## The modules

```
Gesture ── EmitCycle (instance) ─┐
   └────────────────────────── AppRuntime ──refines──> Lifecycle <──instance── MainLoop
                                   ^                                            │  │
                                   │ refines (helper process)              Screen  UiInput
                                 Gadget                                       │    │
                                                                        UiModel  InputDelivery, UiTicks

SettingsStore ──refines──> SettingsRegister            Launcher (processes and seconds)

Proofs:  GestureProofs ── EmitCycleProofs, AppRuntimeProofs
         GadgetProofs  MainLoopProofs  InputProofs  SettingsStoreProofs  LauncherProofs
```

* **`Gesture`** – the arithmetic: planned vectors per pattern, truncating
  division, the position after a frame, the cast of a difference to a byte, and
  the byte as the host reads it. `JIGGLE_RANDOM` becomes a choice among all the
  targets its generator could produce, which includes all it does produce.
* **`EmitCycle`** – one call of `emit_cycle`: `EmitBegin` plans, `EmitReport`
  sends a frame. The cursor is what the host adds up, the plan is what the
  program meant.
* **`AppRuntime`** – the runtime. A worker step is one critical section or one
  unlocked operation others can see (fork, reap, signal, open, write); an API
  call is one step, because it is one critical section. `wpc` names the places
  in the worker's code. The condition variable is the set of sleeping threads;
  `Broadcast` empties it, and wakeups may be spurious. A caller in
  `app_runtime_wait_for_state` is modelled as one more thread. Times are kept as
  time remaining, so a deadline that moves is a number that changes. The helper
  process is `child`; what it has done to the kernel is `gadget`: none, partial
  or ready. Writes, opens and every script command may fail at any time.
* **`Lifecycle`** – what `app_runtime.h` promises a caller that only reads
  snapshots: which states may follow which, that gestures happen in ACTIVE, that
  ownership changes only behind PREPARING, RETRYING and EXITING, and how a
  shutdown's outcome relates to it. Under fairness: preparations, gestures and
  shutdowns come to an end.
* **`Gadget`** – the two scripts command by command over module, state file,
  gadget directory and UDC, with the `*_BY_SETUP` flags and the traps. A signal
  is handled between two commands, as a shell does. Other programs may load or
  unload the module, take or free the UDC and add HID functions. `Modes` says who
  starts the scripts (the runtime, or anybody at a shell), which signals may come,
  what others do, whether the rollback's own commands may fail (`undoFails`), the
  removal of its record included, and whether a cleanup may fail to remove the record
  (`recordStays`), which no script looks at; a behaviour has one mode from beginning
  to end.
* **`UiModel`** – `ui_model_handle` and `adjust_setting` as operators, with the
  limits and the widths of accelerated steps as constants.
* **`Screen`** – what `render_application` and the footers draw, as far as it tells
  the user what the buttons do: the screen for a view and a runtime state, and
  its hints, "SAVE AND BACK" as the two promises it makes. The C code decides this
  separately from `ui_model_handle`.
* **`UiInput`** – the tracker. A source (a key, a hat, an axis, a button)
  reports the action it asks for, or `"NONE"` when it lets go.
* **`InputDelivery`** – the tracker on the device: somebody presses and releases
  controls, each is seen by several sources, each source delivers in order but
  up to `Skew` later than the others. A hat reports whenever one of its directions
  changes, an axis also as often as it likes while it is pushed (`AxisMoves`).
  `fired` and `alone` are history variables.
* **`UiTicks`** – the tracker's clock. The program stores the ticks of what happened
  and decides by differences of unsigned 32-bit numbers, one of them read as a signed
  one; `UiInput` keeps ages. `UiTicks` has both side by side, for a word of any width.
  Time goes on as long as the tracker is in use (`InUse`): nobody holds a direction, or
  waits between two actions, for a whole word.
* **`MainLoop`** – the loop of `main` and `dispatch_action`, composed of
  `UiModel`, `UiInput` and an instance of `Lifecycle` as the runtime. Its actions
  are the parts of an iteration between which the worker can be observed:
  `Top` (signal flag, first snapshot), `Poll` (one event), `Repeat`, and `Look`
  (second snapshot, screen, closing). That it may use `Lifecycle` in place of
  `AppRuntime` is what the refinement, checked and proved, says. Saving is one
  step that works or fails here: that it may be is what `SettingsStore` shows.
* **`SettingsStore`** – `settings_load` and `settings_save`, the latter call by
  call, over the file and the temporary files beside it. A file is its lines, a
  line a key and a number or junk; a line cut off may be a smaller number. The
  program may end anywhere and get a process id again; power may be lost when
  some of what was written is not on the storage (`lasting`), which may lie about
  fsync (`honest`); somebody may edit the file between two runs.
* **`SettingsRegister`** – what "Settings are stored atomically" promises: one value
  that changes as a whole and that only a power loss can take back.
* **`Launcher`** – the script command by command from its traps on, with signals
  between any two, GPTOKEYB, and of the program what it does with a SIGTERM and
  how long that may take: gestures over a prompt or a slow host, scripts with their
  limits, the last screen.
  SIGTERM sets the flag `stop` (`StopProcess`); the shutdown request is made by the
  next iteration of the main loop (`Request`). Until then a gesture may fall due
  (`BeginGesture`) and an event of the batch may start a retry or confirm the exit
  (`Use`). Time passes only while everybody waits, so an iteration of the loop, a write
  of the settings in it included, takes no time worth counting. A `loading` program
  has no handlers yet. `met`, what the worker was busy with when the shutdown was
  requested, and `killed` are history variables.
* **`MC_*`** – instances for TLC. Operators under a comment "Mutant:" are
  deliberately wrong versions of the definition that follows them; they show
  that a property notices the mistake and are used nowhere else.

## The runs

| Run | Question | Result |
| --- | --- | --- |
| `gesture` | At the real constants (30 frames, up to 2000 px), do the bytes add up to the plan and back to the start? | holds, 17,515 states |
| `runtime` | Safety under every interleaving of worker, API, a waiting caller, scripts, signals, failures and time, from every leftover of an earlier run. Do shutdowns, preparations, stops and timers come to their end though scripts may hang? Does the runtime implement `Lifecycle`, with and without fairness? | holds, 326,980 states |
| `exit_claim`, `retry_claim` | Two statements of the documents | violated, see below |
| `gadget` | Do the scripts behave as `AppRuntime` assumes of its helper process, is what the runtime owns recorded, and what do the scripts leave when anybody starts them in any order? | holds, 11,674 states |
| `cleanup_claim` | Is nothing left when cleanup says so? | violated |
| `input` | Is a press one action, and is what is held pressed? | holds, 1,595,728 states |
| `main_loop` | Settings in step, an exit code that agrees with ownership, hints that are honoured, repeats only of what is held, every exit ends the program, in a bounded number of iterations | holds, 763,240 states |
| `hold_claim` | Do adjustments end with the hold, also while exiting? | violated |
| `save_claim` | Does SAVE AND BACK save? | violated |
| `settings` | Is the settings file a register, through failures of every call, kills, power losses, lying storage, leftover files and edits? | holds, 27,129 states |
| `launch` | Does the launcher end everything, in time and in order, and what does its 0 mean, with a signal at any point, a prompt host or a slow one? | holds, 630,053 states |

What the properties say is in the comment above each of them. Those that take
the most steps to break: `NoOrphanedPreparation` (a request that no worker step
will answer), `StopEndsThisGesture` (a stop that would end a later session),
`OwnershipOutlivesResidue` (ownership given up over a half-removed gadget),
`NoLostWakeup`, `OwnedIsRecorded` (a cleanup that is killed and run again must
still find its record), `HeldIsPressed` (a second source that has moved on to
another direction must not inherit the hold), `ImplementsRegister` (a power loss
after a rename, then a run that finds the old file and a leftover temporary one),
`KilledOnlyWhenDelayed` (the waits of two processes added up), `WorkerProgresses` (a
request that would put the shutdown off).

`runtime`, `main_loop` and `launch` check under `FairSpec`; all other runs are
safety only. Deadlock is checked everywhere but in `main_loop`, `hold_claim`,
`save_claim` and `launch`, where the program ends; `AppRuntime` ends in `Terminated`.

The answer to the question of the launcher's budget: 45 s are enough for a gesture
or a setup in progress, then a cleanup that has to be killed, then the screen of
its failure (4 + 37 + 3 s). They are not enough for two cleanups. If the shutdown is
requested while a retry cleans up, and that cleanup fails at its limit, the shutdown
cleans up once more, and SIGKILL can meet the program then; the script goes on by
itself, in its own process group. Nor are they enough for a gesture over a host that
lets every report wait almost its second (`SlowTime`, two minutes): a shutdown is
seen only at its end. Either may have begun after the SIGTERM, in what is left of the
iteration that was going on then, so it is the moment of the request that counts, not
that of the signal: a program that was idle at SIGTERM can be killed. That these are
the only ways is `KilledOnlyWhenDelayed`.
`readme.md:56` calls the shutdown bounded, so this is not a finding.

Some properties say less than one might read into them. `ClosesOnOutcome`,
`ZeroMeansNothingOwned` and `ExitTellsTheTruth` are about what the runtime owns; a
setup that was ended in its rollback can leave more than that, with an exit code of 0
(`exit_claim`). `RollbackRestores` has rollbacks that work for its premise.
`ScriptsAsRuntimeAssumes` does not tell apart the statuses of a script that handled a
signal. `TimerFires` says that a gesture comes, not that none comes early: a stop and
start between the worker's look at the deadline and its next critical section lets it
begin at the old deadline. `FinishIsLast` excepts a process that the launcher had
started and not yet recorded when a signal came, as `readme.md:56` does not.

## Findings

Each is a run whose property quotes the repository and which TLC violates.

1. **A successful exit that leaves a gadget behind** (`exit_claim`,
   `docs/ui-flow.md:13`). A shutdown cancels a running setup. If that setup is
   already in its rollback, it has reset its traps, and the SIGTERM ends the
   rollback half way. `setup_owned` is still false, so no cleanup follows and the
   result is 0. The run assumes a rollback that works when it is let run.
2. **A retry that cannot succeed** (`retry_claim`, `readme.md:56`). A setup that
   commits just when its time limit passes counts as timed out: the state is
   ERROR, the gadget is live and not owned. Retries skip the cleanup, and setup
   refuses the existing gadget.
3. **A complete cleanup that leaves the module** (`cleanup_claim`,
   `scripts/gadget_cleanup.sh:98`). A signal between `insmod` and the flag that
   records it leaves the module without a record. Cleanup then reports
   completion, every later setup refuses, and cleanup never unloads it.
4. **A direction that goes on after its release** (`hold_claim`,
   `docs/ui-flow.md:25`). While the snapshot says EXITING, the loop drops events,
   releases included, but still dispatches repeats. A direction that is down
   when the exit begins goes on changing the setting, and the file, until the
   cleanup is done. The same property restricted to the time before
   (`RepeatsAreHeld`) holds.
5. **A save that does not happen** (`save_claim`, `src/usbjiggler.c:582`). A is drawn
   as SAVE AND BACK. The settings were written when they were adjusted; when that
   write failed, which only the log tells, A goes back and writes nothing. The file
   keeps the old settings until the next adjustment or the regular end of the
   program. Every other hint on every screen is kept (`ScreenKeepsItsWord`).

## Bounds

* `gesture` runs at the real number of frames and the real limits. Distances
  1 to 35 cover every remainder modulo the 30 frames, 1985 to 2000 the largest
  differences, 127 and 128 the edge of a byte. Random targets are exhausted for
  distances up to 4; the proofs cover the rest.
* `runtime`: 2 frames per segment, distance at most 3, intervals of 1 and 2
  ticks, two profiles (a line and a square: a change of settings changes the
  number of vectors), one waiting caller who may wait for READY or EXITING,
  any leftover. A script's life is 7 states, the kernel's 3; no counter is cut
  off, so the state space is complete for these constants. Two intervals are
  enough to move a deadline forward, backward and past the present; a second
  waiter would be woken by the same broadcast.
* `RollbackIsReliable` is FALSE in `runtime`, so that no result
  depends on a rollback that works; it is TRUE where a finding must not rest on
  one that fails. `undoFails` in a mode of `Gadget`
  is the opposite assumption about the same commands.
* `gadget`: finite without bounds. Two modes: scripts started by the runtime, where
  everything may go wrong; and started by hand, with rollbacks whose commands work
  and no other program that uses the module, without which `RollbackRestores` has
  nothing to promise. The record may outlast a cleanup in the second mode only: the
  runtime takes a cleanup that succeeded for one that left nothing, and a record without
  a gadget or a module hinders a later setup but is nothing that the kernel holds.
* `input`: `Dedupe` 2 and `Skew` 1 keep the order of the program's constants
  (a report is late by less than the 80 ms); three controls, of which one
  direction has a key and shares a hat with the other, which is an axis as well, and
  one button has a key. An axis keeps still while two of its reports (`MaxQueue`) are
  under way. `RepeatDelay` 2 and `RepeatRate` 1 let a repeat fall before, between and
  after the reports. Nobody presses a control again before its last press has arrived.
* `main_loop`: batches of up to two events (`MaxBatch`) per iteration, so that an
  event is handled on a snapshot that an earlier event of the batch has made
  stale; one direction and the three buttons; an interval of two values, with
  the other two settings fixed. The rows below the first, and the widths of
  accelerated steps beyond the first, are defined but not exercised at this
  bound. An error outcome stays on the screen for one iteration more than a
  success (`MinShown`). The proofs cover all limits, steps and times.
* `hold_claim` and `save_claim`: as `main_loop`, with one event to a batch.
* `settings`: the program's own limits; the defaults and one other choice whose
  numbers, cut short anywhere, are legal numbers as well (300, 2000), so that a torn
  file is not refused for its values alone; two process ids, so that one can be
  used again while the other's leftover is there; seven files left by hand, one
  for each thing `settings_load` checks, and one it accepts in another order.
* `launch`: the real times in seconds, as upper limits: 180 polls of 0.25 s; a time
  limit of 30 s and a grace period of 7 s (`HELPER_TERM_GRACE_MS`); a gesture of 4 s,
  its four segments of 30 frames with a host that polls promptly, or of 124 s when
  each of the 120 reports waits its second (`REPORT_POLL_MS`); the screen
  of a failed shutdown, 3 s. Two signals stand for the three.

## Fairness

* `WF(Worker)`: the scheduler runs the worker thread; each of its waits is a
  timed wait or a poll of bounded length, apart from the wait for a condition,
  in which the action is not enabled.
* `WF(HelperDeadline)` and `WF(Tick)`: time passes.
* None for callers, for the waiting caller or for the scripts: the liveness
  results hold when a script hangs for ever.
* `MainLoop`: `WF(Loop)`, because SDL's calls return and the batch is finite, and
  of the worker only that gestures and shutdowns end. `AppRuntime` under its
  own fairness implements these (`ImplementsFairLifecycle`).
* `Launcher`: `WF(Shell)`, the script runs; `WF(Program)`, the program's own code runs
  and its limits are kept, which `runtime` and `main_loop` show; that it makes the
  request after a SIGTERM is part of it, gestures and what a user does are not; `WF(Tick)`, time
  passes. None for scripts, gestures or GPTOKEYB, which may hang or ignore SIGTERM.

## The proofs

The eight proof modules are checked without any trusted step. They assume the
named assumptions only, which TLC evaluates in every run, and `TicksAssumption`, a
hypothesis of its theorem:

* `GestureAssumption` (positive number of frames, and a limit on the distance such
  that a frame fits a byte), `EmitAssumption` (settings are legal patterns and
  distances), `SettingsAssumption` (settings within the limits `settings_validate`
  enforces, as `settings_load` does: `StoreAlwaysTyped`);
* `GadgetAssumption`, `UiAssumption` and the like: the types of constants;
* `StoreAssumption`: choices and defaults are legal, and a pattern, the last number of
  the file, has one digit: with two, a file torn inside it could be a legal one;
* `FeedsAssumption`: a source reports directions or other actions, not both. Keys,
  hats, axes and buttons of the program are of this kind. `DeliveryAssumption`:
  reports are late by less than the 80 ms. `ReleaseAssumption`: in the main loop, too,
  a source that asks for a direction reports its release, as keys, hats and axes do;
* `TicksAssumption`: the tracker's times are shorter than a word, and the delay of a
  repeat at most half of one (330 ms against 2^31);
* `BudgetAssumption`: a gesture over a prompt host, a script's limit and the last screen
  together are shorter than the launcher's patience. Of a slow gesture nothing is
  assumed.

* **Gesture.** `FrameFits`: no frame of a legal segment moves further than a
  signed byte. It rests on bounds of truncating division, proved by multiplying
  out; `PlansClose`: each plan has two or four vectors that sum to nothing.
* **EmitCycle.** `PointerOnPath`, `GestureReturnsHome`, `ReportsFit`. The
  inductive invariant is `OnPath` with the typing of the plan: that the casts
  lose nothing follows from `FrameFits`, so the cursor the host adds up is the
  planned position after each report, and at the end of the last segment the
  remaining vectors sum to nothing.
* **AppRuntime.** `AlwaysSound` proves the inductive invariant: `IInv` and that a
  gesture in progress is on its plan. `IInv` is `TypeOK` and `Consistent`, whose
  parts are needed because the worker acts on what it learnt before:
  - `RequestsAgree`: what each place of the worker's code implies about requests
    and state; in particular `shutdown_requested` and EXITING are the same.
  - `ChildBelongs`: only `run_helper` has a child, and it is the script it was
    asked for; a cleanup that exits with 0 has left nothing.
  - `OwnershipFollowsWorker`: setup runs over state that is not owned, cleanup
    over state that is. `SetupStartsClean`, `ExitTellsTheTruth` and
    `OwnershipOutlivesResidue` follow.
  - `DeviceFollowsWorker`: the descriptor is closed before a helper runs, without
    which `DeviceIsOurs` is not inductive.
  - `SleepersAreWaiting`: who sleeps on the condition is at its wait, which makes
    `NoLostWakeup` inductive.

  Preservation is one lemma for each of the worker, the API, the helper, and the
  waiter and environment, with one step per action. The safety properties
  of the run `runtime` are theorems, and `SnapshotIsLifecycle` proves the
  safety part of the refinement (`ImplementsLifecycle`).
* **Gadget.** `GadgetInvariant` proves `GadgetInv`. The properties speak of a
  script's end; what makes them inductive is what holds on the way:
  - `PlaceInv`: where each script can be, and that a setup on its way to failure has
    a status that says so, unless a signal sent it there;
  - `FoundInv`: behind its checks setup has found nothing, except a module that
    others loaded between the check and `insmod`;
  - `RecordInv`: the record is there from its write to its removal, and a cleanup's
    `recorded` is what the file says. `OwnedIsRecorded` follows through any chain of
    cleanups that fail or are killed;
  - `CleanInv`: what a cleanup has removed at each place;
  - `RollbackInv`: what is there of a setup's own is flagged and not yet undone, or
    about to be flagged (`Kept`), from which `RollbackRestores`;
  - `ChainInv`: what setup has made at each place, so that a commit is a live gadget.

  `SetupTouchesOnlyItsOwn` and `ScriptsAsRuntimeAssumes`, the refinement of
  `AppRuntime`'s helper process, follow step by step.
* **SettingsStore.** The invariant (`StoreInv`) adds to the two properties that,
  between write and rename, the temporary file holds the settings of the program, and
  is synced when it is renamed (`SaveInv`); and that everything in `lasting` is a
  file. The arithmetic lemmas are `RoundTrip` (what is formatted loads as what it
  was), `LoadedIsLegal`, and `TornIsRejected`: every proper beginning of a formatted
  file loads as the defaults, or as the file itself when only its last line break is
  missing. `StoreIsRegister` is the refinement.
* **MainLoop.** `MainInv` is the type invariant, `SettingsInStep` and `EndInv` (a
  completed shutdown is final and its outcome agrees with ownership).
  `LoopAlwaysTyped` needs that every adjustment, clamped or cyclic, stays within
  its limits, for all limits and step widths. `ScreenAlwaysKeepsItsWord`
  needs that the view drawn is the one that the next event meets, and, for SAVE AND
  BACK, that settings that are not stored are settings whose write failed
  (`SettingsInStep`).
  `RepeatsAlwaysHeld` rests on `HoldInv`: a queued press is followed by its release
  unless the source is still pressed, and so the sources of the held direction are
  pressed or about to let go (`HoldersInv`); once an iteration has seen EXITING, which
  is final, none of this matters, and none of it holds.
* **Input.** `InputInv` adds to `HeldIsPressed` that a source reports only what it can
  ask for, queued reports included, and that the last action, if it is a direction,
  is the held one (`HoldInv`): without it a report of another direction could pass for
  a duplicate, which would make its source the second one of the wrong hold.
  `SolePressAlwaysFiresOnce` rests on `SoleInv`: of a control that is pressed alone, a
  source has at most its press and its release under way, and once one press
  has made the action, `last` is that action and is no older than the time waited. It
  stays below `Dedupe`, by `DeliveryAssumption`, until the last source has reported. An
  axis that reports again ends `alone`.
* **Launcher.** `LauncherInv`: `OrderInv` (which process ids are set, and whose
  process has ended, at each command), `WorkInv` (what the worker can be busy with and
  for how long), `CodeInv` (what exit codes tell) and `TimeInv`. The last is the
  argument about the budget. From the SIGTERM to the shutdown request no second passes,
  whatever the worker begins in between. `Rest` is the most that a program which was
  asked to end can still take, and while the launcher polls, the time it has waited plus
  `Rest` never exceeds gesture, script and screen together. It stays below the
  patience by `BudgetAssumption`, so that SIGKILL is never reached, unless the
  request met a retry's cleanup or a slow gesture.

* **Ticks.** `TicksInv` couples the stamps with the ages that matter: of the last action,
  if there was one, and of a hold, if there is one; a stamp that lies ahead has an age
  of a word less its distance. It rests on what a difference modulo a word is when time
  passes (`SinceGrows`) and when a stamp is set (`SinceNow`, `SinceAhead`).
  `TicksAlwaysTellTheTime` follows for any number of wraps. `InUse` is what it needs:
  an action repeated after exactly a word, 49 days, within 80 ms would be dropped as a
  duplicate.
* **Progress.** Liveness itself is out of the prover's reach, but not what makes it
  true: that something bounded becomes smaller with every step. For each of the
  processes a number says how many steps are left, a property says that its own
  steps lower it and that nobody else's raise it, and a theorem says so for every
  value of the constants, with the bound:
  - `IterationAlwaysAdvances`: between two looks at the requests the worker makes at
    most `MaxReports` + 12 steps, the reports of a whole gesture and both scripts of a
    preparation with their time limits and kills included (`StepsLeft`). The number of
    reports is counted by `ReportsLeft` of `EmitCycle`.
  - `ShutdownAlwaysAdvances`: after a shutdown request the rest of that iteration,
    then a cleanup, and no more: at most 13 further steps (`ExitStepsLeft`), whatever
    callers, scripts and the clock do.
  - `EndAlwaysDrawsNearer`: a launcher that ends has at most seven commands and two
    budgets of polling left (`FinishLeft`).
  - `CloseAlwaysDrawsNearer`: after a complete shutdown the loop has as many iterations
    left as the last screen is to be shown, each of `MaxBatch` + 3 steps at most
    (`LoopStepsLeft`): no event, signal or closed window starts that time anew.

Only proved: the clock of the tracker, because `input` with wrapping ticks as well is
several times its size unless holds are cut short; type correctness of the runtime, the
scripts, the tracker, the main loop and the launcher (`AlwaysTyped`, `InputAlwaysTyped`,
`LoopAlwaysTyped`, `LauncherAlwaysTyped`); and `ExitingAlwaysFinal`, which
follows from `ImplementsLifecycle`.

Only model-checked: everything temporal under fairness (`ShutdownCompletes`,
`StopTakesEffect`, `TimerFires`, `ImplementsFairLifecycle`,
`ExitCloses`, `LauncherEnds`), which is out of the prover's reach. What these add to the
bounds above is that a step is possible as long as something is left, and that fairness
makes it happen.

## What is not modelled

* Text: error messages, logs, drawing. Counters and times that only the drawing
  reads (`report_count`, `last_report_ms`, `cleanup_count`, gesture target and
  start).
* Failures of `waitpid`, `nanosleep`, `pthread_*` and memory allocation.
* A crash of the program while a script runs, in `AppRuntime`: a later start over
  what it leaves is covered by `LeftBehind`, and scripts run in any order
  by anybody by `gadget`.
* The scripts' state file, torn in the middle: `"empty"` stands for every file that
  does not yet say that the module was loaded by setup. Restoring a prior UDC
  owner: setup never records one.
* Ages of 49 days and more: a pause that long and exactly to the 80 ms, or a
  direction held for as long (`InUse` in `UiTicks`). The last screen is timed by ticks,
  too, and is seconds long.
* `app_runtime_build_reports`, which only tests call; the capture mode; the
  registration probe and the report test; build and packaging scripts.
* Characters of the settings file: how `settings_load` splits a line and parses a
  number is its verdict on the line, junk or a key and a number.
* A reaction of the runtime to a record that a cleanup could not remove: it is in the
  mode of `Gadget` in which anybody starts the scripts, not in `AppRuntime`.
* Promises about an axis that goes on reporting its push. The tracker makes another
  action of such a report when its direction is no longer held and the 80 ms are over:
  after another direction was pressed, or when three sources of one direction have made
  the tracker forget one of them. `HeldIsPressed` covers it, `SolePressFiresOnce` excludes
  it.
* The launcher before its traps: the search for PortMaster and for the program's
  directory, which sets paths and starts nothing.
* The drawing: shapes, colours, texts, and the moving point, which is computed
  from the latest snapshot and changes nothing.
* How slow a host is: in `Launcher` it is prompt or slow for the whole of a gesture, and
  in `AppRuntime`, which counts no seconds, a gesture takes as long as it likes.

## Plan

The plan of modules is done: `Gesture`, `EmitCycle`, `AppRuntime`, `Lifecycle`,
`Gadget`, the tracker, the main loop with its screens, the settings store and the
launcher, each with its proofs, and so are the tracker's ticks, the slow host and the
bounds of progress. What is left:

1. Two controls that are pressed within the skew of their sources
   (`src/ui_model.c:272`): the code accepts that the first may count twice, and
   `SolePressFiresOnce` excludes it. A bound on how often would be worth stating.
2. The steps from the bounds of progress to the liveness properties, should the prover
   come to support ENABLED.
