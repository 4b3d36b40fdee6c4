# A TLA+ verification of NEMT

NEMT (NekoCoaster's Extended MSTS Toolkit) is two programs that meet in the game folder of
*Microsoft Train Simulator*:

- **the control panel**, `NEMT.exe` (`src/nemt.c`), which writes the settings and installs or
  removes a `DINPUT.dll` beside `train.exe`;
- **the runtime**, that `DINPUT.dll` (`runtime/loader.c` and the files it includes), which the
  game loads, and which patches the code of the running game and is then called back by it.

Paths below are relative to the root of the repository.  This directory holds the TLA+ modules that
model them, the TLC configurations that check the models on small instances, and the proofs that
TLAPS checks for all instances.  `PROJECT.json` maps every definition to the lines it models.

## 1. Inventory

| Component | Source | State | Operations | What is hard |
|---|---|---|---|---|
| Installer transaction | `src/nemt.c:98-416` | four files, the NEMT folder, their snapshots, the executable's hash | Apply, Uninstall, rollback | any step fails, the process dies, the game starts meanwhile |
| Settings and ownership record | `src/settings_model.h`, `src/json_record.h`, `src/nemt.c:143-316` | the option values, `installation.json` | parse, read, write, disable | malformed or foreign records, a merge field by field |
| Control panel | `src/nemt.c:417-1017`, `src/viewport_model.h` | option check boxes, selection, `g_busy`, scroll position | select, change, Apply, Uninstall, close | options that imply others, commands while busy |
| Hook transaction | `runtime/hooks.h`, callers in every `install_*` | the bytes of the game, the claims registry, suspended threads | `prepare_hooks`, `install_hooks` | other threads run the bytes being replaced; partial failure; two installing threads |
| Loader and bootstrap | `runtime/loader.c`, `runtime/window.h` | `initialized`, the readiness counter, the stage reached | forward DirectInput, wait for a driving scene, install stage by stage | once-initialisation by racing threads, a scene replaced while it is timed |
| Crawl runtime | `runtime/crawl.c`, `crawl_controls.h`, `manual_derail.h` | `enabled`, `blocked`, the consist, the derail edge, one call stack per thread | frame, activity exit, key event, effects entered and left, status file | faults in the middle of anything, stale consists, unlocked readers |
| Crawl physics | `runtime/physics.h`, `rotation.h` | none | impulses, drag, wheel rate, rotation | numeric edges |
| Free walking, flashlight | `runtime/walking*.h`, `flashlight*.h` | the walker, the static view, the previous camera, masked actions | enter, leave, step, handoff, reset | the native camera or the train changes underneath |
| External camera | `runtime/external-camera*.h` | the captured view and pointer | capture, move, release | the view is destroyed while captured |
| Red signals | `runtime/signal.h` | the signals seen, the pending notice | monitor, notice, reset | transient aspects, full arrays, another popup |
| Timing and refresh cap | `runtime/timing.h`, `refresh-cap.h` | remainders, previous counter, cached rate | frame, step, pace | failed reads, clocks that step back |
| Startup log and loading text | `runtime/startup.h`, `startup-log.h`, `terrain.h`, `deep-log.h` | the open log, its size, `startup_active` | record, rotate, begin, end | rotation in the middle of a load |
| Window, movie, audio, HUD | `runtime/window.h`, `movie.h`, `audio.h`, `hud.h`, `welcome.h` | the game window's style and size | single calls into Win32 | - |
| Editors | `runtime/editors.h`, `editor_*.h` | the mode, the window's saved styles, the pending resize, the routes of held keys | frame, toggle, size, press, release | a window two programs share; focus and modifiers that change while a key is held |
| Compatibility patches | `device-init.h`, `cpu-preference.h`, `high-resolution.h`, `mouse-compatibility.h`, `tracks.h`, `cab.h` | none after installation | one patch each | they share the hook transaction |
| Configuration reader | `runtime/config.h` | the feature flags | read, validate | two threads read it |

The parts meet in three places.  The panel and the runtime share only the files of the game folder:
the panel refuses to change them while `train.exe` runs, and Windows locks the DLL the game has
loaded.  The runtime's components share one registry of hook claims and are installed one after the
other, first on the main thread (from the redirected `GetCommandLineA`), then on a worker thread.
The installed features are called back by the game's threads; the crawl state is shared by these and
the worker behind one lock, `state_lock`, that some paths do not take.

What makes each component correct, in a line: a transaction leaves the owned files as it found
them or as it was asked to make them, and never touches what is not its own; a patch is whole or
absent, no thread that was stopped for it runs half of it and no thread stays suspended; a fault of the crawl runtime leaves
the game as if the runtime were not there; every redirected return finds its way back; a held derail key does not repeat (it can, finding 6); a camera taken is given back; a notice appears once per signal; of the log records that were written only the oldest are lost; a
frame comes in time and a clock keeps it; nothing is installed into a scene that is still being loaded; the
launcher gets its window back, and a key that is released is released.

## 2. Modules

| Module | What it models |
|---|---|
| `InstallTx` | `install_settings` and its helpers, one step per file operation |
| `OwnedFiles` | what the installer promises: Apply and Uninstall happen at once or not at all |
| `InstallTx_proofs` | theorems about `InstallTx` |
| `HookTx` | `prepare_hooks`, `install_hooks`, `redirect_command_line`, the order and the retries of the stages |
| `AtomicHooks` | what a transaction promises the rest of the process: a stage is installed in one instant or never seen |
| `HookTx_proofs` | theorems about `HookTx` |
| `CrawlFrame` | the crawl runtime: frames, the derail key, faults, activity ends, uncoupling, the status file |
| `CrawlFrame_proofs` | theorems about `CrawlFrame` |
| `Flashlight` | the life of the walker's light among the renderer's lights |
| `Walking` | free walking and the mouse camera: how the camera, the input and the pointer are taken and given back; extends `Flashlight` |
| `Walking_proofs` | theorems about `Walking` and `Flashlight` |
| `Panel` | the control panel over the files: the form, `settings.ini`, the record, their merge, and what the runtime accepts |
| `Panel_proofs` | theorems about `Panel` |
| `Setup` | `InstallTx` and `Panel` as the two levels of one program |
| `CrawlCalls` | the calls of the game that the crawl hooks redirect: gates, stacks and returns on several threads |
| `NestedCalls` | what they are to the game: calls that nest, and a rate that is crawling's as long as a call was given it |
| `CrawlCalls_proofs` | that the stacks stay paired, and that every step of `CrawlCalls` is one of `NestedCalls` or none |
| `Signal` | driving on after a red signal: the scan, the notice, the game's popups |
| `StartupLog` | the log, its rotation one file operation at a time, its writers and sessions |
| `StartupLog_proofs` | that every rotation, and every part of one, keeps the log |
| `Timing` | the frame clock: pacing, elapsed time, compensated clocks |
| `Loader` | the two functions that prepare once, the readiness gate, the worker's stages |
| `Editors` | the editors' window and the swapped keys |
| `Session` | these six beside each other in one process of the game |
| `Session_proofs` | theorems about `Session` |
| `MCSetup`, `MCHookTx`, `MCCrawlFrame`, `MCWalking`, `MCSession` | the instances TLC checks |

### InstallTx

`disk` holds what each of the four owned files contains, as far as the code can tell contents apart:
nothing, settings, a DLL of some release, a record, a foreign file.  `dir` is the NEMT folder,
`litter` the temporary files left in it.  `tx` holds the locals of one `install_settings` call and
`pc` the place it has reached; every step between two file operations is one action, with the
failure of the operation as a disjunct (`"io"` in `Faults`; `"cleanup"` for the operations of the
rollback itself).  `Crash` is the death of the installer's process at any `pc`; the disk is kept as it is,
for a process that dies does not undo a rename (a power failure that reorders
writes is not modelled).  `StartGame`, `ExitGame`, `SwapExe`, `SelectExe`, `RuntimeStatus` and
`UserProxy` are the environment.  The user drops in a foreign DLL only between transactions: the
time between the hash of `DINPUT.dll` and its replacement is a window the code has, which the
property `ForeignKept` is not about: the property speaks of the ownership checks and of the rollback.  `damage` is a history variable: the worst transaction
that did not end well since the last one that did.

`OwnedFiles` is the abstract specification; `InstallTx` implements it (`AllOrNothing`, checked in `setup` and
proved in `InstallTx_proofs`) with the mapping `Visible`: *the snapshots while a transaction is changing
something, else the disk*.

### HookTx

`mem` says of each byte whether it is the executable's, this runtime's or another module's; `claims`
is the registry, `k` the stage being installed and `pc` the place of `install_hooks`.  `eip` says in
which byte of a hooked prologue a game thread stands; `Enter`, `Advance`, `ThreadExit`,
`ThreadStart` and `ForeignPatch` are the other threads, interleaved with every step of the
installer.  A fault of a Win32 call (`"os"`) is a disjunct of the step that makes it.
`Thread32Next` has a fault of its own, `"cut"`, because `install_hooks` does not ask why it returned 0:
any failure of it passes for the end of the list (`AllOpen`), and the peers behind it are neither suspended
nor looked at.  A thread that starts while its peers are being suspended (`"late"`) is missed in the same way.
`missed` is the history of both: the threads that ran while a hook of a stage was written.  A try that fails
for a thread inside a target prefix is told from other failures by `outcome[k] = "busy"`; only `cab.h` and
`start_native` then try again.

The generated trampolines, gates and register contexts are not modelled, and a hook's bytes are of
three kinds only: what matters to the transaction is whether `memcmp` with `original[]` succeeds.
The stages are sequential although they run on two threads, because the worker waits for a driving
scene before its first one, and the command-line stage is over before there is a scene.  Thread
identifiers are not reused while a try still holds them, and `VirtualProtect` does not fail in a
rollback on a page on which it has just succeeded.

`AtomicHooks` is the abstract specification: a byte is owned or not, a stage is on or not, threads walk over
bytes that are not replaced.  `AppearsAtOnce` is `HookTx` implementing it, with `Shown`, `Owned` and `Installed`
as what the rest of the process sees, in every step of a stage that missed nobody.  A stage that did
miss a thread promises that thread nothing, and `OnlyMissedAreTorn` says that nobody else is harmed by it: not
the threads it stopped, not those of the stages before and after.

### CrawlFrame

Two threads: the simulation thread, on which the game calls back, and the loader's worker.  Every
callback holds `state_lock` from beginning to end, so that a callback is one action; `update_frame`
alone is split, at the places between which the worker can read or write what the frame is changing
(`pc` is `"snapshot"`, `"derail"`, `"again"`, `"judge"`, `"push"`, `"out"`), because the worker does
not take the lock.  The worker's part is `HooksLive`, `SetReady`, `NextStage` (whose failure calls
`fail`) and the loop of `write_status`: `BeginRead` sees an even `status_sequence`, `ReadField`
copies one variable, in any order because C does not order arguments, and `EndRead` compares.
`moved` stands for "`status_sequence` is not the number read before".

A vehicle is in the player's train (`linked`) or not and derailed (`bent`) or not; `known` and
`knownBent` are the `cars` array.  A frame reads the focus, the modifiers and the key bindings anew,
which is a choice of the action; the pause and walking are state.  `update_frame`'s checks of what
it reads are one choice between going on and `fail` (`"data"`), those of the effects another
(`"effect"`).  A key event can be lost (`"lost"`), and a held key may be reported again (`Repeat`).  A key
that a focused frame cannot see, because the player walks, holds a modifier or the bindings are unreadable,
counts as released, as it does in the code.  `credit` and
`paid` are history: what a request that is made now would be owed to, and what the waiting request is owed
to, which is a press, a focused frame that was blind to the held key, or neither (`Origins`).

`request` is `update_frame`'s local, and `beat` is `frame_count` modulo the reading period (the one
irregular beat when the 32-bit counter wraps is left out).  `fail` and `clear_activity` are atomic: a
frame changes the sequence number around them, and where it does not, `excused` says so.  Crawling and
activity-end prevention are enabled in the settings.  Thrust and steering are not in this module; the
redirected calls are those of `CrawlCalls`, to which a frame is three flags.

### Walking and Flashlight

One thread: the game's frame thread, which calls in turn its input routine (detoured by
`walking_input`), its camera routine (`walking_camera`), the window procedure (`walking_proc`) and
the renderer (`walking_light_render`).  The two routines call back while they run: key events
(`KeyEvent`), activations of cameras (`GameSelects`, `GameLeaves`, `SelectionRefused`, all of them
`walking_activate_bridge`) and the orbit routine (`external_orbit`) come in any number and order
between the beginning and the end of a routine, and `at` says where the thread is.  `walking_input` is
cut into `InputBegins`, `Change` and a mask step, because the focus and the buttons, which it samples
as it goes, change at any time.  What a read of the game's memory yields, and whether it can be read at
all, is a choice of the action; so is whether the game accepts a camera.

The actions of the input routine are registered at addresses (`node` says which name, if any) and have
a disable flag (`off`); `masks`, `kept` and `devices` are `walking_masks` and `walking_devices`.  The
devices of the input routine are one flag, `raw`.  `want` (what the flag would be without walking),
`born` (actions registered while others are masked) and `world` (the tile the walker
stands on) are history.  Positions are counted in tiles of the floating origin: the walker does not walk
in the model, so that every change of `x` is a change of coordinates.  `lights` says who made the light
that is registered at an address, which `flashlight_owned` cannot see.

What is assumed of the game: between a routine's beginning and its end it activates cameras through the
detoured routine only (`SceneChanges`, which does not, comes between routines, and with it a change of
train); the active camera is not removed from the list; between input routines the game sets disable
flags, during one it only registers and unregisters actions, and not the same one at the same address
again, which `walking_unmask` cannot tell from the one it masked.  `walking_unmask` goes on to the end of the
list of actions, to a node that cannot be read or to its 1024th one, whichever is first, and forgets the rest
(`UnmaskedOff`); after a list that `walking_mask` could not read it can stop where that one stopped (`MaskUndone`).
`lost` is the history of the actions that were left disabled, until the game sets them or unregisters them.  A message goes to the game's main
window.  Left out: the walker's movement, the height, field of view and wheel, the tuning keys of the
light, the lighting of terrain and objects, and an activation of no camera at all.

### Panel

One thread, one window message per action: `SelectGame` (also what `WinMain` does at the start with the
game it finds), `Click`, `Pick`, `Recommended`, `DisplayChange`, and `PanelApply` and `PanelUninstall`, which end with
the reload of the form.  `SaveFails` is `install_settings` failing for any reason; that it then leaves the
files alone is what `InstallTx` shows.  `files` is the NEMT folder: `settings.ini` key by key (`missing` and
malformed ones too), and `installation.json` with its owner.  `LoadSettings`, `SettingsFromManifest`,
`LoadSelectionSettings`, `UiToSettings`, `WriteSettings` and `Applied` are the lists of options that
the code repeats by hand, and `Accepted` is the runtime's view of the result.  `EditIni` and `Meddle` are
the user's editor and other programs, `Restart` a new process, maybe on another machine.

The options are grouped by how they are treated (`InRecord`, `InIni` and `"vsync"`, which has both), and of
each group one stands for the rest.  The momentum, the HUD's corner, scrolling and layout are left out, and
so is the JSON parser: a record is well formed or `"bad"`.  A number is in range or not; a text that begins
with a number in range, which `atoi` accepts and the runtime does not, is read as that number by the panel
and counts as one out of range here.  The runtime's values for keys that are absent are not compared.

### Setup

`install_settings` handles no window messages, so that no handler of the panel runs while a transaction does.
`Setup` therefore has the two modules as two levels of one program, of which a run looks at one at a time
(`level`): in the panel a transaction is one step, which the refinement of `OwnedFiles` justifies.

### Session: six parts of one process

The rest of the runtime are small parts that do not touch each other's state.  Each has a module with its
own variables, `Init` and `Next`; `Session` composes them, with `features` saying which a process has.  An
editor's process (`-toolset`) has the editors, the log and the loader, which ends at once; the game's has
everything but the editors (`SessionAssumption`, from `toolkit_command_line`).

- **`CrawlCalls`.**  `native` is the stack of hooked calls the game has in progress on a thread, `calls`
  is `ThreadCalls`, and `home` says which native call's return address an entry holds.  The leave gateway takes
  return address and saved rate from the top entry; `hook_leave` therefore sends control where that entry says.
  `gate` splits the way in at the two flags `fast_gate` reads without the lock.  The game works on trains on
  one thread and draws each vehicle on one thread (`Drawer`); that two threads do not draw one vehicle is assumed.
  The frame, the activity's end and the pause come on the simulation thread between two native calls, a fault of
  the loader's at any time.  What `CrawlFrame` says of the flags is here any change of them.  The effects that
  only change a number in passing (`BODY`, `FORCE`, `DRAG`) matter by the faults they can find.
  `NestedCalls` is the abstract specification: each thread has a stack of calls, and a vehicle's rate is a function
  of these stacks.  `GameCalls` maps to it, forgetting return addresses, saved rates, gates and flags.
- **`Signal`.**  A scan is given the game's list, which of it is red and close, and whether it is sound;
  `passed`, `owed` and `scanned` are the history that says what should have been told.  Signals are objects
  that are not freed while they are in the list.  A scan that finds more than `Capacity` signals or a broken
  list leaves the bit as the game set it, as the code does: then the activity may end, and `NoticeDue` says
  nothing until the next reset.
- **`StartupLog`.**  `file` holds the records of `startup.log` (0) and of each backup; `rotating` is the file
  operation that is next.  Every operation can be refused, and `EndSession` comes between any two.  All records
  have one length and all sessions one limit; the retention can differ from session to session, but not within
  one, as the panel refuses to change settings while the game runs (`nemt.c:337`, `nemt.c:360`).  After a
  failed rotation `movie_log` still appends to what `startup.log` then is.
- **`Timing`.**  Ticks stand for counts.  `real` is the time since the last frame, whatever the counter says,
  and `stepped` that the counter was set; a frame says in `sure` and `timed` whether the promise binds.
  A wait can take any time up to a tick more than what was asked for (`Waits`): `refresh_wait` looks neither at
  what `WaitForSingleObject` returns nor at how long `Sleep` took, and `refresh_pace` takes the count after it as it is.  Clocks are
  multiples of `Grain`, which stands for the precision a `float` has at their size; a sum between two of them
  is rounded to the nearest.  A clock the game sets to exactly the time a step left it at cannot be told from one
  it did not set; such a setting changes nothing and is not in the model.
- **`Loader`.**  `Enter`, `Prepare`, `Publish` and `Answered` are `resolve` and `toolkit_command_line`
  seen from any number of threads.  The worker's polls and the game's scenes interleave; `lasted` counts what the
  worker should have seen.  To end one scene and load the next is assumed to take longer than one poll
  interval (250 ms): otherwise an address used again would keep its count.
- **`Editors`.**  `frame_of` is the style of the window, `base` and `saved` the two styles the code keeps.  An
  Alt+Enter that comes before an editor's first frame is undone by that frame; an editor that is left without
  any frame leaves its fullscreen to the next visit (`unseen`).  A size the renderer refuses switches the feature off
  for good, and with it the promise: the launcher then keeps the editor's frame.  A key that is released while another program has the keyboard stays down in the game
  (`stuck`), with the toolkit or without; pressing a swapped key again does not always end that, since the
  new press may have another meaning.

**What is left out of them:** the physics and the rates themselves, the wording of records and notices, the
scaling of a step by the game's time factor, the panels, map, cab mouse, pan and sound of the editors.

## 3. Runs

| Run | Instance | Shows |
|---|---|---|
| `setup` | the transaction: 2 settings, 2 releases, every fault; the panel: 1 display that comes and goes, 5 options to click, 3 to edit, 2 clicks or outside changes | `SetupTypeOK`; `OnlyApplyStrands`, `RecordTellsTruth`, `RolledBackIsUnchanged`, `ForeignKept`, `AllOrNothing`; `RuntimeAccepts`, `DependentsFollow`, `FormSettles`, `ChoicesKept` |
| `setup_crash` | the transaction, with death of the process only | **violation**: an Apply that dies between the DLL and the record leaves a DLL that Uninstall refuses |
| `setup_cores` | the panel | **violation**: Apply deletes a preference it should preserve |
| `hooks` | 4 stages on 2 installing threads, a third thread of the game, an overlap, a full registry, every fault | `TypeOK`, `ClaimsExact`, `OnlyMissedAreTorn`, `NobodyLeftSuspended`, `AppearsAtOnce`, `TransactionsEnd` |
| `hooks_late` | every fault but a cut list | **violation**: a thread that starts during the suspension is torn |
| `crawl` | 2 vehicles, a reading period of 2, every fault, no status file | `TypeOK`, `OnlyBlindFramesRepeat`, `WholeConsistDerails`, `OnlyLateStagesRevive`, `CrawlingBegins` |
| `crawl_status` | 1 vehicle, a reading period of 1, every fault but a failing stage, with the status file | `StatusOfOneMoment` |
| `crawl_fault` | 2 vehicles, only a failing stage | **violation**: blocked and yet enabled |
| `crawl_repeat` | 1 vehicle, a reading period of 1, no fault | **violation**: a held key derails again |
| `walking` | 2 cameras (one orbited), 1 train, 1 action node with 2 names, 2 lights, 2 tiles | `TypeOK`, `MasksUndone`, `DrivingBlocked`, `ShownCameraExists`, `LightFollowsWalking`, `PointerComesBack`, `DrawnInPlace` |
| `walking_reject` | the same without actions, light and buttons | **violation**: the static view without walking, which no selected camera can replace |
| `session` | each of the eight features by itself: 2 threads, 2 vehicles, 3 native calls; 3 signals of which 2 fit; 2 backups, 6 records; 2 clocks; 2 calling threads, 1 train; 2 editors, 2 sizes, 1 arrow and 2 letters | `SessionTypeOK`, `CallsAsEver`, `OwnInputOnly`, `NoticeDue`, `LogKept`, `PacedApart`, `NoDrift`, `LoaderWaits`, `FrameRestored`, `KeysReleased` |

**Bounds.**  Nothing in the modules counts without limit (frames are counted modulo the reading period;
`MaxTile` bounds where the origin can be; `MaxEdits` bounds the clicks and changes from outside) and every
run but `walking` explores its instance completely.  The instances are the smallest in which the interesting cases
meet: in `MCSetup` two settings (one saved, one being saved) and successive transactions in any
order; in `MCHookTx` a plan of two hooks (so that the second can fail after the first is written), a stage
that patches what an earlier one patched, a stage that overlaps a claim, a stage with more than
one try and one without, and a bound of the registry small enough to be reached.  The array of
threads has room for all peers, so that a full one, which ends a try like a denied `OpenThread`, is left to
the proofs.  In `MCCrawlFrame`
two vehicles are enough to uncouple one and to derail one without the other, and a period of 2 for a
frame that reads the train and one that does not; the status file depends on neither, but multiplies
the states, and has a run of its own.  `MCWalking` has a
camera of each kind, a train that can be lost and found, one node at which a driving action, one bound to
Escape or none is registered, and two lights, so that an address is free while another is used.
Actions, pointer, lights and origin act on each other only through the cameras and `walking_reset`; the
constraint `OneConcern` lets the run explore each of them, one at a time, together with the cameras, and
the proofs have no such bound.  In the panel two changes are enough for an edit by hand and a click, or a
change of `train.exe` and of a key, between two saves; recommendations, selections, saves, restarts and
display changes are free, and the options that are clicked or edited are those that depend on each other
or have two places.  Settings, releases and
game threads are interchangeable and the run of `MCSetup` uses that symmetry for settings and releases; the runs with a liveness
property, `hooks` and `crawl`, use none.

`MCSession` looks at one feature at a time, since no action of one reads or writes a variable of another
(the proofs show each step to leave the other parts' variables alone, and need no such restriction).  A stack
of 2 is filled and overflows within 3 native calls, and two vehicles with different drawers give two stacks;
3 signals overflow a memory of 2; with 2 backups, 2 records to a file and 6 in all, three rotations happen, and
the retention goes through 0, 1 and 2; periods of 2 and 3 ticks, a rate that is stale after 3 and counts 4
ticks away let a display change, a late wait and a counter set back meet; steps of 1 and 3 in a clock of grain 4
round down, up and either way.  One train is the worst case for the loader, as every scene has its address.
With a plain arrow, its binding and its binding with Ctrl, a key can be swapped in every way there is.

**Fairness.**  `hooks` assumes weak fairness of the installer's steps within a transaction that has begun,
and of nothing else.  From `prepare_hooks` to the end of the last try the thread is never suspended
(`NobodyLeftSuspended`) and waits for no other: there are calls of the system and `Sleep(25)`, and Windows
schedules every runnable thread.  Between two stages it may stand for ever, at the polls for a driving scene
(`loader.c:81-90`), which need not come, or in a message box (`window.h:80-100`); so nothing says that the stages
come to an end, only that one that was begun does (`TransactionsEnd`).  Nothing is asked of the game's threads: a
transaction ends even if a thread never leaves a target prefix.  `crawl` assumes weak fairness of `FrameStep`: the game calls its activity checker, which
is the frame hook, in every frame of an activity, paused or not, and a callback runs to its end.  Nothing is
asked of the worker, the player or the trains.  `session` promises nothing that must eventually happen.

**Stopping.**  The system of `MCHookTx` may stop (all stages done, all threads outside), so these runs do
not check deadlock; those of the other instances do.

## 4. Proofs

| Theorem | Property | Assumes beyond the constants' types |
|---|---|---|
| `TypeCorrect` (of `InstallTx`) | `TypeOK`, part of `SetupTypeOK` | - |
| `RollbackRestores` | `RolledBackIsUnchanged` | - |
| `UninstallNeverStrands` | `OnlyApplyStrands` | - |
| `RecordIsTrue` | `RecordTellsTruth` | - |
| `ForeignFilesKept` | `ForeignKept` | - |
| `KeepsPromise` | `AllOrNothing` | - |
| `HookTypeCorrect` | `TypeOK` | - |
| `ClaimsAreExact` | `ClaimsExact` | - |
| `PeersAreResumed` | `NobodyLeftSuspended` | - |
| `OnlyTheMissedAreTorn` | `OnlyMissedAreTorn` | - |
| `NobodyIsTorn` | `NobodyTorn`, which `hooks_late` refutes | no thread starts during a transaction, and no list of threads is cut |
| `InstalledPatchesStay` | `PatchesStay`, which no run checks by itself | - |
| `StagesAppearAtOnce` | `AppearsAtOnce` | - |
| `InstallerOnlyAdvances` | `OnlyForward`: nothing is tried without limit | - |
| `TypeCorrect` (of `CrawlFrame`) | `TypeOK` | - |
| `DerailmentsAreOwed` | `OnlyBlindFramesRepeat` | - |
| `WholeConsist` | `WholeConsistDerails` | - |
| `FaultsAreInert` | `FaultIsInert`, which `crawl_fault` shows violated without the assumption | the stages after the crawl hooks can be installed |
| `OnlyLateStagesReviveCrawling` | `OnlyLateStagesRevive` | - |
| `StatusIsOfOneMoment` | `StatusOfOneMoment` | the stages after the crawl hooks can be installed |
| `TypeCorrect` (of `Walking`) | `TypeOK` | - |
| `WalkerDrawnInPlace` | `DrawnInPlace` | - |
| `MasksAreUndone` | `MasksUndone` | - |
| `DrivingIsBlocked` | `DrivingBlocked` | - |
| `PointerReturned` | `PointerComesBack` | - |
| `LightIsWalkings` | `LightFollowsWalking` | - |
| `ShownCameraIsLive` | `ShownCameraExists` | - |
| `OnlyTrainsStrandTheView` | `SelectionLeavesFPV`, which `walking_reject` refutes | the train does not change under the static view |
| `PanelTypeCorrect` | `PanelTypeOK`, part of `SetupTypeOK` | - |
| `SavedFormSettles` | `FormSettles` | - |
| `CoresOutliveApply` | `CoresKeptExactly`: exactly when `CoresKept`, which `setup_cores` refutes, holds | - |
| `HiddenChoicesKept` | `ChoicesKept` | - |
| `WrittenIsAccepted` | `RuntimeAccepts` | - |
| `DependentControlsFollow` | `DependentsFollow` | - |
| `SessionIsTyped` | `SessionTypeOK` | - |
| `CallsAreTransparent` | `CallsAsEver` | - |
| `CallsAreUndone` | `CallsUndone`, which says the same of the stacks of the code | - |
| `InputsAreOwn` | `OwnInputOnly` | - |
| `SignalsAreTold` | `NoticeDue` | - |
| `LogIsKept` | `LogKept` | - |
| `FramesArePaced` | `PacedApart` | - |
| `ClocksKeepTime` | `NoDrift` | - |
| `HooksWaitForTheScene` | `LoaderWaits` | - |
| `FramesAreRestored` | `FrameRestored` | - |
| `KeysAreReleased` | `KeysReleased` | - |

They hold for any number of settings, releases, threads, stages, hooks, claims, vehicles, cameras, trains,
actions and lights, displays and edits, threads, vehicles, signals, backups, records, clocks, steps, editors and keys, any reading
period, any bound and any selection of the session's parts, and for any set of faults but what the last column says.

*InstallTx.*  None of the properties is inductive.  `SafeInv` adds to `TypeOK` the bookkeeping of one
transaction: which record was read (`RecordIsDisks`), that an unchanged file still is the snapshotted one
(`SnapshotsHold`), that the rollback loop has restored the files above its index
(`RestoredSoFar`), that a folder exists wherever a file is written (`FolderHolds`) and that nothing
past the ownership check is foreign (`NoForeignTouched`).  `FullInv` adds what the checks established
(`GuardHolds`), how far an Apply or an Uninstall has come, and that the disk, or what a rollback
would go back to, is sound (`Settled`).  The key to `OnlyApplyStrands` is the second conjunct of
`RemoveSoFar`: at every moment of an Uninstall the record names the DLL that is there.  `KeepsPromise` maps
every step to one of `OwnedFiles` or to none: the last check finds the disk as snapshotted, so that a change
begins unseen; `FinalCheck` shows what an Apply or an Uninstall asked for; and a crash or a failed rollback shows
what `Midway` says a half-done change can have left, which `Hurt` allows.

*HookTx.*  `IInv` says that the plan being written is disjoint from the claims and from itself until it is
claimed (`PlanHolds`), that bytes that are patched are claimed or just written (`PatchesHold`), and
that threads are suspended only while a try holds them (`PeersHold`).  `WorldInv` adds what the peers do:
one that is suspended stands outside the plan (`EipsHold`), a stage that has written without missing anybody has
stopped the whole process (`WorldStops`), and what it has written is still there to be undone (`WrittenHolds`); with
them `OnlyMissedAreTorn` is inductive under every fault.  `NobodyIsTorn` adds that a stage misses nobody
(`AllHeld`) when no thread starts late and no list is cut: those are the only two causes of finding 2.  `StagesAppearAtOnce` maps every
step to one of `AtomicHooks` or to none: a byte that is written shows as clean until the claim (`Shown`),
because whoever could execute or compare it is suspended, as long as the stage has missed nobody; writing a hook and taking it back are unseen,
`ClaimAll` is the instant at which the whole stage shows, on clean bytes that nobody owns and in which no
thread stands, and `OutcomesHold` says that what is on lies behind the stage in hand.  `InstallerOnlyAdvances` is what
termination rests on: every step of the installing threads lowers `Ahead` (stages, tries, phases of a
try, threads or hooks of a phase), lexicographically, and nobody else changes it.  That a transaction that has begun always has a next step, and so
ends, is `TransactionsEnd`, left to TLC.

*CrawlFrame.*  `PressInv` carries `OnlyBlindFramesRepeat` from the key event to the derailment: a waiting
request is owed to a press or a blind frame, and a held key that the edge detector takes for released still has
one to its name.  It shows that finding 6 has no other cause.
`ConsistInv` says that the snapshot is the present consist when the derailment starts: the game cannot
change it while the frame runs.  `CalmInv` is the shape of the state outside of a fault and in one; it is
inductive only because no fault is recorded while a frame is at work, which is what `NextStage` breaks.
`OnlyLateStagesRevive` shows that finding 4 has no other cause: its inductive half, `Settled`, survives every
other step whatever the faults, and the worker does not come back to the stages.
`ReadInv` adds that what has been read so far is the present state, between two frames, as long as the
sequence number has not changed.

*Walking.*  `TypeOK` needs `PlaceInv`: `x` stays bounded because it always is where the walker stands,
relative to the origin walking knows.  `MaskInv` says that of every action that still is the one that was
masked the saved flag is the wanted one, and that every other action has the wanted flag, but for the lost
ones, which are disabled: the end of the input routine gives back what it reaches and loses the rest.  `PointerInv` separates the two pans by the camera: a pointer
hidden by walking means walking is active and, inside the camera routine, that the static view is shown,
in which nothing orbits.  `LampInv` is the two halves of `LightFollowsWalking` together: a reset releases every
light of walking's only because the reference is to the one there is.  `OnlyTrainsStrandTheView` shows that
finding 5 has no other cause: `ViewIsWalkings`, walking is active whenever the static view is shown, is
inductive as long as the train stays.

*Panel.*  `FormSettles` is that saving is a fixed point of the panel: shown again, what was saved is the form
that was saved, and Apply over it would write the same files.  `RoundTrip` is the heart of it: whatever the files
were, an option written by Apply comes back through the merge as it was, list by list; `SavedStep` says which
steps end with "Settings saved", `UiBoxes` what the panel puts right on the way, and `SavedSettings` that the
new form stands for the settings that were saved.  `CoresOutliveApply` draws the line around finding 3: the
preference survives exactly when another option has an effect, or nothing is installed.
`DependentsFollow` is inductive: `ClickFollows` shows that the handler of a box looks again at every control
that depends on a box it changes.

*Session.*  Each part has an invariant that its own steps keep; `PartsApart` says that a step of the session
is a step of a part or leaves its variables alone, so that the eight invariants hold together.  `Paired`
(in `CallsInv`) says that the entries of a thread's stack are, in this order, the native calls that will come
back through the gateway: it survives faults and ended activities because neither touches a stack.
`LeadsBack` says of a vehicle's rate that it is crawling's exactly while an entry has saved it, and that the first
such entry has saved the game's; with several drawing calls of one vehicle nested, the later ones have saved
crawling's, and put it back while the first is still there.  From both, `CallsAreTransparent` maps every step to
one of `NestedCalls` or to none: a leave returns from the innermost call (`LeavePairs`), whatever address the
gateway took from the stack, and after every step the rates are those the calls in progress were given
(`RatesFollow`).  `PitchesPushed` is what `OwnInputOnly` needs: while the gate is open every derivative that is past
its hook is on the stack, which holds because the flags open between two native calls only.
`SignalInv` adds to `NoticeDue` that the signals remembered are the signals passed.  `RotationHolds` (in
`LogInv`) says what a rotation has already moved out of the way of the file it is at; `RecordsYoung` that a
record waiting for its end is the youngest.  `PaceInv` says that the counter tells the real time since the
last frame unless it was set, from which `PacedApart` follows for waits of any length, and `ClockInv` that a rest which still belongs to its clock is exactly what the clock
is behind.  `GateHolds` (in `LoaderInv`) says that the scene has lasted at least as long as the worker has
counted, which needs that a scene that ended is polled before another begins.  `FrameHolds` follows the
launcher's frame through `base`, `saved` and the window while an editor has it.

**Only model-checked:** the liveness properties, which are out of the prover's reach.

## 5. Findings

1. An Apply that dies after `DINPUT.dll` is replaced and before `installation.json` is leaves NEMT's own
   DLL without a record that names it; Uninstall and Apply then refuse it (`setup_crash`).
2. A thread created after the thread snapshot is neither suspended nor compared with the plan
   (`hooks_late`).  A `Thread32Next` that fails has the same effect on the peers behind it (`hooks.h:104`);
   `hooks_late` leaves that out, so that its violation is the late thread's.
3. On a machine whose processor is not hybrid, Apply turns into an uninstall when no other option is on,
   and deletes `settings.ini` with the preference for fast cores (`setup_cores`); `docs/cpu-preference.md:21`
   says that Apply preserves it.
4. When the walking or the external-camera stage fails, the worker calls `fail()` without `state_lock` while
   the crawl hooks are live.  A frame between its check of `blocked` and `enabled=1` leaves the runtime
   blocked and enabled, with effects that go on with a consist nobody refreshes (`crawl_fault`);
   `tests/lifecycle.c:75` asserts that a fault leaves it blocked and not enabled.
5. When the player's train changes, walking ends without leaving the static view, and from then on
   `walking_activate_bridge` refuses every camera, because `walking_train` is 0 (`walking_reject`);
   `docs/walking.md` says that selections and automatic camera changes end free walking and that a rejected
   selection leaves it active.
6. A focused frame that does not see the derail key although it is held, because a modifier is down, the player
   walks or the bindings cannot be read, takes it for released (`crawl.c:75`).  The next key-down that the game reports
   for the held key derails (`crawl_repeat`); `docs/crawl-hud.md:37` says that the key does not repeat while held, and
   `docs/technical/physics.md:79` that holding it through loading cannot repeat it.  A key that is not reported
   again while it is held does not repeat; `crawl_derail_edge` and `tests/manual-derail.c:58` are there for one that is.

Seen while reading, and outside of what a model is needed for: `write_status` passes `pitch_calls` to a
format that has no place for it (`crawl.c:186`), so that the last three numbers of the status file are those of
the field before.

## 6. Plan

1. `InstallTx`, `OwnedFiles` - done, with the refinement as a theorem.
2. `HookTx`, `AtomicHooks` - done, with the refinement as a theorem.
3. `CrawlFrame`, `CrawlCalls`, `NestedCalls` - done, with the refinement as a theorem.  Their composition is left: a frame's flags in `CrawlCalls` are any flags.
4. `Loader`, `Signal`, `StartupLog`, `Timing`, `Editors`, `Session` - done.
5. `Walking`, `Flashlight` - done; the wheel and the tuning keys are left.
6. `Panel` - done.  `JsonRecord` is left: the record's parser as a pure function against a reference
   definition.

## 7. Not modelled

- The physics formulas, the walker's movement, the camera angles: floating-point formulas without state of
  their own.  What they feed into (a fault, a saved rate, a light) is modelled.
- The window, movie, audio and HUD features and the compatibility patches: each is one call into Win32 or one
  patch at the start.  Their hooks are stages of `HookTx`, and a failure to install one is a disjunct there.
- The percentages and texts of the loading screen, the diagnostics of deep logging, the drawing and layout of
  the panel and of the editors' windows, and the text of messages.
- The generated machine code of gates and trampolines beyond the order in which it reads the flags, the build
  tools, the legacy PowerShell installer and the vendored compiler, whose headers are most of the lines of the
  repository.
- Two writes of `walking_unmask` to what the game may have changed during its own input routine (a flag set by
  a masked action's handler, a device removed): the model assumes that the game does not do that.

What the properties leave open, each at its place above: a foreign DLL dropped in between the hash and the
replacement (`nemt.c:339`); a scene that follows another at the same address within one poll (`loader.c:88`);
signals after a scan that overflowed (`signal.h:34`); an editor whose size the renderer refused, or that is left
before its first frame (`editors.h:219`); and the log records that are not written at all after a refused rotation,
which `LogKept` does not count.
