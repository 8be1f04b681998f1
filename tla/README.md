# Verification of the watchy-neu firmware

TLA+ models of the parts of the firmware whose correctness depends on the order
in which things happen: what is written to flash before the power goes, which
task runs between two steps of another, what is left when a step fails. Each
module is translated from the C source; `PROJECT.json` maps every definition to
the lines it stands for. TLC checks the models on small instances, TLAPS proves
the theorems for every value of the constants.

    tlc -config PackageIndex.cfg MCPackageIndex.tla     # one run
    tlapm PackageRunnerProofs.tla                       # the proofs of a module

## 1. The system

An ESP32 watch with an e-paper panel, four buttons, an RTC, a vibration
motor and an accelerometer. Watchfaces and apps are *packages*: ELF code loaded
from flash and run natively on the main task, one at a time. The watch is in
deep sleep most of the time; a minute, a button or a movement wakes it through
a full boot, so RAM state is short-lived and the flash state is what persists.

Concurrency is small and sharp. One **main task** (`app_main`) runs the shell,
the packages and every driver call. Beside it run the **button interrupt and
producer task**, the **event task** that reports on Wi-Fi, and, while the
portal is open, the **HTTP server and DNS tasks**. The task watchdog resets the
watch when the main task does not come back. Any reset may strike anywhere.

### Components

| Component (source) | State it keeps | Operations | What is hard | Module |
|---|---|---|---|---|
| Package index (`package_state.c`) | installed packages, active / pending / prior face, health records; once in RAM, once as an NVS blob | init, select, promote, roll back, begin and finish an attempt, register, unregister, clear | saves that fail half-way, resets, every order of calls | `PackageIndex` |
| Runner and face selection (`idf_runtime.c`, `package_policy.c`, `watchface_action_policy.c`) | the resident run, the boot state | boot sequence, select, run, finalise, return to the face, purge | a reset between any two saves, a failed save inside the finalisation, the retry | `PackageRunner`, `FaceSelection` |
| Package storage (`package_install.c`, `factory_seed_policy.c`, `idf_runtime.c`) | package, staging, transaction and private state directories, seed files, marker | install, remove, reconcile, import, purge | a reset or failure between two effects on flash | `PackageStore` |
| Package session and app loop (`package_runtime.c`, `runtime.c`, `watchface_action_policy.c`) | EMPTY / LOADED / STARTED / STOPPED, image, host context, the task's operation | load, start, event, render, stop, unload, app loop | clean-up after a failure at each step, which of several ends comes first | `PackageSession` |
| Host requests (`host_caps.c`, `package_policy.c`) | two request slots, transition latch, exit and refresh wishes | submit, poll, cancel, pump, roll back at a deadline | a time-out racing an answer, a cancellation in the middle | `PackageSession` |
| Private package state (`host_caps.c`) | files of a package, temporaries, mutex | read, write, scrub | power loss inside a write, quota and node limits, leftovers | `PackageState`, `StateStore` |
| Radios (`radios.c`, `radios_policy.c`) | Wi-Fi and BLE state, resources held | start, stop, events | the event task racing a stop, each step failing | `Radios` |
| Portal (`portal_idf.c`, `portal_policy.c`, `captive_portal_idf.c`) | session, time limits, upload, DNS task | start, requests, poll, stop | server and DNS tasks racing stop and time-outs | `PortalSession` |
| Settings, zone, time (`settings_idf.c`, `timezone_action_policy.c`, `time_sync_*.c`, `portal_policy.c`) | settings in RAM and in nine NVS keys, stored offset | load, save, change a zone with rollback, manual and network time | saves that stop half-way, copies that are behind, rollback from a stale time | `SettingsClock` |
| RTC and calendar (`rtc.c`, `rtc_calendar.c`) | chip registers, offset | convert, set, read | century, decimals, offsets across day, month and leap day | `Calendar`, `SettingsClock` |
| Button service (`buttons.c`, `buttons_policy.c`) | debounce filter, event queue, overflow latch, run/park flags | interrupt, producer rounds, init, resume, quiesce, deinit, take | four parties, one mutex, a critical section and a handshake | `ButtonService` |
| Sleep handoff (`power.c`, `power_policy.c`, loop of `main.c`) | stage of the loop, wake-source samples | prepare, quiesce, veto, restore, enter, wake | a press at every point of the way into sleep | `SleepHandoff` |
| Presentation (`display.c`, `display_policy.c`, `transition_*.c`, `watchdog.c`, `shell_policy.c`) | retained frame and refresh count (RTC memory), cancel mask, watchdog membership, presentation record | present, write, cancel, recover, refresh the shell, run a face | failed transfers, cancellations, starved watchdog, resets, nested scopes | `DisplayPresent` |
| Shell and main loop (`shell_policy.c`, `main.c`) | screen stack, selection, window, requested action, deferred boot work | press, idleness, actions, portal end, sleep | catalog and settings changing or failing under a screen, every order of screens | `ShellNavigation` |
| Package format and validation, ELF check, SHA-256 | none | parse, verify | pure functions of a byte string | not modelled |
| Compositor, framebuffer, rendering | pixels | draw | none that time or failure touches | not modelled |
| Battery, haptics, motion, buses, storage mount, diagnostics | ready flags | thin driver calls | none beyond hardware | not modelled |
| SDK, first-party faces, workstation tools | none on the watch | | | not modelled |

Components interact by calls on the main task, except at these places: the
producer and the main task share the button queue, filter and flags; the event
task writes the Wi-Fi state the main task starts and stops; the HTTP and DNS
tasks share the session, the upload and a static packet buffer with the main
task that stops them; a presentation takes events from the button queue to
cancel itself and gives them to the shell through a mask; the runner, the
presentation and the watchdog share the task's watchdog membership; and
everything persistent meets in flash, where the index says which directories are
served and three writers (menu, portal, return from sleep) save the same keys.

### What makes each part correct

* The index can always be loaded again; a package gets at most three starts
  without a clean stop; quarantine lasts as long as the package.
* A newly chosen face replaces the prior one only after its frame was on the
  panel, and a face that takes the watch down is not run again by itself.
* Whatever is served is whole; nothing of a removed package is inherited; the
  factory import loses nothing and ends only when it is complete.
* A package is told its life in order and to the end; when it has ended nothing
  of it is left in the host, in its requests or on the radios.
* A write of package state is seen whole or not at all, and within its quota.
* A radio that says STOPPED holds nothing; a portal session ends and takes its
  tasks, buffers, credential and radio with it.
* Nothing is stored in the settings that nobody asked for; the zone of the
  settings is the zone of the clock; a time that was set is the time read.
* A press is heard once, and is either delivered or reported as overflow; deep
  sleep is not entered with a captured press.
* What the driver thinks the panel shows is what it shows; a press that cancels
  a presentation reaches the shell; the watch sleeps on the screen it believes in.
* The selection is on a visible row, Back goes the way that was come, and no
  package runs before the boot work that was put off.

The `hazards` of `PROJECT.json` list, with their lines, the places where each of
these could go wrong and the properties that watch them.

## 2. Modules

    PackageIndex <--- PackageRunner ---- implements ---> FaceSelection
    PackageState ---- implements ---> StateStore
    Radios <--- PackageSession          Radios <--- PortalSession
    ButtonService <--- SleepHandoff     Calendar <--- SettingsClock
    PackageStore      DisplayPresent      ShellNavigation

    RadiosProofs <--- PackageSessionProofs     RadiosProofs <--- PortalSessionProofs
    PackageRunnerProofs   PackageStoreProofs     SettingsClockProofs
    SleepHandoffProofs    ShellNavigationProofs

An arrow points to the module that is extended. `MCx` instantiates module `x`
for TLC; the `.cfg` gives the constants their values. `xProofs` extends `x` and
holds its theorems, and those of the modules `x` extends. Two modules of proofs
hold those of a second component beside the first: `PackageStoreProofs` those of
`PackageState`, `SettingsClockProofs` those of `DisplayPresent`. Each extends both
models, so the two share no name: the specifications of the second ones are
`StateSpec` and `DisplaySpec`. A definition whose comment
starts with "Mutant:" is a bug the module could have; it is used by no
specification and shows that a property would notice.

### PackageIndex

`ram` is `manager->index`, `nvs` the stored blob, `ready` the initialised flag.
The C record's arrays are sets and functions over references, because nothing
depends on the order of their entries. `Valid` is `persisted_index_valid`,
conjunct by conjunct. Every mutation has an operator for the next index
(`Selected`, `Begun`, ...) and an action that commits it: `CommitOk` when the
store reports success, `CommitFails` when it reports failure, in which case the
blob may or may not have been written (`idf_index_save` calls `nvs_set_blob`
and then `nvs_commit`, either of which can fail). The client makes calls in any
order. `unclean` is a history variable: starts granted since the last clean
stop, which is not stored anywhere in the firmware.

### PackageRunner and FaceSelection

The order in which the firmware uses the index: `pc` is where the main task is,
from `off` through the boot calls (import, recovery of a stale pending face,
catalog) to `idle`, and from `start` through one attempt: `loading`, `active`,
`finish`, `promote` or `rollback`, `back`. Between any two of these, hence
between any two saves, `Reset` may strike. Inside an attempt the package's
callbacks choose their outcome: go on, ask to leave, fail, be cancelled. A button
wake is `deferred`: the boot calls wait until a package is wanted (`BootWanted`),
and the portal may install, remove and choose packages before. A safe-mode boot,
asked for by the chord of buttons or by the flag a chord has latched, reads the
catalog only. `plan`
says why the face runs (`home` is the return to the watchface, which may try
once `again`). Every step that changes the index is an action of `PackageIndex`.

`FaceSelection` is the promise with no trace of flash or health: choose, show,
accept, reject. `PromiseKept` is its specification under the mapping: the face
is `ram.active` while the watch is up and `nvs.active` while it is off. Its
`shown` is the runner's history variable of the same name.

### PackageStore

One step per effect on flash: staging, transaction directory, rename, commit of
the index, clean-up; index first and files later in a removal; walk, drop and
sweep in the reconciliation; install, unlink, marker in the import. A directory
is absent, partial or sound; the state directory of an identifier is shared by
its versions. The package mutex makes one operation run at a time, so `at` is
one program counter. `PackageIndex` is not reused here: of the index only the
set of installed packages matters, and the two models meet in the pair
(`Register`, `RegisterInstalled`) and (`Remove`, `Unregister`). What the portal
does before the import of a boot that was put off is explored in `PackageRunner`
only: here the import comes first.

### Radios

`wifi` and `ble` are the state variables of `radios.c`, `held` the resources a
start has acquired, `call` the start or stop the main task is in. A start takes
its parts one by one and stops the radio when one of them fails; a step of a
stop that fails keeps its part, the stop goes on with the others and the radio
does not become STOPPED. `wifi_event` is two steps, the look at the state
(`Event`) and the write (`EventWrites`), so its late write may overwrite the
STOPPING of a stop that began in between. BLE advertising is left out: nothing
in the firmware calls it.

### PackageSession

The one resident package: `task` is the place of the main task in the runner
(open, load, start, event, render, stop, unload, close, finish), `sess` the
session, `slots` the two radio requests, `host` what the package asked for.
A callback makes any host call any number of times (`MaxCalls` bounds all of
them together) and returns good or bad; too slow, a bad canvas and an error are
all bad. The pump behind a callback executes one request, observes it and rolls
it back after its deadline; the radio steps are those of `Radios`. Two callers
run it: the cycle of a face and the loop of an app, which ends by Back, idleness,
overflow, a failure or the package's own wish. A failure goes the way the code
goes: what was loaded is unloaded, what was not is not, and an image that
`dlclose` refuses poisons the session, which is then never entered again.
Session and owner identifiers are abstracted to "mine or not mine"; what the
attempt does to the index is `PackageRunner`'s.

### PackageState and StateStore

`host_storage_write` one file operation at a time: take the lock, check quota
and nodes, make the parent directories, create a temporary, write (any part of
it), sync, rename. Each operation may fail, and after each of them the power may
go (`PowerLoss`); a temporary that could not be unlinked is `kept`. A node is
absent, a directory or a file, so that a path may be in the way of another:
directories a failed write has made stay and count as nodes, and `parent_mkdirs`
takes a file for an existing directory, after which the rename fails. `Reconcile`
and `Open` are the two scrubbings. `StateStore` is the promise of
`docs/sdk.md:197`: a map from paths to contents that one write changes at a time
and that never exceeds its quota. `WritesAtomic` is that specification under the
mapping "what a reader would find".

### PortalSession

`pc` is the main task in start, poll and stop of the portal; `httpd` and
`handler` the server's task with the request it serves; `dns`, `dnsTask` the DNS
task and its handshake; `session` the record of `portal_policy.c`. The network
is the watch's own (AP) or a known one, whose start waits for the connection.
Requests arrive at any time, authenticated or not; an upload comes in pieces and
may be aborted, finished or overtaken by the stop; a request to set the time over
the network waits for the server, or is refused before. Each step of start and stop
may fail; the failed start takes down what it had put up. Time counts units in
which the idle and the absolute limit are 2 and 3.

### Calendar and SettingsClock

`Calendar` translates `rtc_calendar.c`: civil time to and from minutes, and the
register coding of the chip, as operators without recursion. `SettingsClock`
keeps the stored keys (`nvs`), main's copy, the offset the RTC service stored
and the one it converts with, and the chip's registers. A save writes key after
key and may stop after any; a zone is saved after the RTC offset and rolled back
when the save fails; the watch may be reset between two writes. Beside the menu
act the portal's handlers, which read, patch and save a copy of their own, and
remove packages, after which the active face is another; the exit of the portal
reads the settings back or fails to. The chip or the stored offset may be
unreadable at a boot, and then stay so until a time is set. `wish` is a history
variable: for each key the values somebody asked for since the last one was
stored.

### ShellNavigation

The whole shell as a pass of `run_shell`: a press or idleness, the catalog when
it is wanted, the input, the action it requests, the presentation, and around it
the boot with its deferred work and the way to sleep. `shell` is the record of
`shell_policy.c` (screen, stack, selection, window, safe mode, editing), `panel`
what is shown. What a service answers (catalog, settings, package, portal) is a
choice, so every outcome of every action meets every screen. A merged mask of
several buttons is read in the order Menu, Back, Up, Down as the code does.

### ButtonService and SleepHandoff

`ButtonService` has the pins and their interrupt (`Edge`), the tick, the
producer task step by step (`producer` is its program counter) and the steps of
the application's calls (`api`). Flags are written in a critical section, hence
in one step; sampling and publishing happen under `mutex`; the filter is also
reset by `start_event_service` and read by the producer without it, and it is
the parking handshake that keeps those apart. `hold` and `released` are history
variables that follow one hold of each button.

`SleepHandoff` extends it and replaces the free client by the loop of
`app_main`: boot, shell, preparation, the wait for quiet wake sources, the
quiescence, the veto and the restoration, sleep and wake. The main task is one
thread, so an application step is taken only when no button call is in progress.
Waking is booting: everything but the pins is reset.

### DisplayPresent

`at` is the step of `watchy_display_present`: a plan is made (`Begin`), each
physical write succeeds or fails, the watchdog is fed, a press may cancel, and
`End` restores the watchdog membership and reports. `turn` is the caller: the
shell's `refresh_shell` with its recovery screen, or a face with the refreshes
it asks for. The retained frame and its count survive sleep; a reset
invalidates them and may cut a transfer short. A complete screen is a member of
`Frames`, an intermediate one `Mixed`, a panel after a failed transfer
`Unknown`. A press that cancelled the face of a returning shell is lost when the
catalog or the settings then fail; the model shows that and `PressHandled`
excepts it.

## 3. Runs

| Run | Checks | Shows | States |
|---|---|---|---|
| `package_index` | `MutationsValid`, `StartsBounded`, `QuarantineDurable` | the index under every order of calls, failed saves and restarts | 15 thousand |
| `package_runner` | `NoSecondProbation`, `NoHastyQuarantine`, `PromiseKept`, `AttemptEnds` | attempts with a reset or failed save at any point; refinement of `FaceSelection`; every face attempt gives control back | 620 thousand |
| `package_store` | `PackagesWhole`, `NoInheritedState`, `SeedsAdopted`, `OperationsEnd` | storage under resets and failures; every operation ends | 830 thousand |
| `package_session` | `LifecyclePaired`, `NothingResident`, `EndedMeansOff`, `ComesBack` | faces and apps with faulty callbacks, requests, radios and images; the watch always comes back | 1.4 million |
| `package_state` | `AnswersTrue`, `LeftoversAccounted`, `WritesAtomic` | reads and writes of package state with failures and power loss; refinement of `StateStore` | 160 thousand |
| `portal_session` | `NothingLeftBehind`, `RadioTruthful`, `SessionEnds` | portal sessions against clients, DNS, radio events and a failing step | 430 thousand |
| `settings_clock` | `StoredAsAsked`, `ZoneAgrees`, `SetIsRead` | menu, portal and network time over the same keys and chip, with a fault and resets | 2.2 million |
| `shell_navigation` | `SelectionVisible`, `HistoryIsPath`, `SleepShowsScreen`, `NoPackageBeforeRecovery` | every screen with every press, outcome and change of the catalog | 280 thousand |
| `button_service` | `NothingLostSilently`, `ProducerAtRest`, `OneEventPerHold`, `PressHeard`, `CallsReturn` | the service under a client that makes its calls in any order | 550 thousand |
| `sleep_handoff` | `ShellIsWhole`, `SleepLosesNothing`, `InputIsHandled` | presses at every stage of the way into sleep and back | 630 thousand |
| `display_present` | `RetainedTruthful`, `WatchdogBalanced`, `GhostingBounded`, `PressHandled` | one screen through every failure, cancellation, reset and sleep | 620 thousand |
| `shell_stuck_awake` | `StuckOnlyUnshown`, violated | see below | |

A property names the code it is about in the comment above it. Every one of a passing
run has a mutant in `PROJECT.json`: a plausible bug in a mapped definition that makes TLC
find the property violated in the same run.

### The disagreement a run shows

`shell_stuck_awake`: a press that cancels the presentation of the selector sets
`sleep_deferred` in the presentation record (`shell_policy.c:565`). When that
press selects a face and the face renders, `main.c:840` goes on without
presenting anything, nobody clears the flag, and when the shell is done
`app_main` stays awake with "display target not presented" (`main.c:1142`),
although the selected face is on the panel. The input-event design
(`docs/superpowers/specs/2026-09-04-rtos-input-events-design.md:120`) says a
selection forces a full refresh and "returns directly to the selected face".

### Divergences that no run checks

Met while modelling, in the models as the code has them; the properties are
stated so that they hold beside them.

* `README.md:221` says that the portal activates watchfaces. A button wake puts the
  package boot off (`main.c:997`), and the portal can be reached without it. A face
  activated then is pending; when the catalog is wanted afterwards, the boot
  recovers stale pending faces first (`watchface_action_policy.c:162`) and rolls it
  back, though it was chosen a moment ago and never ran.
* The portal's design
  (`docs/superpowers/specs/2026-09-04-portal-settings-and-submenu-scrolling-design.md:164`)
  says that a saved network survives the exit. When the settings cannot be read
  back there, the copy from before the session stays, and is saved over the new
  network: at once if its face is not the active one
  (`watchface_action_policy.c:240`), for instance because the portal removed that
  face, otherwise with the next save from the watch. `StoredAsAsked` counts the old
  copy as asked for.
* The same design, line 57, says that after a write that failed "the other value is
  rolled back and the prior zone remains effective". The zone is the first of nine
  keys a save writes, so a save that fails later leaves the new zone over the prior
  offset (`settings_idf.c:89`); and the offset set back is that of the time read
  last, which is zero for the time made up when the chip cannot be read
  (`timezone_action_policy.c:37`, `main.c:1012`). `ZoneAgrees` excepts what
  follows a fault.
* A save of the credentials that stops after the name leaves the new network with
  the old password, which a load takes for a pair.
* A change of the zone that was stored is reported as failed when the clock cannot
  be read afterwards (`timezone_action_policy.c:45`).
* The comment at `watchface_action_policy.c:417` says the failed candidate was
  rolled back before the retry. One that `begin_attempt` refuses because its
  three attempts are used up is quarantined and not rolled back, and the retry
  runs into the same refusal.
* `docs/package-format.md:51` says interrupted import resumes safely. A seed
  package that was installed and removed before the marker was written has
  neither file nor entry, and the import fails at it on every later boot.
* The input-event design asks that every deliberate press register. A second
  button pressed while a first one vetoes the sleep becomes part of the baseline
  of the restarted filter; it is not reported.
* The press that cancelled the face of a returning shell is dropped when the
  catalog or the settings fail right after it (`main.c`, return from a face).
* `docs/sdk.md:51-54` says radio requests fail on the bounded host deadline. They
  are pumped after callbacks only; the request of a package the loop does not
  call stays pending past it.
* After the stored zone and the RTC offset have parted, saving the zone that
  is stored already changes nothing, so only a change to another offset repairs.
* A stop of the portal that finds an upload does not end its handler before the
  server's own stop; the upload goes on meanwhile, past the session's limit.
* Back out of the manual time screen saves the time that was read when it was
  entered (`main.c:724`), minutes later or not.
* A state directory with more than 32 entries shuts its package out
  (`host_caps.c:174`), and `on_stop` is not called for a package that was
  started over its budget, though `docs/sdk.md:36` pairs them.
* When several buttons cancel a presentation the mask keeps one press of each
  and Menu wins; an `editing` left by idleness survives on the manual time screen;
  a failure to read the settings on a minute wake whose face rendered is not shown.
* After a cold boot with an invalid clock the root of the stack is Settings, not
  the watchface. A portal that times out before the boot work that was put off
  draws the built-in face although a package face is active.

### Bounds, and why they are enough

* `PackageIndex`: three packages for two places in index and health table, so
  both fill up and a removal makes room. The theorems lift all three bounds.
  Symmetry over packages is used here only; the run has no liveness property.
* `PackageRunner`: two packages. A candidate concerns two faces, itself and the
  one it would replace; a third adds no pair. Attempts are bounded by the code.
* `PackageStore`: two versions of one identifier and a second identifier, which
  is the least for "last version" and for a shared state directory; a factory
  catalog of two, the least with an entry before and after another (the
  firmware's has eight).
* `PackageSession`: two packages one after the other (`MaxRuns`), so what the
  first leaves meets the second; two host calls in all (`MaxCalls`), enough for
  start and cancel or for both radios; one press, one faulty radio step;
  `RequestTimeout` 1 and `IdleTimeout` 2 ticks, so a request runs out before or
  with the loop. Failures of callbacks and of the image are not bounded.
* `PackageState`: two paths at the root, one of which is also the directory of
  two more; an empty, a short (1) and a long (3) content with a quota of 4, so
  that two long files never fit and a replacement does; four nodes at most; two
  temporaries, one left over and one in use. Failures and power losses are not
  bounded. The theorems lift all of it.
* `PortalSession`: idle limit 2, absolute limit 3, so either may end the session;
  uploads of two pieces, for a stop between them; two sessions, so the second
  starts on what the first left; five units of time; one step that fails.
* `SettingsClock`: offsets 0 and +14:00 (`840` minutes), far enough apart to change
  the day; one zone that is not a fixed offset; instants on the leap day and at
  a month's end, an entry at the turn of a century and one that is no date; four
  operations, one fault and one edit, which is what a partial save, the exit of
  the portal and the save over it need. Time is in minutes: what a person sets has
  no seconds, and seconds of the year 2099 are beyond TLC's integers.
* `ShellNavigation`: an empty catalog, one with three faces of which one is
  quarantined, one with four apps, so lists are shorter and longer than the window
  of three and shrink and grow under a selection; four zones and
  four diagnostic rows, one more than the window; masks of one button. There is
  no bound on presses: the screens are finite.
* `ButtonService`, `SleepHandoff`: two buttons, since interference is between
  one and another; `QueueMax` 1 makes overflow common (the code's queue is
  longer); `Debounce` 2 ticks in the service gives the states "pending",
  "almost settled" and "settled", and 1 in the handoff; `EdgesMax` bounds the
  level changes: 3 in the service, 4 in the handoff, where two full presses
  (one in the queue, one that overflows it) have to be over before the wake
  sources are quiet and sleep is refused for the latch alone. The bound stops
  only the pins: service and loop go on.
* `DisplayPresent`: two frames, one button, one queued event. Limits 2 and 4: 2
  promotes the second partial refresh, 4 lets a plan of three writes reach the
  limit on its way; the limit may change between screens.

`CHECK_DEADLOCK FALSE` where the modelled system may rest: a stopped button
service or a watch that failed closed with its edges used up, a watch that
remains awake, and sessions and settings whose bounds are used up.

### Fairness

* `PackageRunner!FairRunnerSpec`: weak fairness of the steps of an attempt. They
  are straight code of the main task; a callback that never returns is ended by
  the watchdog, which is `Reset`. None for the user, the boot or a reset.
* `PackageStore!FairSpec`: weak fairness of the steps of an operation in
  progress, which hold the package mutex and wait for nobody. A failed boot
  need not be retried and nobody needs to start an operation.
* `PackageSession!FairSpec`: weak fairness of the main task or the clock (a
  callback returns or the watchdog resets the watch, which ends the run too) and
  of the event task's write; strong fairness of the steps of a radio call, which
  events may interrupt but not for ever, since the event loop gives its mutex
  away between two events. None for presses and host calls.
* `PortalSession!FairSpec`: weak fairness of the main task, the server's current
  request, the DNS task (its socket has a time-out), the clock and the event
  task; strong fairness of the server's stop, which looks at its control socket
  between two requests, and of radio calls as above. None for clients.
* `ButtonService!FairSpec`: the producer task is created with the main task's
  priority (`buttons.c:306`) and the scheduler time-slices equals; the tick does
  not stop; a call that was made runs on. Nothing is assumed of the pins or of
  the client.
* `SleepHandoff!HandoffFairSpec`: the same, and the main task. The wait for quiet
  wake sources has a deadline, so it ends although a button is held for ever. The
  presses in the shell, its idleness and its failure are fair separately,
  because the code looks at them in that order.
* `DisplayPresent!DisplayFairSpec`: weak fairness of the main task; `wait_ready` has a
  deadline, so a transfer ends, well or badly.

The other runs have no liveness property and no fairness.

## 4. Proofs

The proofs are in modules of their own (section 2). They are of the same
specifications TLC checks, for every value of the constants: any set of
packages, buttons, screens or paths, any capacity, queue length, time-out or
number of faults. Each rests on an inductive invariant, which TLC checked first.
The comment above a theorem names the code it is about.

Assumptions on constants are the named `ASSUME`s of the modules and nothing else:
sizes and time-outs are positive numbers, sentinels are not among the real
values, for the index `InstalledMax <= HealthMax` (both are 16,
`packages.h:53-54`), the idle limit of the portal is below the absolute one, there
are finitely many paths and names of temporaries (they are bounded strings), the
directories above a path are those of a tree, instants are integers and offsets
those the code offers, and the active face of a catalog is one of its faces and
not quarantined.

| Module | Theorem | States |
|---|---|---|
| `PackageRunnerProofs` | `IndexInvariant` | `Spec => []IndexInv` |
| | `MutationsAlwaysValid` | `MutationsValid`: `commit_index` refuses no mutation for its content |
| | `HealthSlotAlwaysFree` | `begin_attempt` never answers `ERR_LIMIT` for an installed package |
| | `StartsAlwaysBounded` | `StartsBounded`: at most three starts without a clean stop |
| | `StoreAlwaysLoadable` | the stored blob passes the check of the next boot |
| | `QuarantineSurvives` | `QuarantineDurable`: a quarantine is lost only with its package |
| | `OnlyPendingBecomesActive` | only the pending or built-in face replaces the active one |
| | `RunnerInvariant` | `RunnerSpec => []RunnerInv` |
| | `RunnerUsesIndex` | the runner's steps are the index's: all of the above holds of the firmware |
| | `PromiseAlwaysKept` | `PromiseKept`: the runner implements `FaceSelection` |
| | `NeverASecondProbation` | `NoSecondProbation` |
| | `NeverAHastyQuarantine` | `NoHastyQuarantine` |
| `PackageStoreProofs` | `StoreInvariant` | `Spec => []IInv` |
| | `PackagesAlwaysWhole` | `PackagesWhole`: what is served is whole |
| | `SeedsAlwaysAdopted` | `SeedsAdopted`: a seed file goes and the marker comes only after adoption |
| | `NothingInherited` | `NoInheritedState` |
| | `CallInvariant` | private state of packages: `StateSpec => []StateInv` |
| | `AnswersAlwaysTrue` | `AnswersTrue`: what a call answers is what is on flash |
| | `LeftoversAlwaysAccounted` | `LeftoversAccounted`: between two calls no temporary but those that could not be unlinked |
| | `WritesAlwaysAtomic` | `WritesAtomic`: the calls implement `StateStore` |
| `RadiosProofs` | `RadiosInit`, `CallStepEffects` | the invariant of the radios, and what a caller may rely on at each step of its call |
| `PackageSessionProofs` | `SessionInvariant` | `Spec => []SessionInv` |
| | `LifecycleAlwaysPaired` | `LifecyclePaired` |
| | `NothingEverResident` | `NothingResident` |
| | `EndedAlwaysMeansOff` | `EndedMeansOff` |
| `PortalSessionProofs` | `PortalInvariant` | `Spec => []PortalInv` |
| | `NothingEverLeftBehind` | `NothingLeftBehind` |
| | `RadioAlwaysTruthful` | `RadioTruthful` |
| `SleepHandoffProofs` | `ServiceInvariant` | the button service under any client: `Spec => []ServiceInv` |
| | `NothingEverLostSilently` | `NothingLostSilently` |
| | `ProducerAlwaysAtRest` | `ProducerAtRest` |
| | `AlwaysOneEventPerHold` | `OneEventPerHold` |
| | `HandoffInvariant` | the service under the main loop: `HandoffSpec => []HandoffInv` |
| | `ShellAlwaysWhole` | `ShellIsWhole` |
| | `SleepNeverLoses` | `SleepLosesNothing` |
| `ShellNavigationProofs` | `NavInvariant` | `Spec => []NavInv` |
| | `SelectionAlwaysVisible` | `SelectionVisible`: on this screen and on every one Back returns to |
| | `HistoryAlwaysPath` | `HistoryIsPath`: a path of the menu, never cut by its bound |
| | `SleepAlwaysShowsScreen` | `SleepShowsScreen` |
| | `RecoveredBeforePackages` | `NoPackageBeforeRecovery` |
| `SettingsClockProofs` | `SettingsInvariant` | `Spec => []SettingsInv` |
| | `StoredAlwaysAsAsked` | `StoredAsAsked`: each stored key, by itself, has a value that was asked for |
| | `CopiesAlwaysSavable` | `CopiesSavable`: what is saved next is a network with its password, or none |
| | `ZoneAlwaysAgrees` | `ZoneAgrees` |
| | `SetAlwaysRead` | `SetIsRead`, for every instant and offset |
| | `DisplayInvariant` | the presentation: `DisplaySpec => []DisplayInv` |
| | `RetainedAlwaysTruthful` | `RetainedTruthful` |
| | `WatchdogAlwaysBalanced` | `WatchdogBalanced` |
| | `GhostingAlwaysBounded` | `GhostingBounded` |

### Why the invariants are what they are

**Index.** `Valid(ram)` and `Valid(nvs)` alone are not enough: after a save that
failed but was written, RAM and flash differ, and a reset makes flash the truth.
`StoreLoadable` says the same of the blob as of RAM. `StartsRecorded` says that
neither copy remembers fewer starts than were granted; it is kept because an
attempt starts only after the save with its count reported success, and a clean
stop forgives in both copies or in none that matters. `QuarantineStored` says
that a quarantine RAM answers with is already in flash, or its package is gone
from there. Lemmas show that each mutation maps valid indices to valid ones and
how cardinalities change when one package comes or goes; a save that fails is
treated once for all mutations. `QuarantineSurvives` and
`OnlyPendingBecomesActive` are action properties, proved by the same case split.

**Runner.** Each of its steps is a step of `PackageIndex` or leaves the index
alone (`RunnerStepsIndex`), so `IndexInv` carries over. Added is what the task
knows in an attempt (`AttemptSound`), that a boot that went well left no
candidate but one chosen since (`BootSound`), and `StoreAhead`: the face in
flash is that in RAM, or the built-in one, or the candidate that was shown. A
reset makes flash the face, so `StoreAhead` is what makes a reset a step of
`FaceSelection`. `NoHastyQuarantine` needs exact counts, which hold only until
a save fails (`CountsExact`); that is its premise in the property too.

**Storage.** What is served was made whole many steps before it was registered,
so `WorkSound` says at each step of an operation what it knows of the package it
works on: one being installed is not served yet, one to be registered is sound,
one whose files go is no longer served. `ServedWhole` and `SeedsServed` also say
it of `nvs`, since a boot serves what is there. `StaleOwnerless` says that until
a file operation fails, private data without an owner lives only inside the
removal that made it so.

**Package state.** Neither of the two invariants is inductive: an answer is about the file at
the entry of the call, and a temporary belongs to a call only between its
creation and its rename. `CallSound` says what a call in progress may rely on: its
session is open, its file still has the value it had on entry, and before the
sync all of the content is in the temporary. `TempsOwned` says that every
temporary of an open session is kept or owned by the writing call.

That the calls implement `StateStore` needs `AtomicInv`: from the check to the
rename the call has room for its content (`Room`), because under the lock the
other files stay as they were measured and a directory made meanwhile is no file
(`StoredKept`). The check adds up the other files and the temporaries, the store
promises a bound on the files with the new one; that the first sum bounds the
second is an induction over finite sets. The library's induction theorems take an
operator, which the provers cannot instantiate; that the subsets of a finite set
are well-founded can be cited, though, and `SmallestSubset` makes of it the step by
which `SumsExist`, `TotalNat` and `TotalAdd` (a sum may be taken in any order) are
proved.

**Radios.** A start holds exactly the resources it has passed (`StartSound`), a
stop without a fault none that it has passed (`StopSound`). The late write of
the event task is harmless because there is one only while a handler is
registered, and giving a handler back waits for it (`EventHeld`): a radio that
is down stays down until it is started. `CallStepEffects` packs this for
modules that make the calls; the induction is theirs, because the calls are
steps of their tasks.

**Package session.** The place of the task determines what the package was told,
whether its image is mapped and whether the host is ready: `InRun`, `InLoad` and
`OutOfRun` are the three regions, and a task that waits for a cancelled request
counts as where it comes back to (`Place`). Whether the radios are down when the
host goes is known only from the answers of the two stops of its clean-up, so
`StopsDone` keeps them until `HostSound` needs them. `EndedDown` uses
`StationOnly`: a request that failed in an access point would not have its radio
down, but a package can only ask for a station.

**Portal.** What a session leaves behind is decided stage by stage: `ServerSound`
says at which stages a server that was not lost may run, and that the record
names it from its start to its stop, without which `watchy_portal_stop` would
not find it; a request exists only in a running server, an upload only in a
request. `DnsSound` says the same of the DNS task's static storage. `RadioDown`
needs `CallSound`: that the start of the network answers failure only after a
step failed, because a failed start is followed by no stop.

**Buttons and sleep.** `ParkSound` and `CallSound` are the parking handshake
spelled out: who may be where while the service does not run. With it the filter
and the queue have one writer at a time, which `EventsKept` and `FilterSound`
need. The main loop's steps are steps of the service under a client
(`HandoffStepsService`), but for the entry into deep sleep, which starts
it afresh; so the same invariant serves both specifications. `LoopSound` adds
which stages of the loop may find the service stopped and that the pins are
armed with an empty queue; `SleepLosesNothing` is then a case split.

**Presentation.** `RetainedTruthful` is kept by every write only together with
the bookkeeping of the count (`CountTruthful`), which is what bounds the partial
refreshes: the driver decides by its own count, the property speaks of the
panel. `ScopeSound` says that inside a presentation the task is enrolled and
owns the membership exactly when there was none before.

**Shell.** What Back returns to was left long before, so an invariant of the
screen in view is not enough: `FramesSound` says of every frame of the stack that
its selection and window fit the list it shows, that it follows from the frame
below it, and that it stands no deeper than the `Level` of its screen. `Level`
bounds the stack: no chain of screens is longer than the four frames there are,
so none is dropped. A list may change under a frame only through a new catalog;
that this happens on screens that list none, or is followed by the repair of the
window, needs `QueueSound` (which screen an action that is under way was asked
from), `PortalSound` and `BootSound`. `ShownSound` relates panel and screen at the
places from which sleep is reached. The catalog that could not be read counts as
one more catalog throughout.

**Settings and zone.** A save writes key by key, so what it leaves when it stops
is any mixture of two sets: `Kept` is what a mixture of two sound sets is worth
(every key asked for, but perhaps a password without its network), `Meant`
what a load makes of it and what a copy must be. So the store itself need not hold
a pair, and `StoredAsAsked` does not say so; that every copy saved next holds one
is `CopiesSavable`, which is proved and in no run. `CopySound` says it of the copies
of the main task and of the change under way, where each is saved next, because a
copy only has to be as new as what it will overwrite. `ZoneSound` is `ZoneAgrees`
where no change is under way; during one, `SaveSound` says the offset is already
that of the zone to be stored, and `RollbackSound` that a rollback comes after a
fault only, since it may itself fail.

**Calendar.** `SetIsRead` is arithmetic, not induction. `DateOfDay` and
`DayOfDate` show that days and dates are each other's inverse, by splitting a day
number into era (400 years), year of era, day of year and month, each a division
with its bounds; `FromUnixSound` and `ToUnixSound` add hours and minutes;
`EncodeSound` and `DecodeSound` the decimals and the century bit; `SetAndRead`
puts them together with the offset. `AdjustSound` shows that every step of the
editor yields a date with its own weekday, which the conversion relies on.

### What is only model-checked

* Liveness (`AttemptEnds`, `OperationsEnd`, `ComesBack`, `SessionEnds`,
  `PressHeard`, `CallsReturn`, `InputIsHandled`, `PressHandled`): the prover
  handles neither fairness nor ENABLED.

Every other property of a passing run is a theorem: each invariant, each action
property and both refinements. No module declares a RECURSIVE operator.

## 5. What is abstracted, and what is not modelled

* Strings, layouts and hashes: a reference is a model value; the blob's wire
  format, the manifest and the ELF are "sound" or not.
* The storage behind the index is a store that may fail with either outcome. A
  torn blob is not modelled: NVS is taken to replace a blob, and a settings key,
  whole or not at all.
* `PackageStore` and `PackageState` take a rename for atomic, as LittleFS
  documents it; the code relies on that.
* `PackageState` leaves out argument checks and assets, which never change.
* `PackageSession`: session and owner identifiers, budgets in milliseconds; a
  callback is short beside a tick. The read-only host capabilities (clock,
  battery, motion, canvas) change no state and are left out.
* `PortalSession`: the content of requests, pages and DNS packets. What an upload
  or a removal does to packages is in `PackageStore` and `PackageRunner`, what
  handlers do to settings in `SettingsClock`.
* `SettingsClock` tells five of the nine keys apart: the zone, a plain choice, the
  face and the two halves of the credentials; the four others behave as the plain
  choice. Portal handlers and the menu never run at once: while the portal is up
  the main task waits for its end and stops the server before it goes on.
* `ShellNavigation`: what services answer is a choice, the row of the home zone
  too; a wake of unknown cause is treated as a cold boot, as the code does.
* `DisplayPresent` assumes an initialised display and enough memory for a
  composition.
* `SleepHandoff` has no presentation: a stage that draws takes any time, and
  presses meanwhile wait in the queue. The set of wake sources is one condition.

Not modelled, because nothing in it depends on order or failure:

* package format, manifest and ELF validation, SHA-256, encoding of the index
  blob: pure functions of byte strings;
* the transition compositor, framebuffer, fonts and the rendering of screens:
  drawing, with no state of its own;
* `watchy_core`'s refresh policy: pure, and not called by the firmware, which has
  the rule of `display_policy.c`;
* battery, haptics, motion and bus drivers, the storage mount, the diagnostic
  log: thin, one caller at a time; their results appear as choices;
* SDK, UI library and first-party faces: code of packages, which reaches the
  watch only through the host capabilities; tools: they run on a workstation.

## 6. Plan

Done: everything that is persisted, everything that runs beside the main task,
and the main task's own loops are modelled. Every safety invariant, action property
and refinement of the runs is proved (section 4).

Left, should the firmware move on: the effects drawn between two frames, once
they keep state; the BLE advertising nothing calls yet; the motion variant of the
sleep preparation.
