# A formal model of Wendoo on the micro:bit

Wendoo compiles a brain (pages of WHEN/DO rules, with nested child rules and async
actions) to bytecode and runs it on a BBC micro:bit, or on simulated ones in a browser.
This directory holds TLA+ modules of the native runtime (`src/cpp`), of WODAL, the
device layer in TypeScript (`src/packages/wodal`), and of the simulator app
(`src/apps/microbit-sim`); the TLC configurations that check them on small instances; and
theorems about them that TLAPS checks. Paths below are relative to the repository:
`core/runtime` is `src/cpp/core/runtime`, `wodal` is `src/packages/wodal/src`, `app` is
`src/apps/microbit-sim/src`.

## 1. The system and its parts

### The native runtime

| Part | State it keeps | Operations | Hard behaviour |
|---|---|---|---|
| Handle table (`handle-table.h`) | handles with state, result, waiter list; completed queue; capped count | createPending, resolve / reject / cancel, addWaiter, removeWaiter, popCompleted, deleteHandle, clear | late and repeated reports, rollback, exhausted arena, cap accounting |
| Fiber scheduler (`fiber-scheduler.cpp`) | fiber records, run queue, spawn list, running fiber | spawn, async-action child, child rule, slice, cancel, settle walk, drain, cascade, tick, sweep | cancellation from inside a slice, intrusive queues, a budget that may end anywhere |
| VM suspension points (`vm.cpp`) | frames and stacks of a fiber, backpressure rounds | the async calls, AWAIT, YIELD, SPAWN_RULE, WHEN gates, injected throws | retry of a dispatch without its side effects, hold-and-wait on the handle cap |
| Rule firing records and rule trigger (`execution-context.h`, `rule-trigger.h`) | last WHEN outcome, watcher slot and abandonment mark per rule | trigger sensor, settle walk, gates | answers that depend on a whole cluster of fibers |
| Brain runtime (`brain-runtime.cpp`) | current and desired page, the page's root fibers | startup, think, page change, restart, shutdown | page switch requested in mid-slice, re-fire rule, activation failure |
| Host loop (`codal/host-loop.cpp`, `main.cpp`) | fault latch | poll the ports, tick | a failed think is never retried |
| Device ports (`microbit-ports.h`) | display and speaker lease, radio ring | start, poll, preempt, clear | pre-emption by the operation being dispatched |

### WODAL, the device in TypeScript

| Part | State it keeps | Operations | Hard behaviour |
|---|---|---|---|
| Display and speaker (`microbit-display.ts`, `microbit-speaker.ts`) | three display slots and a play, each with a lease | dispatch, poll, preempt, drop, clear, reset | preemption against polls of any length, double settlement |
| Radio (`core/radio.ts`, the radio actions) | receive ring, cursors of the call sites, group | encode, decode, deliver, next, batch | overwriting under cursors, numbering restarts, byte limits |
| Buttons, logo, gestures, bus, pins, sensors (`core/`) | levels, queued events, detector state, injected readings | set, derive, feed, drain, poll, cycle, reset | history per call site, listeners that change while they are called |
| Sound (`sound-expression.ts`, `sound-synthesis.ts`) | decoded effects; three slots per segment | decode, render | two decoders of one format, rounding at step boundaries |
| Rehearsal (`rehearsal/world.ts`) | script, position, published endings | apply, tick, publish | order of percepts, endings told once |
| Trace (`observable-trace.ts`) | lines | render | two runs are compared by their text |
| Program image and firmware (`wodal/wendoo/`, `wodal/cli`) | envelope, hex records, flash | parse, splice, patch, flash, boot | bank borders, exact fit, patching twice |

### The simulator app

| Part | State it keeps | Operations | Hard behaviour |
|---|---|---|---|
| Environment store (`app/services/microbit-sim-environment-store.ts`, `user-code-reflasher.ts`) | brain list and cache, fleet, pending reflashes, faults, flags | initialize, switch, add, save, remove, rename, flash, compile, restore | every operation awaits the project store and resumes in a changed world |
| Fleet, medium, speakers (`simulator.ts`, `shared-medium.ts`, `speaker-audio.ts`) | devices, outboxes, voices | frame, deliver, sync, retain | order of the device list, ids that are used again |
| Flasher and brain list (`microbit-flasher.ts`, `BrainList.tsx`) | connection, running flashes, toasts | pair, flash, flash to drive | plugs and failures at every await |
| Libraries and warnings (`microbit-extension-browser.ts`, `resolution-warnings-toast.ts`) | extensions map, the toast on show | install, uninstall, check, retry; show, dismiss | maps read before an await and written after |
| Bridge and settings (`BridgePanel.tsx`, `app-settings.ts`) | toggle, session, binding token | connect, take over, forget, save | tabs that share one token |
| Screen (`BrainEditor.tsx`, dialogs, header, image literal) | what is open, and for which project | open, submit, cancel, rename, switch | component state that outlives the project under it |

The native parts interact by direct calls on one thread. A think drains the completed
queue, performs a requested page switch, respawns the finished root rules, runs one round
and sweeps; during a slice the VM calls back into scheduler, table, ports and runtime.
Between thinks the host polls the ports, which settle handles. WODAL mirrors the ports:
a tick advances the timer, drains the bus, thinks, runs the sensor cycle and polls the
leases. The app's frame loop ticks every device and then delivers what they sent; its
store, panels and dialogs talk to an asynchronous project store and to the user.

What makes each part correct is stated by the properties of section 3; PROJECT.json lists
the hazards they are about, each at its line.

## 2. The modules

Each component has a module of state, actions and properties; a `MC` module instantiates
components for TLC; a `Proofs` module EXTENDS a component with its theorems.

**The runtime.** `HandleTable` holds the table's operations as action operators and
`HandleTableSpec`: the table under *any* client that deletes a settled handle only
through the drain. `FiberScheduler` EXTENDS it with fibers, queues, the settle walk and
the VM's instructions; `BrainRuntime` adds the think loop, pages and fairness.
`RunHistory` adds two history variables (the fibers a round still owes a slice, and the
rules whose firing lost a fiber). `MCBrainRuntime` has the small brains and `MCHistory` the
same with that history; `MCHandleTable` is the table alone under an arbitrary client.

- *Control.* The runtime is single-threaded: `pc` says where in a think control is, and
  every loop of the code is one step per iteration. A slice runs one instruction per
  step, and `BudgetExpires` may end it after any instruction, since the model does not
  count the plain instructions between two interesting ones. Code that cannot be
  interrupted and reads nothing a later part of it writes is one step.
- *Fibers and code.* `fiber[f]` is a slot of the record pool. `Code` gives each function
  its instructions; only those that change scheduler state are distinguished, `script`
  stands for the others. `held # NoHandle` marks a fiber between a dispatch and its AWAIT.
- *Handle ids* are unique in the code. The model reuses slots; `ReclaimHandle` turns
  every id a fiber still holds into `Gone`, an id no handle has.
- *Values* are what a WHEN gate distinguishes: `"true"`, `"false"`, `"any"`.
- *Devices.* A host body keeps the handle (`device`), resolves it at dispatch, or fails. A
  kept handle is resolved by a poll between thinks, by a body that pre-empts it, or by a
  synchronous clear.

**Device outputs.** `DeviceOperations` is the display and the speaker of WODAL with every
dispatch of a tile or of user code: a dispatch is an operation with its own handle, `Tick`
advances the timer, thinks and then polls, `ResetDevice` is a load. `OperationLease` is
what `operation-end.ts` promises of a leased subsystem (one holder, one end, none after a
reset); the display and the speaker are both shown to implement it (`LeasesKept`,
whose mapping reads the holder from the slots). `MCDeviceOperations` gives
the constants.

**Board** (`MCBoard`). `DevicePorts`: pins, I2C, the sensor driver, light, temperature and
their sliders. `DeviceInputs`: buttons, the logo and the button sensors' call sites;
`DeviceCard` EXTENDS it with the four buttons of the card. `GestureEngine`: picker,
injector, accelerometer, detector, poll. `MessageBus`: queue, listeners, nested delivery.
`SpeakerAudio`: speakers, fleet and the browser's voices. The constants of all are in
`board.cfg`.

**Radio** (`MCRadio`). `RadioFleet`: the frame loop, the medium, rings and call sites;
`LossyQueue` is the abstract promise to a reader (first in, first out, only the oldest
lost, nothing from before it was opened), refined by every receive site of every
device, which reads one packet at a time as a sensor does or a batch as user code does
(`ReadersServed`). `RadioWire`: values, packets, frames.
`RehearsalWorld`: scripts, the receive ring of a rehearsed brain, its operations.

**Store** (`MCStore`). `EnvironmentStore`: each function that awaits is an entry of `tasks`
and resumes in any order; a write takes effect and a read takes its value when it is
issued, and the promise settles later. `BridgePanel`: tabs, sessions, the shared token,
the settings dialog. The bridge host is external.

**Projects** (`MCProjects`). `ProjectLibraries`, `ResolutionWarningsToast`,
`ProjectScreen`, `DeviceFlasher`: one action per handler and one per continuation.

**Formats** (`MCFormats`). `IntelHex` and `FirmwareImage`: from a program file to the boot
of a patched device. `SoundExpression`: both decoders. `SoundSynthesis`: the render loop
in samples, with the rounding of a boundary as a choice. `ObservableTrace`: two runs and
the text of their traces. `ImageLiteral`: the literal editor and Image values.

**Composition.** The five composites (`MCBoard`, `MCRadio`, `MCStore`, `MCProjects`,
`MCFormats`) put parts side by side that share no state in the code. A variable `part`
says which of them a behaviour moves; the others stand still. Nothing is lost by it: no
guard of a part reads another's variables, so each part reaches exactly the states it
would reach beside the others, and every property is about one part. Parts that do
interact are one module (the card and the inputs; the ring, the medium and the fleet).

**Mutants.** Operators whose comment starts with *Mutant* are deliberately wrong versions
of the definition they precede, a bug the property PROJECT.json pairs them with catches.
Nothing refers to them.

## 3. What the runs check

| Run | What moves | Distinct states |
|---|---|---|
| `core` | a two-page brain with child rules, triggers, an async action, device operations, restarts and page switches, with the histories | 178 thousand |
| `arena` | the same runtime short of handles, fibers and waiter nodes | 1.8 million |
| `progress` | one capped handle that a rule holds while its action needs another, under a gate that may close | 5.9 thousand |
| `handle_table` | the table under an arbitrary client | 82 thousand, up to symmetry |
| `device` | display and speaker against ticks of any length and loads | 109 thousand |
| `board` | ports, card, gestures, bus, speaker voices | 2.5 million |
| `radio` | fleet, frames, rehearsals | 1.4 million |
| `store` | environment store in a browser, in a folder and under a hasty user; panel and tabs | 1.1 million |
| `projects` | toast, flasher, libraries, screen | 710 thousand |
| `formats` | firmware, pictures, decoding, rendering, traces | 542 thousand |
| `budget_straddle`, `trigger_leak` | the core brain | violated: see section 4 |

A property that belongs to a subject is a conjunction of named parts, defined beside it;
the type invariant of a module is one of them.

| Run | Property | What it says |
|---|---|---|
| `core` | `TypeOK` | the runtime's variables keep their types |
| | `NoLostWakeup` | waiting fibers and the waiter lists of live handles name each other |
| | `QueueSound` | a runnable fiber is in exactly one place, and the run queue holds no fiber a sweep could free |
| | `PromiseKept` | a pending capped handle has one party to settle it, a trigger's in a watcher slot a live subject (`PromiseOwned`, `WatcherLive`); of handles displaced from a slot it says nothing, `trigger_leak` does |
| | `RulesInStep` | live rule fibers are of the current page, each rule in one firing (`PageScoped`, `OneFiring`) |
| | `RoundServesAll` | every fiber a round found had its slice in it |
| | `HandleTableSpec` | every step uses the table as its abstract specification allows |
| | `TriggerTruthful` | a trigger answers true only of a firing that is over and lost no fiber |
| `arena` | `PromiseKept`, `RespawnFindsSlot` | the first when every allocation may fail; a respawn is never refused by the fiber cap |
| `progress` | `Progress` | a parked fiber resumes, a queued one gets its slice (`ParkedResumes`, `QueuedRuns`) |
| `handle_table` | `CappedAccounting`, `SettleOnce` | the count is that of live capped handles; an outcome is final |
| `device` | `PendingHolds` | a call waits exactly while its operation holds a lease |
| | `ScreenInTime` | one rendering, none overdue, the frame that is due, nothing left of a finished text |
| | `LeasesKept` | both subsystems refine `OperationLease`, one report each |
| | `LeaseEnds` | no lease is held for ever |
| `board` | `InputsRead` | readings are what was put there when it was; clicks by their duration and window; no stuck button |
| | `GesturesSeen` | what the user selects is recognized, polled and shown |
| | `DeliveredOnce` | events in order, each listener once |
| | `SpeakersHeard` | a voice is its device's play and the other way round, but for the first play of a restored device |
| `radio` | `FleetSound` | rings hold the latest of what the others sent, in an order the device list does not show |
| | `FrameCarries` | every packet type through the frame up to and past its limits |
| | `ScriptFollowed` | percepts, messages and endings of a script on their think |
| | `NextThink` | a send reaches nobody in its own frame |
| | `ReadersServed` | every receive site refines `LossyQueue`, both ways of reading |
| `store` | `PanelSound` | connects are asked for, the toggle is the preference, a forgotten token stays forgotten |
| | `RunsLatest` | at rest a device runs the latest build or is dark |
| | `ShownIsStored` | at rest list and faults agree with the store, and so does the fleet unless a reflash crossed the load |
| | `LoadsAreSafe` | a failed read or a restore loses nothing stored, unless a reflash crosses the restore; a switch none has overtaken does not connect |
| | `StoreSettles` | every operation ends, every change is flashed |
| `projects` | `WarningStands` | an unresolved set is on show or was closed, and stays closed |
| | `GoesWhereMeant` | saves and names reach the brain and project they were made in, unless the project or the brain changed under the editor or the name; a dialog opens what it named, unless it was closed before the answer |
| | `FlasherTellsTrue` | what the list tells of device, drive and flashes is so |
| | `LibrariesKept` | what the user was told is so and depended-on libraries stay, unless an overtaken handler puts back its map; the platform always stays |
| | `WaitingEnds` | every handler ends, the drive is freed |
| `formats` | `FirmwareBoots` | a patched firmware is whole and boots its program |
| | `PicturesKept` | opening, painting and saving damage no pixel |
| | `SoundsHeard` | both decoders agree; every step fires at its boundary; the render ends |
| | `TracesTellRuns` | traces are equal exactly for runs that are equal as far as the format tells events apart: no type names, whole numbers in 32 bits, others at the profile's precision, nothing of opaque values |

**Bounds of the runtime's runs.** `core`: two pages; a root rule with two child rules, a
rule that follows it, a rule on the second page, one async action; 5 fiber slots, enough
for the root rules, both children and an action, and few enough that an action orphaned by
an earlier firing makes a spawn fail; 4 handle slots, 2 capped (two operations compete and
the arena also runs out); two backpressure rounds. The brain loops for ever and the state
space is finite by itself. `arena`: 4 fiber slots, 2 handles for a cap of 2, a waiter pool
that may fail, and a second page of four root rules, so that dispatches, triggers, action
children, child rules and the activation of a page all fail for want of a slot, and the
fault latch is reached. `progress`: one capped handle and three backpressure rounds.
`handle_table`: 3 handles, 2 capped, 2 fibers, waiter lists of at most `MaxWaiters` = 1 (in
the runtime a handle has one holder). Two branches of the scheduler are never
taken, as in the code they are defensive: a resume whose fiber no longer waits, and a
queued fiber that is no longer runnable.

**Bounds of `device`.** A screen one column wide, texts of up to two characters, sequences of
three frames and the empty one, sounds of three steps, ticks of 0, 1 and 3 steps: a tick that is
shorter than a step, one, and one longer than some whole operations, so that the poll has
to catch up. Two dispatches, each with and without *immediately* and *background*: a
preemption needs two. The timer counts to 9 and the run stops short of the wrap.

**Bounds of `board`.** Ports: one pin of the connector, one beyond it and a negative one, I2C
answers that are short and full, no echo and two distances, one reset. Card: a press of four
ticks is long, a window of two, one call site of A+B, ticks of one and three. Gestures: a
posture, a shake, a freefall, frames shorter and as long as the sample period, two selections
(the second may come in the middle of the first), one reset. Bus: two listeners and two
queued events, deliveries two deep. Speaker: two ids, three plays, two changes of the fleet,
a sound of two frames and one of none.

**Bounds of `radio`.** Two devices, two groups, rings of two packets and three sends over two
frames, so that a ring overflows under both readers. Texts of characters of one to four bytes
around the limits of 8 and 19 bytes; numbers at the edge of single precision; buffers of up
to 21 bytes. Scripts of two percepts of every kind at the first three thinks, and four longer
ones that fill the ring. **Of `store`:** two projects, of which one may be missing or hold an
index and a fleet that name a brain that is gone, and which share a brain (one was exported
and imported in the other); three brains, four devices, one user action with a version that
does not build and one that is refused; three operations. Three bare projects and two devices
under a user who waits for nothing, so that switches overtake one another. Two tabs of two
projects, or one tab with the settings dialog, old settings and a storage that may fail;
three acts of the person. The stored index lists no brain twice, which the app never writes.
**Of `projects`:** a target, a bundled library and one that depends on it, two handlers that
wait side by side, three calls and one change to a project with other libraries, which
suffices to overtake either; three changes of the warnings; three pairings, flashes and
plugs; two dialogs, two openings of the editor and two changes of project, over two projects
that hold a brain under the same id. **Of `formats`:** two banks of 32 bytes with the region
across their border, programs one byte too long, exact and short; segments with fewer and
more steps than samples; pairs of runs of one event of every kind each (a word of four
values, numbers that single precision merges, types that differ in name), and pairs of runs
of up to two events of a few kinds each; pictures of five shapes and two taps.

**Users who wait.** `Patient` says that the person lets what awaits end before the next act.
It is a guard of the model's, not of the code's, and it is left in two places: in the store's
browser and folder parts, where "at rest" is what the properties speak of and every operation
there is meets the reloads and restores it causes by itself; and in the flasher, for two
pairings at once, each of which makes a connection. The switches that overlap are a part of
their own (`Hasty`); libraries, screen and speakers have no such guard. `ShownIsStored` and
the first half of `LoadsAreSafe` are about the browser's part only: in a folder session others
may change the files under the app, and a fleet record removed from outside is not noticed
until the next save.

**Fairness.**
- `progress`: weak fairness of `ThinkStep` (a think is one call that runs to its end) and
  of `BeginThink` (the main loop ticks for ever); strong fairness of each device operation
  at `pc = "idle"`, since every iteration polls every port and an operation's end time
  passes. An operation is not assumed to end within any number of thinks.
- `device`: strong fairness of `TimePasses` (the frame loop ticks a loaded device, by more
  than nothing, between whatever else happens) and weak fairness of the poll that follows
  a think. `LeaseEnds` speaks of leases whose end comes before the timer wraps.
- `store`, folder part: weak fairness of every task's continuation (the project store
  answers) and of the reflash timer.
- `projects`: weak fairness of a transaction's end, of a reference's resolution, of an
  update check's answer and of the ends of pairing and flashing, which may be failures.
- `formats`: weak fairness of the render loop, so that `SoundsHeard` may say that it ends.

No user act is ever assumed to happen.

## 4. Where code and documentation disagree

Two runs show violations:

- `budget_straddle`: the drain (`fiber-scheduler.cpp:401-412`) frees a settled handle that
  a fiber has dispatched but not awaited yet, because its budget ended in between; the
  AWAIT then faults.
- `trigger_leak`: a trigger (`rule-trigger.h:53`) replaces the handle in its subject's
  watcher slot. After a restart the replaced one is pending for ever; it takes an action
  fiber, which a restart does not cancel, to keep the subject live.

Other disagreements met while modelling bound a property's statement above; no run of
this directory demonstrates them:

- *Runtime.* `tick` bounds a round by a count, so a restart in mid-round lets a fiber
  enqueued during the round run in it (hence `RoundServesAll` says "at least").
  `addWaiter` ignores an allocation failure, and its fiber is parked for ever.
- *Leases.* The timer wraps at 2^32 ms and end times do not (hence `MayWrap`); the button
  sensor's differences go negative over a wrap.
- *Radio.* A text cut inside a surrogate pair arrives with U+FFFD at its end; the firmware
  cuts at a byte, WODAL at a UTF-16 unit; the simulated ether hands over texts the air
  would cut (hence `EtherAsAir` is about what fits a frame). A message scripted for think
  0 reaches no receiver, which arms on that think.
- *Board.* `TouchButton.reset` keeps a threshold of zero or below under a reading of 0
  (hence thresholds above zero). A shake selected again within the retrigger window is not
  recognized. A negative pin is made 0 before its range is checked and drives P0, although
  `docs/specs/gpio.md` calls a pin out of range a no-op (hence `InputsRead` says "a negative
  number counting as P0"); pins 17 and 18 exist in the simulator only. An open slider is stale
  after a load. A restored device's first play passes for its predecessor's if that was one,
  too (hence the exception in `SpeakersHeard`), and a play that began before the audio runs is
  started late.
- *Store.* The flag that withholds saving is raised only after the saved fleet was read; a
  second switch in flight is loaded after the first one's `finally` cleared the shared
  flag, and connects the bridge (hence `overtaken` in `SwitchStaysOff`); the restore of a fresh
  project cancels a reflash queued meanwhile. Two projects share brain ids when one is an
  exported and imported copy of the other: a reflash of such a brain that falls due while the
  second project is loading then saves the first one's fleet in the second, although
  persisting does "nothing while a restore is in flight"
  (`microbit-sim-environment-store.ts:1157-1164`; hence `Crosses` and the history `crossed`). A
  brain removed from outside a folder session leaves its faults behind (hence `FaultsOfBrains`
  is about the browser). A settings write that throws leaves the store's copy changed and its
  listeners untold.
- *Projects.* Two handlers at once write maps taken before they waited, and so does one whose
  project was left meanwhile (hence `PutsBack`); an editor stays open over a change of project
  and saves into the other one, and a name goes to it; one brain's definition can be saved from
  the editor of another (hence the marks "project" and "brain" in `ProjectScreen`); a dialog
  closed before its answer leaves a brain that another one opens (hence `early`). The run
  reaches all of these, and they are the exceptions the properties state, no other. Two
  pairings at once make two connections, which only an impatient user meets.
- *Formats.* A pitch that divides the tone table's width brings the phase to exactly the
  width, one past its range; the trace writes an undefined kind as opaque although its
  class says it throws, and a radio number at the profile's precision where its format says
  single (`observable-trace.ts:161-162`). Runs that differ in a type's name, or in whole
  numbers beyond 32 bits, have one trace (hence `Told` in `TracesTellRuns`).

## 5. What is proved

All assumptions are the named ASSUMEs of the modules, which TLC evaluates in the runs, and
the ones named below.

`BrainRuntimeProofs`, its first part, for every finite set of handles, every set of fibers and every cap:
`TableInv` (types, `CompletedSound`, `FreeSlotsEmpty`, `CappedAccounting`) is inductive.
Neither invariant of interest is inductive alone: the count needs to know that a freed
slot is not capped, and the queue needs the types to reason about its tail. The outcome of
a settled handle is final (`SettleOnce`).

Its second part, for every page table, rule tree, program, set of fibers and of
handles: `RuntimeInv` is inductive. It is `TypeOK` with three additions the types need:
while a host body or the trigger sensor runs, the running fiber is runnable and holds the
handle it was given; a settle walk has a fiber; and a fiber of a rule runs for that rule.
One lemma per action says that the step is a step of the table, changes the fibers soundly
and keeps the types (`SoundStep`). It follows that the runtime refines `HandleTableSpec`
(the mapping is the identity, since the modules share the table's variables), that the
table's theorems hold of it, and that no finished fiber is revived (`TerminalIsFinal`).

`SchedulerProofs`, about the same model, rests on two facts of the compiler that
`CodeAssumption` and `RuleTreeAssumption` name: a child rule is spawned by one SPAWN_RULE of
its parent, and a rule's ancestors are closed under ancestors. One invariant per question,
each proved inductive by an account of what every action may change:

- *No wakeup is lost* or spurious, while the arena backs every waiter node
  (`~WaiterPoolMayFail`). `WakeInv`: the waiter lists name exactly the waiting fibers, each
  once, and the handle a dispatch just gave its body has no waiters, since a failing body
  deletes it.
- *A runnable fiber is in one place* (`QueueSound`). `PlaceInv`: it is in the run queue, on
  the spawn list, in the cascade or running, and in one of them only. The spawn list and the
  cascade may hold a fiber cancelled there, but no waiting one, whose resume would queue it
  twice; and a sweep, an activation or a round finds nobody running and nothing to drain.
- *Rules stay in step* (`RulesInStep`). `FiringInv`: the page's table names its root rules in
  order, a live rule fiber belongs to one of its entries, and a running rule has passed the
  SPAWN_RULE of every child beneath which something still runs. After a page was closed
  only the cancellation or its settle walk is left to run.
- *Capped handles and watcher slots keep their promise* (`PromiseKept`). `PromiseInv`, until
  the runtime is shut down: a capped pending handle has one owner (the device, the body it
  was dispatched to, or a child to its last settle step), a handle in a watcher slot is in
  no other and its subject still runs, and no handle is of both kinds. A trigger's handle
  that was displaced from its slot has nobody: that is `trigger_leak`.
- *A respawn finds its slot* (`RespawnFindsSlot`). `SlotInv` has an injection of the root
  rules that wait to be respawned into the free records: each root rule holds a record from
  its spawn to the sweep, and only respawns take records between sweep and respawn.
- *A round serves everyone it owes* (`RoundServesAll`). `OwedInv`: a fiber owed a slice is
  among the first `roundLeft` of the run queue, or has ended; whoever joins, joins behind.
- *Triggers tell the truth* (`TriggerTruthful`). `HarmInv`: a rule whose firing lost a fiber
  is marked abandoned, or the settle walk that will mark it is on its way, and no trigger
  is answered meanwhile.

`DeviceOperationsProofs`, for any set of dispatches and any geometry, while the timer does
not wrap (`~MayWrap`): `LeaseInv` (a holder is of its slot's kind, unreported and with a
live handle; the renderings exclude one another; fresh operations have no handle) is
inductive. From it: a handle is pending exactly while its operation holds a lease
(`PendingHolds`), `OneRendering`, `OneReport`, and that display and speaker each
implement `OperationLease`: initial states map to initial states, every step to a step or
a stutter. Together they are `LeasesKept`. `ScreenInv`, inductive given `LeaseInv`, relates
the screen to the clock: a lease began in the past and is not over once the poll passed it;
the frame on show is the last one painted, which was due at that poll; a column of a
scrolling text was pasted as many steps ago as it is far from the right edge, so that the
blank cycle leaves none. `ScreenInTime` follows. It needs `~MayWrap` as well: after a wrap
a start lies in the future.

`RadioFleetProofs`, for any devices, groups and ring depth: rings hold the latest packets
in the order of their numbers (`RingSound`), no device hears itself (`NotOwn`), and what is
sent in a round arrives at the next (`NextThink`). `RadioInv` relates each cursor to its
ring; the least unread packet exists because a non-empty set of naturals has a least.
And every receive site implements `LossyQueue` (`ReadersServed`). The queue of the mapping is
computed from the ring by recursion; the proof follows what it holds instead: the numbers
the site still wants, in increasing order. A delivery adds the new number and drops those
that left the ring, a read takes the least, a batch all, and two increasing sequences of the
same numbers are equal.

`BoardProofs`, for the constants `BoardAssumption` admits, each invariant inductive in its part:

- *Bus* (`DeliveredOnce`; any listeners, events, depth). `BusInv`: the queued numbers increase
  up to the last raised and all below the first are delivered; of every delivery on the
  stack, the listeners it passed and that matched were called, and what is left of its
  snapshot holds every listener that was there when it began and still is. Removing
  listeners keeps their order and their distinct ids, which is all the invariant asks.
- *Speaker* (`SpeakersHeard`; any devices, sounds, plays). `SpeakerInv`: a play is known by its
  number, at most one source of a device sounds, and its voice tells which play that is, or
  passes for the first play of a device restored under the same id (`PassesFor`).
- *Gestures* (`GesturesSeen`; any selections, resets, frames). `Sound` is what one sample keeps,
  and so every frame, by induction over its samples. A posture's damping has counted the
  samples since the ramp ended, and no axis is crossed meanwhile that might count as a
  shake (`Holding`); a freefall's counts from its first sample (`Falling`); and of a shake not
  yet recognized, the samples to come are as many as the crossings it needs
  (`Shaking`, `Calls`): between two of them at most one of those counted decays. That
  needs the window of an earlier shake to be closed, as `ShakeSeen` says.
- *Ports* (`InputsRead`, first half; any pins, answers, echoes, levels). `PortsInv`: a level
  and an echo tell of the reset they follow, a sonar's measurement is that of the echo it had
  when the last cycle ended, and what was driven is what was asked of pins there are, in
  order, a negative number counting as 0.
- *Card* (`InputsRead`, second half; any sites, spans, steps). `CardInv`: of each button the
  bus alternates and ends with its level, what is pressed is what the card shows or less, and
  the state a sensor keeps is what the log of its evaluations says of them: when it was
  pressed last, and which click may still be paired. Both halves assume `WithinDocs`, which
  leaves out two divergences of section 4: a threshold of zero or below and a timer that wraps.

`BridgePanelProofs`, for any tabs, projects and acts: the panel shows the stored preference
and addresses are never blank (`PageInv`); an enabled bridge never just reads "off" and a
forgotten token never comes back (`SessionInv`, which says that no session holds a retired
token); every connect answers an act of the person (`CountInv`: connects so far and pages
that owe one never exceed the asks). Together they are `PanelSound`.

`ProjectsProofs`, for any number of pairings, flashes and plugs of a user who lets
each pairing end (`Patient`): `PairInv` and `FlashInv` give `ShownIsSo`, `ToldIsPaired`,
`OneDriveFlash`, `NoToastLeft` and `HeldForSession`, which are `FlasherTellsTrue`.

It also has, for any set of libraries, `WatcherInv` (the toast, what leaves and what was
dismissed agree with the set), which gives `ShowsTheSet`, `NotSilent` and `StaysClosed`:
`WarningStands`. And, whatever the user does and waits for or not:

- of the screen, for all projects and brains and any number of dialogs, editors and changes of
  project, `ScreenSound`, and with the types of the other parts `GoesWhereMeant`. What the
  editor holds, or will when its load has come, belongs to the brain it is on and to the active
  project, or carries the mark of what became of it (`EditSound`): a load that comes late has a
  number the editor no longer has. A submission is the open dialog's, or that of one that
  was closed early (`ListSound`), and the name that is edited is the active project's, unless
  that changed (`NameSound`).
- of the libraries, for any catalog and dependencies, any handlers at once and any changes of
  project, `ManifestSound`, and with what each step may do (`StepSound`) `LibrariesKept`. Every
  map a handler holds has the platform and is right about the handler's own library
  (`Rooted`, `OwnSound`); that of a handler nobody has overtaken is the project's but for that
  library, which may go if it is removed (`Fresh`, `Others`, `CommitSound`).

`EnvironmentStoreProofs`, for any projects, brains, devices, user actions and tasks in
flight (`StoreParameters`, which MCStore assumes of its three instances), any number of user
acts and of a user who lets a handler end before the next (`Patient`), in a browser and in a
folder alike. `StoreInv` is inductive; a function that awaits leaves the state in between
half done, and each part says what may be half done, and who will do the rest:

- `StoreTypes`: the types of what is stored, cached, shown and in flight.
- `Flight`: a task is at a stage of its operation and names what it works on; which
  operations await together (only a start and a switch do, each beside the reload it
  caused); no project is active until the start has opened one.
- `Records`: the cache holds the active project's brains, or none after a load that failed;
  no index lists a brain twice. Hence a reload that failed has an empty list, and the guard
  on `projectRecordFailure` is what keeps it from being written.
- `Lists`: the list is exact, or the reload, add or remove that makes it so is in flight. The
  two reloads of a start may both be between their read and their write; `TaskListed` says
  that either writes what the other would.
- `Restores`: while both restores of a start are in flight the fleet has no brain, and a
  default fleet is put up only where nothing to be restored has one. Hence the pending
  reflash that a restore drops was due on no device.
- `Flashes`: a device runs the latest build, or is dark, or its brain is pending, or a task in
  flight will flash or empty it.

From it: the list is exact at rest (`ListExact`), devices run the latest build
(`RunsLatest`) and a failed read writes neither order nor fleet (`FailureKeepsRecords`). In the
browser (`~Folder`), `Faults` (a fault and a device that can fault belong to a stored brain or
to one being removed) is inductive given `StoreInv`, and gives `FaultsOfBrains`.

That a switch connects nothing (`BridgeStaysOff`) is proved without `Patient`, for switches that
overlap in any way, by an invariant of its own: `SwitchInv`, the flag is up while a switch that
none has overtaken is under way. `FleetSaved` and `RestoreKeepsFleet`, which hold unless a
reflash crosses a load, are not proved.

**Only model-checked:** of `FleetSound` the independence of the device
order (a fold over any order) and the types of what SelectSeq leaves, of which the provers
know nothing; `FleetSaved` and `RestoreKeepsFleet` of the store; and the wire, rehearsal
and format properties.
All liveness (`Progress`, `LeaseEnds`, `StoreSettles`, `WaitingEnds`, the end of a render)
is out of the prover's reach, and so is what a fold or a recursive definition computes for
every input (the decoders, the hex writer, the trace).

## 6. Not modelled

- *Hook fibers and Systems* (`runActionHook`, `runSystemFunction`) and the partial failures
  of a think around them: single-slice fibers whose failure latches fault mode; the model
  has the latch.
- *Managed heap*: what matters is which of a value's holders the collector knows at each
  step of every host body, which takes the whole native API as a model. *Region arena,
  pools and stack regions*: the scheduler needs only that an allocation may fail.
- *Program reader, numeric formatting, type registry, binding ABI, host kit*: value-level
  code, covered by the repository's parity corpora; binary32 arithmetic is out of TLC's
  reach.
- *CODAL's own drivers*: the firmware's radio ring and gesture debounce. The models are of
  the simulator's; `FirmwareImage` has the header check of the boot.
- *Tile catalogue, tile docs, golden-corpus generators, localisation, layout and wording*:
  data without behaviour. *Diagnostics and the folder host's file codec*: texts.
- *The compiler and the TypeScript VM* live in the submodule `external/wendoo-lang`, whose
  contents are not in this tree.

Within the modelled parts these are abstracted: operand values, frames and handler tables
(a throw is caught or escapes, nondeterministically), stack-region growth (it can only fail
a spawn or fault a fiber, both of which the model has), amplitudes of sounds, pitch and
roll, the scroll's glyphs, and observers that only log. After a failed think or a shutdown
the model stops, as the host loop does. Next would come hook fibers,
then the heap.
