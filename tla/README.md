# TLA+ project for the Linkr debugger

Linkr is a debug board for single-board computers (an RP2350 running Zephyr). Its firmware switches
power rails and USB/SD routes, drives GPIOs, captures logic-analyzer samples, keeps a persistent
configuration and a document of saved tasks in flash, and updates itself over the air. Clients reach it
over HTTP, WebSocket and a USB shell: a host gateway and a command-line client (Rust), and a web application
(TypeScript, React).

The specifications cover the parts of the firmware where several threads, work items, resets and failing
hardware or flash meet, and the parts of the web application where clicks, timers, promises, messages and a
failing database meet. Firmware paths are relative to `src/apps/radxa_linkr_debugger/src/` and drop the prefix
`linkr_debugger_` where it is clear; web paths are relative to `src/web/src/`.

Contents: 1 inventory · 2 modules and how they correspond to the code · 3 model-checking runs ·
4 bounds · 5 fairness · 6 proofs · 7 environment assumptions · 8 disagreements found and observations ·
9 not modelled · 10 plan · 11 how to run.

## 1. Inventory

### 1.1 Firmware components that are modelled

| component | state it keeps | operations | what makes it correct |
| --- | --- | --- | --- |
| live hardware control (`control.c`) | regulator states, four routes, GPIO directions and levels, the VIN regulator | one setter per item, `usb_route_set` and `vin_route_get` in several critical sections | the record agrees with the hardware; the hub rail is live when the mux attaches it |
| persistent configuration (`config_store.c`, `config_policy.c`, `config_replay.c`, `config_service.c`) | flash blob, store status, service status with per-item apply state and counters, service mutex | boot init and replay, save, clear, status | what is reported is what is in flash; a dangerous snapshot needs confirmation; a replay stops at the first failure and its counters stay right; the mutex and owners are never leaked |
| arbiters (`capture_arbiter.c`, `flash_arbiter.c`) | one owner each | try-acquire, release | one owner at a time; released by its owner on every path |
| over-the-air update (`ota.c`) | upload state machine, upload and failed client, MCUboot slots, retained marker, two work items | upload in fragments, status, test, confirm, auto-confirm, reboot work | flash owned exactly while needed; only the client that began writes; the image to roll back to survives; an accepted test reboots |
| watchdog (`control.c`, `main.c`) | armed/planned/fault flags, BOOTSEL marker in scratch | supervisor round, planned reboot, fault hook, boot check | a reset of a test image rolls back instead of entering BOOTSEL; no fault is armed during a confirm |
| task store (`task.c`, `task_mutation.c`, `task_http.c`, `task_shell.c`) | flash document, RAM copy and summaries, runtime lock, upload buffer | init, PUT in fragments, GET in two reads, DELETE, shell clear | RAM is what a reboot would load; the answer matches flash; a stored document is of one PUT; owners follow the mutation |

### 1.2 Parts of the web application that are modelled

| component | state it keeps | operations | what makes it correct |
| --- | --- | --- | --- |
| power capture (`hooks/useBoardCapture*.ts`, `lib/streamingCapture*.ts`, `lib/powerCaptureStore.ts`) | the recording's session, its queue of writes, the archive in IndexedDB with leases | arm, trigger, stop, cancel, every message, finalize, recover, clear | a recording is whole or says what it misses; "complete" is final; no live recording is recovered or cleared by another tab |
| power recordings (`lib/powerCapture.ts`, `powerCaptureStore.ts`, `powerCaptureExport.ts`) | summaries, thinned previews, archives, the exported rows | record, prune for space, recover, show, export | previews stay evenly spaced, totals are those of the samples, what is shown and exported is one recording |
| startup analysis (`StartupPowerAnalysis.tsx`, `PowerAnalyzer.tsx`, `lib/automationTask.ts`) | phase, operation, automation lock, rail | start, retry, milestones, stop, cancel, restore power | a run that is over leaves the target powered and the lock free |
| workflow editor (`components/workflow/`, `lib/testScript.ts`) | script, undo and redo lists, clipboard, stored draft | every edit, nest, group, import, undo, redo | every script keeps its invariants; rearranging loses no command; undo loses no script |
| test runner (`lib/testRunner.ts`, `TestAutomation.tsx`) | plan position, cursor in a bounded buffer, rail, pin, capture | each kind of step, abort, safe cleanup | the bench is left safe; a wait sees all unread text; the runner ends |
| logic analyzer page (`LogicAnalyzerCard.tsx`, `useSigrokScope.ts`, `lib/logicAnalyzer.ts`, `lib/logicDecoder.ts`) | session, connection, tasks, settings, decoder result | capture, stream, cancel, edit settings, decode | one session at a time and none leaked; what is asked for is accepted and means what the page says; a result is of what is shown |
| task card (`TaskCard.tsx`, `useTaskRun.ts`, `lib/task*.ts`) | catalog, stored blob, runs | resolve, confirm, dispatch, cancel, clean up, store | nothing runs behind a failure or a cancel; cleanup runs once |
| firmware page (`OtaCard.tsx`, `BootCard.tsx`, `lib/ota.ts`) | polled status, picked image and its hash, automation lock | poll, pick, upload, test, confirm, enter BOOTSEL | the hash sent is of the image sent; old status is not kept |
| saved configuration (`usePersistentConfig*.ts`) | newest answer, generation, selection, dialogs | refresh, save, clear | an answer older than what is shown never replaces it; a save is confirmed only by a dialog, and sends what the dialog named |
| GPIO pinout (`GpioCard.tsx`, `useGpioPinGesture.ts`) | a gesture per pin, one pending write | press, hold, double press, key, leave | one write per gesture, and none of a cancelled one |
| live board (`useBoard*.ts`) | polled or pushed snapshot, live session, mutations, state of the capture | poll, go live, push, write, arm, record, save | no live session is left behind; one mode runs at a time; a recording that loses its socket is saved; what is shown catches up |
| serial terminal (`SerialTerminalPane.tsx`, `SerialCard.tsx`, `lib/serialLogCache.ts`) | port or socket of each channel, text buffers, log | connect, disconnect, voltage change, receive, clear, download, reload | a port is of one channel; text is neither lost, doubled nor reordered between wire, screen and log |

### 1.3 How they interact

* Threads of the firmware: the HTTP server thread runs every HTTP handler; each WebSocket client has a thread; the
  shell has one; `main` runs the boot sequence; the watchdog supervisor has one; the system work queue runs the OTA
  work items.
* Shared state under locks: `linkr_debugger_control_lock` (one hardware section), `service_mutex` (a whole
  save, clear or replay), `linkr_debugger_ota_lock`, `task_runtime_lock`. Holders of the last three also
  hold one or both *arbiters*, compare-and-swap owners that refuse instead of waiting:
  a save, a task mutation, a logic session and an OTA exclude each other through them. The setters take
  neither, so hardware changes under a running save.
* Persistent across a reset: the settings in flash, the MCUboot slots and two watchdog scratch registers.
* The web application is one thread: code between two awaits runs to completion. What interleaves is everything an
  `await`, a timer, a React render or effect, a message or another tab puts between. Its pages share the automation
  lock (`automationTask.ts`), the live WebSocket and IndexedDB, and drive the firmware components above.

### 1.4 Hard behaviours

In the firmware: setters against a save and its replay; a setter made of two critical sections; a register
read outside the lock and stored later; owners taken one after the other and undone on failure;
fragments of a refused body arriving later; two uploads sharing one buffer; a work item that already waits for
the lock when it is cancelled; a reset between any two flash or marker writes; failing settings writes,
regulators and swap requests. In the browser: a chain of awaits that goes on behind a cancel, an unmount or
a second click; answers out of order; a timer racing the answer; a queue of writes that fails in the middle; a
recovery that runs against a live writer. Each is listed in `PROJECT.json` under `hazards` with the line where it
bites and the properties that cover it.

## 2. Modules

| module | extends | models |
| --- | --- | --- |
| `Control` | | setters of live hardware and the VIN read |
| `PersistentConfig` | | abstract: what a saved configuration promises |
| `ConfigService` | `Control` | the configuration service over live hardware, with `Abstract == INSTANCE PersistentConfig` |
| `Ota` | | update, watchdog and boot |
| `TaskStore` | | task document, mutation owners, HTTP endpoint, shell |
| `PowerCapture`, `PowerArchive` | | the recording of power samples: sessions and queue; data, space and export |
| `StartupRun` | | startup analysis and the automation lock |
| `WorkflowHistory` | | abstract: what undo and redo promise |
| `TestScript` / `Workflow` | / `TestScript` | operators on scripts / the editor, with `History == INSTANCE WorkflowHistory` |
| `TestRun` | | the test runner and the bench it drives |
| `LogicCapture`, `LogicSetup`, `LogicDecode` | | captures and streams; settings and request; decoder |
| `TaskPage` | | task card with the stored blob |
| `OtaClient`, `ConfigUI`, `GpioPad`, `LiveBoard` | | the firmware page, the saved configuration, the pinout, the live state |
| `SerialLog`, `SerialLink` | | text of a serial channel; sessions of both |
| `MCControl`, `MCConfigService`, `MCStartupRun` | the module they name | values for TLC |
| `MCUploads` | `TaskStore`, `Ota` | the two uploads of the firmware |
| `MCLogicPages`, `MCWebPages`, `MCWebTasks` | the web modules | pages side by side; the second with fairness |
| `ConfigService_proofs`, `ConfigUI_proofs`, `OtaClient_proofs`, `LogicCapture_proofs`, `PowerCapture_proofs` | the module they name, `TLAPS` | theorems; the first also those of `Control` |
| `BoardPage_proofs` | `LiveBoard`, `GpioPad`, `TaskPage`, `TLAPS` | theorems |
| `Uploads_proofs` | `TaskStore`, `Ota`, `TLAPS` | theorems |
| `TestPage_proofs` | `WorkflowHistory`, `TestRun`, `TLAPS` | theorems |

A step of a firmware model is a stretch of one thread between two points at which another thread, a work item
or a reset can come in: a critical section, a flash write, an arbiter operation. A step of a web model is one event and
the code it runs up to the next await. `PROJECT.json` `map` gives the source lines of every definition. Definitions whose
comment starts with *Mutant of* are plausible slips in that code; they are no part of any specification and serve to show
that each property can be broken.

An MC module that puts several components side by side has a variable `focus`: a behaviour is about one of them, and the
variables of the others keep one initial value. The components do not interact there; it only saves starting TLC once
per page.

**Control.** `live[i]` is the firmware's record of catalog item *i* (a rail, a route or a GPIO with its direction and
level); `vio` is the voltage the VIO regulator really drives. `call[t]` is the setter thread *t* is
in, and at which section. Every setter is one section, except `usb_route_set` (`usb_vdd_on`, `usb_mux`, `usb_vdd_off`) and
`vin_route_get` (`vin_route_read` outside the lock, `vin_route_store` inside). `Faulty` items may fail
at any access and `Missing` items have no ready device.

**ConfigService.** `flash` is the settings blob, reduced to the kind the decoder makes of it and its
snapshot; a snapshot is a function from items to a value or "none", which is what the sorted entry list
of the code denotes. `store` and `svc` are the two status records with the counters as the code keeps them. An
operation (`op[t]`) walks through *wait, acquire, acquire_flash, capture, store / delete, replay, setting,
release_flash, release_capture*; a replay calls the setters of `Control` and waits for
their result, so other setters interleave with it. `authorized` and `touched` are history variables. The entries are
replayed in the order of `Rank`, the ten stages of `config_replay.c`.

**Ota.** `ota`, `uploads`, `busy`, `otaFlash`, `slot`, `scratch`, `wd`, `work` are the upload record,
each connection's POST, the step of the handler that holds `ota_lock`, the arbiter, the MCUboot slots, the retained
markers, the watchdog flags and the two work items. `mcuboot` is external: the swap it performs. The digest and
header checks are reduced to "all fragments arrived intact", the health verdict to a free choice. The rigid variable
`site` says what may happen to this board: who uploads which images, whether the server hands over the rest of
a body already refused, and what clears the scratch registers. `Undisturbed` sites have one client, a server that stops at
a refusal, and registers that last; what the roll back promises holds there.

**TaskStore.** A document is the sequence of the units it is made of, each unit tagged with its
connection and its place in the body; whether it parses is a free choice. `post[c]` is how far the server has
delivered a PUT and whether it was refused, `upload` the static buffer, `op[t]` the mutation of the HTTP or shell thread
and `listed` the summaries a GET has read before it reads the document.

**PowerCapture.** A sample is its sequence number. The page's refs, its session and the queue of database writes are one
record each; the two directions of the WebSocket are queues; every function of `powerCaptureStore.ts` is one transaction,
except recovery, which reads in one and writes in another. **PowerArchive** follows the values of the
samples of one recording at a time (sums, extrema, thinned preview, chunks) through storage, pruning, recovery and export.

**StartupRun**, **TestRun**, **LogicCapture**, **TaskPage**: a run is a chain of awaits; its record holds the place in
the chain and what the closure read before it. A cancelled chain goes on until the code looks. Records of ended runs are kept for
the properties.

**TestScript, Workflow.** A script is a sequence of units of steps, groups, loops and conditions with ids; names and patterns are reduced
to whether the rules ask for them. The undo lists are mapped to `WorkflowHistory`.

**LogicSetup** translates both sides: the page's normalisation and the checks of the firmware. **LogicDecode** has the
mapping of signals to pins, the module that loads at the first use, and the lanes of the annotations.

**ConfigUI, OtaClient, LiveBoard, GpioPad, SerialLog, SerialLink** keep the hooks' refs and states by their names; React
effects are steps of their own behind the render they belong to, and the debugger is what answers.

**LiveBoard** has the polled and the live mode, and of the power capture what the modes and the socket do to it and it to them: `captureState` as
*idle, connecting, on* (armed or recording) and *saving*, the pending configuration that the next socket arms, the session and the ones being saved. A capture
that is not idle keeps a hidden page at work, so each of its states matters to the modes; `PowerCapture` has what it records.

## 3. Runs

| run | module | checks | shows |
| --- | --- | --- | --- |
| `control_usb_race` | `MCControl` | `MuxAttachesLiveHub` | **violated** with two callers (section 8) |
| `control_vin_race` | `MCControl` | `VinRecordCoherent` | **violated** with two callers (section 8) |
| `config_two_clients` | `MCConfigService` | `TypeOK` `OwnersHeld` `ReportMatchesFlash` `DangerConfirmed` `OkMeansApplied` `FlashWrittenByOwner` `ImplementsPersistentConfig` | two clients save, clear and set hardware under captures, OTA, storage faults and resets; the service implements `PersistentConfig` |
| `config_one_client` | `MCConfigService` | `ReplayIsExact` `HubFollowsRoute` `VinRecordCoherent` `MuxAttachesLiveHub` `MutexReleased` | replays over four stages, any access failing; with one caller the setters keep hub rail, mux and VIN record in step; every operation ends |
| `config_pending` | `MCConfigService` | `PendingCountsUnapplied` | **violated** (section 8) |
| `uploads` | `MCUploads` | `OwnersFollowMutation` `RamIsFlash` `AnswerIsStored` `ListNeverMixes` `StoredIsOneBody` `HandlersAreGuarded` `UpdateCanRollBack` `UpdateRollsBack` | two PUTs of a document and the shell; two uploads, test, confirm, auto-confirm, fault hook and every reset |
| `ota_slot_overwritten` | `MCUploads` | `RollbackImageKept` | **violated** when a refused body is delivered on (section 8) |
| `web_pages` | `MCWebPages` | `RecordingsAreSound` `CompleteIsFinal` `ArchiveIsSound` `AnalysisIsSound` `ScriptIsSound` `RearrangingKeepsCommands` `ImplementsHistory` `PadIsSound` `LinksAreSound` | recordings, startup analysis, editor, pinout and serial sessions |
| `web_tasks` | `MCWebTasks` | `RunnerIsSound` `RunnerStepsSafely` `LogicPageIsSound` `TasksAreSound` `UpdatePageIsSound` `ConfigPageIsSound` `BoardPageIsSound` `SerialTextIsSound` `TasksFinish` | the tasks of the pages, and that they end |
| `web_logic` | `MCLogicPages` | `SetupIsSound` `DecoderIsSound` | settings against the firmware's limits; the decoder |
| `startup_stop_report` | `MCStartupRun` | `RunEndsPowered` | **violated** (section 8) |
| `logic_trigger_pin` | `MCLogicPages` | `ClickedIsTrigger` | **violated** (section 8) |

What the less obvious properties say:

* `ReplayIsExact`: the counters are the numbers of applied and pending items, what is applied is a prefix of the replay order, and an
  item reported *applied* has its saved value on the hardware unless an ordinary setter changed it since. The last depends on the
  order: `usb_route_set` drives the hub rail, so the rail must come after the route.
* `OkMeansApplied`: an operation about to answer success has its very snapshot in flash and every listed item applied.
* `ImplementsPersistentConfig`: what is in flash changes only by storing values read at *one* moment, confirmed
  if dangerous, or by a clear.
* `HandlersAreGuarded`: OTA owns the flash exactly while an upload, a reboot into a test or a confirm needs it; an upload in progress belongs to a
  connection whose POST is open; no fault is armed inside a confirm.
* `UpdateCanRollBack` (undisturbed sites): an accepted test reboots, of a whole image, and the image that last ran confirmed stays
  in the secondary slot while the running one is not confirmed. `UpdateRollsBack`: then a watchdog reset ends in the application with that image.
* `StoredIsOneBody`: a stored document is one stretch of one PUT's body up to its end, from its beginning unless
  that PUT had been answered 409 or 413 before. In that case the remaining fragments are taken for a new upload,
  and its tail is stored if it happens to parse: the property states what the code does, and how far it goes.
* `ListNeverMixes`: GET reads the summaries and the document in two locked sections; a shell clear between
  them may answer the tasks of a document next to an empty one, never next to another document.
* `RecordingsAreSound`: an archive is whole or says what it misses, is of one recording, and is not deleted under its writer.
* `RunnerStepsSafely`: a wait begins at the first unread byte, and nothing powers the bench of an aborted run.
* `TasksFinish`: under the fairness of section 5, a page that has something under way comes to rest.

Deadlock is checked in the firmware runs, whose specifications have no terminal states. The runs of pages and of a startup analysis bound the
user's clicks and may stop when these are used up.

## 4. Bounds

| run | bounds | why they suffice |
| --- | --- | --- |
| control | 3 or 4 items, 2 threads | the only setters that touch a second item are those of "usb" and "vin"; one rail and one GPIO stand for the rest, which are single sections on one item |
| `config_two_clients` | 3 items, boot thread and 2 clients, 1 competing owner per arbiter | two clients give every overlap of two operations and of an operation with a setter; a third would queue on the mutex. "usb" and "vdd_5v" are the only coupled items |
| `config_one_client` | 4 items of four stages, 1 client and the boot | a failure at the first, a middle and the last entry of a replay |
| `uploads`, tasks | 2 connections, `Limit` 2, `MaxBody` 4 | a body may fit, be one too long, or be refused and still have a tail as long as the buffer |
| `uploads`, OTA | 2 connections with one image and everything that may happen, or 1 connection with two images and an undisturbed site; `Size` 2 | first, middle and last fragment, an overlong body; rollback needs an old and a new image |
| `web_pages`, capture | two recordings of one sample with faults, the startup page and another tab; one of three samples in two chunks with a dropped one | a recording interacts with the one before it; the first, an inner and the last write of the queue |
| `web_pages`, the rest | two startup analyses; scripts of 3 items and 4 commands, 3 edits, 2 undo entries; 2 pins, 2 presses; 2 ports with 4 calls, 2 sockets; 3 recordings of 3 samples and room for 4 | nesting needs an item in an item next to another; the undo limit is passed; a port is claimed while another channel's call waits; pruning removes one of three |
| `web_tasks` | 4 plans of the runner, 3 arrivals in a ring of 2; 2 clicks and a frame of the analyzer; 2 runs on 2 mounts of the card; 3 events on 2 mounts of the firmware page; 2 calls and 2 events at the configuration; 2 live sessions and 3 events of the board; 3 pieces of text | every bound lets one operation overlap the one before, behind a remount where there is one; three events of the board are a recording, the loss of its socket or its cancel while it is saved, and the next capture |
| `web_logic` | 3 pins, 6 rates and counts at each limit; 2 selections, 2 captures, 2 settings | each limit of the page and of the firmware has a value on both sides |

No counter of the models grows without one of these bounds; the generation counters of the code are modelled where something
compares them (`ConfigUI`, `SerialLink`). Symmetry is used over interchangeable clients in runs without liveness
properties.

## 5. Fairness

* `config_one_client` assumes weak fairness of the boot steps and, per thread, of the service steps and
  hardware sections. Zephyr's scheduler eventually runs a ready thread, the sections wait for nothing but mutexes
  whose holders run, and the arbiters refuse instead of waiting. Nothing is assumed of clients, other owners
  or resets: a reset during an operation is one of the ways it ends.
* `web_tasks` assumes weak fairness of what the page has under way (`TasksGoOn`): a promise settles with an answer or with the
  timeout the code gives it, a due timer fires, a pending effect runs. Polling is fair by itself. Nothing is assumed of the user or of the target.

## 6. Proofs

TLAPS proves the following for every catalog, thread set, set of connections, images, competing owners, sites, plans and limits permitted by the
named `ASSUME`s (`ItemsAssumption`, `ServiceAssumption`, `TaskAssumption`, `OtaAssumption`, `TestRunAssumption`, `ConfigAssumption`,
`LiveBoardAssumption`, `TaskPageAssumption`, `LogicCaptureAssumption`, `PowerCaptureAssumption`), which TLC evaluates in the runs.
Every inductive invariant was first checked by TLC on the bounds of the run that checks its consequence.

**Control** (in `ConfigService_proofs`). `ControlTyped` is proved for any number of threads by induction over `ControlInv` (types, and
which calls may be in which section). The three *Alone* theorems say that with a single calling thread
the hub follows the route, the mux attaches a live hub, and the VIN record is the regulator's: the races of
`control_usb_race` and `control_vin_race` need concurrency and nothing else. Their invariant `AloneInv` adds what the
thread relies on between its sections.

**ConfigService.** `Invariant` proves `IInv`, one lemma per conjunct and one step per action under it:
*TypeOK and CallShape*; *SnapsTyped* (a snapshot holds only values of its items); *MutexInv* (mutex and
owners are held exactly by the thread between taking and releasing them: `OwnersHeld` alone is not inductive, because
"nobody else holds it" is needed to keep it); *RecordInv* (the records agree with flash also while
the mutex is held); *GateInv* (a captured snapshot passed the gate); *ReplayInv* (a replay works through the snapshot in flash,
and what it left behind is applied); *OkMeansApplied*. From it follow `Typed`, `OwnersAreHeld`, `ReportIsFlash`, `DangerIsConfirmed`,
`SuccessMeansApplied` and the action property `OnlyOwnerWrites`.

`ReplayStaysExact` needs `ReplayWorkInv` beside `IInv`. It says of every stretch of a replay, and of the set that a client
makes meanwhile, that the counters agree with the records, that the work left is the entries still
pending, and that this work is in replay order. The order is strict because no two items have the same rank (`RankInjective`,
by cases on the stages and the catalog order of the GPIOs), and the USB route comes before the hub rail (`UsbBeforeRail`). The
middle of a replay is where the invariant is needed: a failure there leaves records that the boot, a later save and the report all start from.

`ServiceImplementsPersistentConfig` maps every action to a step of `PersistentConfig` or a stutter: the reading of the values that passes
the gate is `Capture`, the write that succeeds `Commit`, the delete `Clear`, a write that fails or a reset ahead of it the loss of the
capture, and setters and replays `Hardware`. That a captured snapshot reaches the flash as it was read needs *MutexInv*: no second
operation is between its capture and its write, so nothing overwrites the one snapshot buffer.

**TaskStore** (in `Uploads_proofs`). `TaskInvariant` proves `TaskInv`: types, `OwnersFollowMutation`, *MutexFollowsCommit* (the runtime
lock is held across a step exactly by the thread between its flash write and the RAM copy), *RamInv* (RAM is flash except
in that stretch, and its summaries are always of its document), *OpInv* (an operation that reports success stored its document, a clear has
none), *ListInv* (what a GET has listed is still in RAM, or was cleared) and *UploadInv* (what is in the buffer was sent by a connection).
From it follow `TaskTyped`, `OwnersDiscipline`, `RamAgrees`, `AnswersHold` and `ListsAgree`.
`BodyInv` adds where the bytes of the buffer are from: one stretch of one body that ends where its POST is. `StoredIsOneBody`
follows, for any number of connections, sent in any order and dropped anywhere.

**Ota** (in `Uploads_proofs`). `OtaInvHolds` proves `OtaInv`. *GuardInv* is for every site: types, `HandlersAreGuarded`, and *HolderInv*, what the handler that
holds `ota_lock` across steps has made of the state (a confirm has entered the gate and is neither an upload nor a reboot; a test request is
rebooting); without it the flash could be released under a confirm. *SlotInv* and *RequestInv* are for undisturbed sites: an unconfirmed
image runs marked and pending with the confirmed one behind it, a requested swap is rebooting, a verified upload is a whole image, and a
body that is still to come belongs to an upload that is idle, failed or under way. From them follow `OtaTyped`, `HandlersStayGuarded`,
`RollBackStaysPossible` and the action property `WatchdogRollsBack`. The run `ota_slot_overwritten` shows that the hypothesis on the server cannot be dropped.

**WorkflowHistory** (in `TestPage_proofs`). For any kind of snapshot and any limit the two lists fit (`HistoryAlwaysFits`) and undo followed by redo returns to
the same script (`UndoNeverLoses`); the editor implements this history in `web_pages`.

**TestRun** (in `TestPage_proofs`). `RunInvariant` proves `RunIInv`, from which `RunSound` (the invariant `RunnerIsSound`) and `RunSafe` (the action
property `RunnerStepsSafely`) follow. *InPlace* says where in the chain of awaits the runner is and what it has under way there; *Recorded*,
*Decided* and *Branching* tie results, outcomes and the branch at hand to the steps that ran: that only the selected branch runs needs that its check
came first and is the only one of its condition. That is `Expanded(plan)`, the one assumption on plans, and `buildExecutionPlan` sees to it: it refuses
a script with two items of one id and puts a condition's check ahead of its branches. *InHand* and *LeavesBoardSafe* tie what was driven to what
the cleanup has left to do, a command whose answer is still out included; without *InHand* a rail that is being switched on by an aborted step would be
unknown to the cleanup. *TextInv* says how long the buffer of the channel and that of a wait are, and that no hit lies in what a wait has
seen so far; with *CursorIsExact* it gives that a wait ends with the first hit that was not consumed. Texts and plans are of any length.

**ConfigUI.** `ConfigPageSound` proves `ConfigPageIsSound` from `CfgIInv`. *WaitersWait* and *LatestIsBehind* relate every waiter to the requests that
can settle it: a request of its generation or a later one was read behind the change its call made, and if there is none on the way its answer is the
one shown; `ShowsWhatWasSaved` alone says nothing of calls that are not over. *OneCallPerCard* and *OneMutation* say which call pending and busy belong to,
over all cards that came and went; *AsksForSelected* keeps what a dialog named and what is sent
together, from which `AskedIsSent` follows; the other inclusion does not hold (section 8, `usePersistentConfigCardModel.ts:162`).

**LiveBoard** (in `BoardPage_proofs`). `BoardInvariant` proves `BoardInv`, for any number of live effects, refreshes and events: the
life of each effect and of its session, the one mode the page is in and what that mode owns, and *CaptureInv*, what the capture is in each of
its states. *CaptureSound* counts the recordings that are being saved, the one of the page and those it has let go of; *Unbound* is what a
capture is without an open socket: not recording, nothing sent and nothing announced. Each way to lose the socket (its failure, the cleanup of the effect, a
frame that cannot be read) has to lead there. `BoardPageHolds`: no session of the debugger is left without an effect that
ends it, one mode runs at a time, and a recording that loses its socket is being saved. That the page is *on* or *connecting*
without any socket is possible (section 8), and the invariant says exactly when.

**GpioPad** (in `BoardPage_proofs`). `PadInvariant` proves `PadInv`. *PadGood*: a gesture belongs to one pin, and one that may still
write has written nothing; with timers and pointers of several pins in the air, that is what keeps a hold that ends late
from writing for another pin. *CardGood*: the card shows a pending write exactly while its own one is out. `PadHolds` follows.
That the writes are serial is stated over the positions of the log, so that the invariant needs no induction over it.

**OtaClient.** `CardsInvariant` proves `CardsInv`, over all mounts of the card and what each left behind:
*CallInv* (a call is of this mount or an earlier one and of a loop that has begun; a hash is of the file of its job),
*LockInv* (whoever has the lock is the one call that acts), *LoopInv* (the loop of the effect of now is asleep or in
one call) and *BusyInv* (which call ends what the card is busy with: `BusyIsReal` alone only says that there is one).
`UpdatePageHolds` follows; that there is one acting call is *LockInv* and the cardinality of a singleton.

**TaskPage** (in `BoardPage_proofs`). `TaskPageInvariant` proves `TaskPageInv`, over every mount of the card and the runs each left behind: which run
holds the automation lock and which one keeps the card of now busy, that a run in its loop is one of those, and where the recipe of a
run is from - one that still fetches a stored task was not in the catalog and is not builtin. From it follow three of the five parts of
`TasksAreSound`: `TaskRunsExclusive`, `TaskRecipesOwn` and `TaskCardBusy`. The other two, `SendsAsConfirmed` and `RunsItsScript`, compare what
was sent with a fold over the stored blob and stay with TLC.

**LogicCapture.** Every click starts a task of its own, and the tasks share one connection, so `LogicInv` says what each owns while it
lives. *OneOccupies*, *Streams* and *Shown*: the busy marks are those of one capture or stream, and what is shown as armed or
capturing has a task that will end it, which may be the one that cancels. *Linked*, *Sessions*, *Gone* and *Generations*: the socket and
its session belong to one task that connected in the current generation; a session of an older one is to be deleted. *Tended*: a
connection, frames in the queue and activity have a task that will close them, and behind a cancelled capture it is the one that cancels.
*QuietRuns*: while a capture that began alone runs, every sample in the queue and on the wire is its own; that needs *Tended* (nothing is
left when no task is) and *OneOccupies* (nobody begins beside it). *Cancelled*: a capture that was cancelled will see it. The step of
a task is a chain of operators on the state, so `LogicInv` is a predicate of a state and each operator has a lemma that it
keeps it; the actions combine them. `LogicPageSound` follows, for any number of clicks and frames.

**PowerCapture.** Two invariants, over any number of recordings, each with its own chain of database writes of any length.
`CaptureInvariant` proves `CaptureInv`: *CompleteRests* (behind a complete archive there is no recorder, write or end under way) and
`ReceivingIsSaved`, which is kept because only the first stage of an end awaits an acknowledgement. From it follows `CompleteHolds`: no late
write, second end, recovery or other tab changes a complete archive. `RecordingsAttended` proves the part `RecordingIsAttended` of
`RecordingsAreSound` from `AttendInv`: *Tended* says who settles a recording (*Held*), both when its archive is open and when the write that
opens it still waits in the chain; and that in a chain nothing begins behind a deletion (*InOrder*), so that what a cancel deletes does not
come back. The chains are treated as lists of any set: what is proved about them is what `Append`, `Tail` and a join keep. *PageFree* is why
an arm does not take the page from a recording, and where it breaks is said in section 8 (`useBoardCapture.ts:157`). The other two parts,
`CompleteIsWhole` and `CountsMatchChunks`, are about sums over the chunks and stay with TLC.

**Model-checked only.** Liveness (`MutexReleased`, `TasksFinish`) and ENABLED are outside the prover's reach, and so is what a fold or a recursive operator
computes for every input, which needs induction over data: the invariants of `Workflow`, `LogicSetup`, `LogicDecode`, `PowerArchive` and `SerialLog` rest on
such operators, and `ImplementsHistory` on those of `TestScript`. `AnalysisIsSound` is stated for the modes `web_tasks` and `web_pages` give
`StartupRun` and is false in the others (section 8, 5). `CompleteIsWhole` and `CountsMatchChunks` of `PowerCapture` are sums over chunks; `LinksAreSound` of
`SerialLink` is checked by TLC on the instances above, and no inductive invariant is known for it yet.

## 7. Environment assumptions

* One HTTP server thread calls every HTTP handler, so two requests interleave only between fragments.
* Whether the server hands over the rest of a body after an early answer is not decided by this repository; `Drains` of `TaskStore` and
  the sites of `Ota` cover both.
* A failed settings write or delete leaves the old value (the NVS contract); a successful one is atomic.
* The system work queue is cooperative: its items do not overlap.
* MCUboot runs in swap mode and is modelled by `mcuboot` (external). The erase ahead of an upload may or may not reach the swap
  request in the slot's trailer.
* A watchdog or cold reset keeps the scratch registers; power loss and entering the bootloader clear them (`site.interruptions`).
* A cold reboot may be reported as a timer reset by the chip: both are tried.
* JavaScript runs to completion and microtasks come before the next event; an IndexedDB transaction is atomic; each direction of a
  WebSocket is first in, first out; a React effect runs behind its render and before the next one of its component.

## 8. Disagreements found and observations

1. `control_usb_race` (`control.c:1106`): "the VDD_5V hub domain must be live before the mux attaches it" holds for one
   caller only. The rail and the mux move in separate critical sections.
2. `control_vin_race` (`control.c:1181`): `vin_route_get` stores a reading taken outside the lock. A set in between leaves
   the record on the old route; a save then stores that, and the next set to it drives nothing.
3. `config_pending` (`config_replay.c:236`): after a failed replay `pending` does not include the failed item,
   though `docs/reference/persistent-configuration.md` defines it as the saved items not currently applied.
4. `ota_slot_overwritten` (`ota.c:949`): a later fragment of an upload refused during a pending test sets `FAILED`, which lifts the
   guard; the next upload then erases the image to roll back to.
5. `startup_stop_report` (`components/StartupPowerAnalysis.tsx:917`): "Stop and report" before the first byte ends the run, but `start()` still waits;
   it goes on, switches the rail off and arms anew behind a run that is over.
6. `logic_trigger_pin` (`components/LogicAnalyzerCard.tsx:1380`): a click stores the index the pin has before the pins are sorted, so another pin
   becomes the trigger.

Places where a property is qualified because the code goes that far and no further; each is said in the comment of the definition:

* A change of the shared voltage looks for connected channels once; a connect that is under way then opens at the old assumption (`SerialCard.tsx:328`).
  The events of a broker's socket that was replaced still reach the channel (`SerialTerminalPane.tsx:684`).
* An export of a recording that is pruned or cleared meanwhile ends as a success with fewer rows (`powerCaptureExport.ts:207`). Making room for
  a recording deletes older ones first and may then refuse all the same. A recovered recording's trigger is an
  index into all samples, while the samples shown are thinned (`powerCaptureStore.ts:764`).
* "None" for an optional SPI signal is undone by the next reconciliation (`logicDecoder.ts:153`). A decode whose module never arrives stays
  "loading" (`LogicAnalyzerCard.tsx:1194`).
* A recording that is cancelled while it is being saved ends later, and that end makes the page idle whatever it records by then
  (`streamingCaptureFinalize.ts:155`); the next arm replaces the session of the recording in between without ending it (`useBoardCapture.ts:157`), and its
  archive stays open. It takes three recordings, so the run of two never gets there; it was found while proving, and `RecordingIsAttended`
  leaves it out by the history `crossed`.
* A confirmed save confirms all of its ids (`usePersistentConfigCardModel.ts:162`), also one the dialog did not name: an item that turned dangerous since the page
  read it, or one shown with the risk of its saved value (`config_http_encode.c:152`) while its live value, which the save stores, is dangerous.
* `armCapture` turns the live mode on without knowing whether a link is about to fail (`useBoardCapture.ts:172`). When its `setLive(true)` meets the
  `setLive(false)` of a failing link before the effect runs, the mode has not changed, no effect runs, and the capture stays "connecting" with nobody who connects
  until the user cancels it or turns the mode off and on. `NobodyConnects` leaves this out of the liveness of the board.
* With a server that drains refused bodies an accepted test may never reboot, and a loss of power between the swap request and the planned
  reboot starts the test image without its marker: it is neither confirmed automatically nor spared BOOTSEL at the next watchdog reset.
  Both are why the roll back is stated for undisturbed sites.

## 9. Not modelled, and why

* What cannot happen in the build: a capture of the live values that fails (`config_service.c:171`), since it refuses only a null pointer and a catalog too long.
* A DELETE of a live logic-analyzer session that fails (`useSigrokScope.ts:83`): the page forgets the session all the same.
* Pure data: JSON and line grammars, sigrok and HTTP encodings, the built-in catalog, the native protocol decoders, unit conversions.
  Where a decision of a model depends on one (does the document parse, is the header valid) it is a free choice.
* Hardware: PIO programs, DMA, ADC readings, USB enumeration, DHCP and DNS.
* Presentation: shell output, TUI, drawing, texts (`i18n.tsx`), tray.
* Capture arena, WebSocket sessions of the firmware and the sampler; the host's serial broker and log (Rust): state machines of their own, not done yet.
* The command-line client's task runner: the same fail-stop dispatch as `TaskPage`, not translated a second time.
* Build files, packaging, scripts and tests (read for intent only).

## 10. Plan

Order of work, most important first. Done: the modules of section 2 and the proofs of section 6.

| step | module | content |
| --- | --- | --- |
| 1 | `SerialLink` | the inductive invariant of `LinksAreSound`, and its proof |
| 2 | `Workflow` | every step of the editor maps to a step of `WorkflowHistory` or a stutter |
| 3 | `CaptureArena`, `CaptureSession` | lease with quiesce and resume; teardown undoes what prepare took |
| 4 | `SerialBroker` | subscribe, claim, idle close, disconnect |
| 5 | `Firmware` | one arbiter pair shared by `ConfigService`, `Ota` and `TaskStore` in place of the free environment of each |

## 11. How to run

    tlasany M.tla
    tlc -workers 2 -config X.cfg MCM.tla
    tlapm M_proofs.tla

The longest runs are `web_tasks`, `web_pages` and `uploads` (about two and a half minutes each with two workers).
