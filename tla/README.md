# TLA+ specifications of the BC-250 controller

The BC-250 controller is ESP32 firmware that switches the power supply of a BC-250
board: it closes the PS_ON contact of the supply, presses the board's power switch,
reads whether the board runs, and offers all of this to push buttons, a serial shell,
a web interface, MQTT, Zigbee and an arriving BLE game controller.  This directory
specifies the parts of it whose behaviour depends on time, on the order of requests
or on the interleaving of tasks; checks them with TLC on small instances; and proves
the most important properties for every value of the constants with TLAPS.

Paths below are relative to the repository root (`src/power_service.c` is the
firmware's power service).  `PROJECT.json` holds what a tool reads: which definition
models which lines, the runs, the hazards with their lines, the findings, and for every
property a mutation of the model that breaks it.

Contents: [1 The system](#1-the-system) - [2 Modules](#2-modules) -
[3 Runs and bounds](#3-runs-and-bounds) - [4 Fairness](#4-fairness) -
[5 Proofs](#5-proofs) - [6 Findings](#6-findings) -
[7 What is not modelled](#7-what-is-not-modelled) - [8 Plan](#8-plan)

## 1 The system

`app_main` starts the services in order; each service owns its state as static
variables of one file and at most a few FreeRTOS tasks.  They interact through two
queues (the application event queue of `app_events.c` and the request queue of
`power_service.c`), through direct calls, and through the getters of the power service.

```
 buttons --+                      +--> power_service --request--> power_logic --> PS_ON,
 BLE ------+--> event queue --> dispatcher (app_main)                |            switch
 Zigbee ---+        ^             +--> zigbee, mqtt <-- is_on, state-+
                    +---------------- "power changed" ---------------+
 web, shell, MQTT --request--> power_service        (they may also open the AP, save settings)
 config AP (wifi_service) --pause/resume--> zigbee_runtime        (one shared 2.4 GHz radio)
 config_store <-- boot, health check, web, shell
```

| Component | State it keeps | Operations | What is hard about it | What makes it correct |
| --- | --- | --- | --- | --- |
| Power state machine, `core/power_logic.c` | state, both outputs, pulse and handoff flags, three timestamps | `bc250_power_request` (on, off, toggle, force off), `bc250_power_tick` | six start strategies; hold, delayed Off and inter-output delay multiply; any request may meet any state, sense and deadline | the outputs follow the state; no request cuts the supply of a running board or presses its switch by accident; every timed state ends |
| Power service, `power_service.c` | filtered sense and its timer, settling time, request queue, last announced state | `power_task`, `bc250_power_service_request`, getters | requests before the sense has settled, bouncing input, full queues, getters read in other tasks | it is a power state machine and serves every request it has queued |
| Events and dispatcher, `app_events.c`, `app_main.c` | a queue of 24 events | `bc250_event_post`, `dispatcher_task`, `healthy_task` | events overtaken by the state they report | reports show the power |
| Zigbee service, `zigbee_service.c` | On/Off attribute (in the stack); `s_started`, `s_joining`, `s_joined`; availability and time of the last PSU report | coordinator's write, attribute update; the stack's signals, commissioning, factory reset; PSU attributes and reports | the power is read in one task and set in another; own updates look like commands; signals, requests and reports share one task queue that can be full | the attribute follows the power; the flags tell of the network; a fault of the PSU is told in the end |
| Zigbee runtime, `zigbee_runtime.c` | event bits, `s_paused`, mutex, the queued stop | start, worker, `set_paused` | pause and resume from several tasks, timeouts, failing stops, callbacks left over | a pause that succeeded has the radio; a router that may run does |
| Configuration store, `config_store.c` | active and pending blob and boot count in NVS; `s_config`, `s_using_pending` in RAM | init, save, mark healthy, admin reset, factory reset | a crash or a failing write between two writes; four tasks | at most two trial boots; a healthy fallback; nothing lost; a reset password stays reset |
| Configuration AP, `wifi_service.c` | `s_config_ap`, `s_wifi_started`, generation, activity timer; the driver's mode | open, close, expiry, pairing, radio action | no lock; every call may fail half way; opened while closing | AP and router never share the radio; failures leave everything in agreement |
| Configuration validation, `config_validation.c` | none | one predicate on a record, warnings, the pins a scan may use | roles, PSU and buttons share the GPIOs; what is required depends on the method of switching power | what it accepts, the other parts can run with |
| Serial shell, `serial_service.c`, `serial_config.c`, `core/shell_args.c` | the line being edited, `s_edit` | line editing, commands, settings | edits that outlive a password reset | see the configuration store |
| Web server and status, `web_server.c`, `status_service.c` | session, `s_radio_busy` | HTTP handlers, delayed restart | handlers work on copies of shared settings | see store and AP |
| Buttons, `button_service.c`, `core/button_logic.c` | per button: debounce, clicks, press time | scan | bounces, the double-press window, long presses across it | one gesture gives one event |
| BLE presence, `ble_presence.c`, `core/ble_match.c`, `core/presence_logic.c` | last seen, present | advertisement, timeout, scanning on and off | a controller that comes and goes at the timeout | one arrival per arrival |
| I2C bus, `i2c_service.c` | mutex, bus handle and its pins | start, read, recovery, address scan | a scan may create a bus of its own on other pins; every call may time out | one task at a time; a temporary bus is gone after its scan; no pin of another role is driven |
| PSU monitoring, `psu_i2c_service.c`, `core/hp_commonslot_*.c` | status and data under a lock, address of the EEPROM, its buffer | poll of the registers, search for the EEPROM, publication | scans of the shell and the web come between two registers; a transaction fails half way; the PIC keeps the command it was given | what is published is one whole pass; availability follows the device |
| MQTT, `mqtt_service.c` | `s_connected`; in its task what is still to subscribe and to announce; the client's outbox | connection events, announcements, state, commands | a reconnect while a message did not fit; what an earlier boot left at the broker; a will | shown online only with a state of this boot; everything is told in the end |
| OTA, `ota_service.c` | partition handle | upload, mark valid | - | - |
| GPIO and status LED, `gpio_service.c`, `status_led.c` | pin levels, blink pattern | register writes | - | - |
| Target stubs, `*_stub.c` | none | constant functions | - | - |

The hazards of this code, each at the line where it bites and with the properties that
would show it going wrong, are listed in `PROJECT.json`.

## 2 Modules

| Module | Models | Composition |
| --- | --- | --- |
| `PowerLogic` | the state machine, driven as `power_task` drives it | - |
| `PowerService` | `power_task` around it, request and event queue | INSTANCE `PowerLogic`, which it implements |
| `ZigbeePower` | dispatcher and On/Off attribute | EXTENDS `PowerService` |
| `RadioGate` | abstract: what `zigbee_runtime.h` promises to the AP | - |
| `ZigbeeRuntime` | worker, `set_paused`, stop callbacks | implements `RadioGate` |
| `ConfigStore` | NVS slots and everybody who writes them | - |
| `WifiAp` | the AP, the station, the tasks that open and close it | uses `RadioGate` for the Zigbee runtime |
| `Buttons` | gesture recognition and the task that runs it | - |
| `BlePresence` | NimBLE host task and `presence_task` on one presence table | - |
| `Inputs` | both as producers of the event queue | EXTENDS `Buttons`, `BlePresence` |
| `ConfigValidation` | what is accepted as settings; the shell's draft | - |
| `I2cBus` | mutex, bus and scans | EXTENDS `ConfigValidation`: which pins may be scanned |
| `PsuTelemetry` | `psu_task` on that bus | EXTENDS `I2cBus` |
| `MqttReport` | MQTT's event handler and task, client, broker | EXTENDS `PsuTelemetry`: the status it sends |
| `ZigbeeReport` | signals, flags and PSU reports of the Zigbee service | EXTENDS `PsuTelemetry` |
| `Telemetry` | all of these as `app_main` starts them | EXTENDS `MqttReport`, `ZigbeeReport` |
| `MC...` | configurations and scenarios for TLC | EXTENDS the module of that name |
| `...Proofs` | theorems and proofs | EXTENDS the module of that name and TLAPS |

`PowerService` has no run of its own: `ZigbeePower` contains it, and with the scenario
`Alone` nothing else.

Variables and actions bear the names of the source where it has one.

**PowerLogic.**  `logic` is `bc250_power_logic_t`; `Request(act)` is
`bc250_power_request`, `Tick` is `bc250_power_tick` with one definition per arm, and
`Sample` begins a pass of `power_task`: the clock advances, the sense is read.  `pc`
says whether the tick of this pass is still to come, since the outputs matter at the end
of a pass and requests are served before it.  A timestamp of the code is an age here:
the code only ever compares `elapsed(now, started)` with a threshold, so an age may
saturate at `AgeCap`, which no threshold exceeds.

**PowerService.**  One action per part of the loop body: `Sample` (clock, `update_sense`,
settling), `Serve` (one queued request), `Tick` (tick and notification); `RequestPower`
is `bc250_power_service_request` in any task; `PostOther` and `Receive` are the other
ends of the event queue.  A send to a full queue is dropped, and `announced` is set all
the same, as in the code.

**ZigbeePower.**  The dispatcher takes an event, and reads the power and posts it in two
steps (`ReadPower`, `PostReport`); the Zigbee task runs the posted callback
(`UpdateAttribute`); the coordinator writes (`RemoteWrite` is `zcl_handler`); the stack
starts and stops with the AP.  The stack is external and modelled from its use.  Dispatcher
and `zcl_handler` ask with two getters whether the power is on and whether a shutdown is
pending, and `power_task` may run in between; so `DecideArrival` is followed by
`DecidePending` and `RemoteWrite` by `ConfirmOn`.  The handlers of the Zigbee task do not
interleave with each other (`InHandler`).

**ZigbeeRuntime.**  `set_paused` is split where it takes or gives the mutex, waits, or
reads what another task writes; `at[c]` is where caller `c` is.  The worker is split
the same way.  `granted` of the gate is `paused` with no pause under way, `router` is a
worker between its claim and the end of its teardown.

**ConfigStore.**  Every `nvs_set` and `nvs_erase` is one step, which may fail in the
scenarios with `nvs_fails` and be the last before a crash in those with `crash`.  A
password is a number, growing with every one set, so that *older* can be said; the
settings besides it are one value.  `config_put_handler` copies `s_config` without the
lock: while admin reset assigns it, the copy may be torn.  `trials`, `confirmed`,
`accepted` and `shown` are history variables.

**WifiAp.**  A step is what a task does between two calls to the driver, to the Zigbee
runtime or to the kernel; `left` is the number of calls that may still fail.  `start_ap`
and `bc250_wifi_close_config_ap` are sequences of steps that any of the tasks runs; the
rest of the module says who begins them and what it does when they return.  In `start_ap`
may fail: the driver's and the interface's creation (`ReadOpen`, before the first AP), the pause
(`Pause`), `set_mode`, `set_config`, the start of a driver that does not run, the task of the
expiry, after which the AP is closed, and the web server, after which it stays open
(`StartWatcher`).

**Buttons.**  `Scan` is a pass of `button_task`; each field of `bc250_button_logic_t` is
one of `Button`, timestamps being ages as above.  `waiting` and `answered` count presses,
where they begin and apart from `clicks`, so that a gesture can be compared with what
was pressed.

**BlePresence.**  `Hear`, `SetPresent`, `Stamp` and `Arrive` are the writes of the host
task for one matching advertisement; `BeginPass` (clock reading, switch of the scan),
`Look`, `Drop` and `EndPass` are the loop of `presence_task`.  With `Cores = 1` the host
task, whose priority is higher, runs to its end but may begin anywhere; with 2 the two
interleave freely.  `passAge` is the age that follows from the clock reading of the
pass; `silence`, kept by what is heard and not by what is stored, says what should
count as an absence.

**Inputs.**  `EmitAction` and `PostArrival` post without waiting and drop what finds the
queue full.  What becomes of an event is in `ZigbeePower` and `WifiAp`.

**ConfigValidation.**  `Valid` is `bc250_config_validate` with one definition per group of
checks (`PinOK`, `PinInUse`, `RequiredRoles`, `FixedPinsOK`, `ButtonOK`, `TimingOK`), `Warned` the
warnings, `I2cPinsOK` the pins of a scan.  `EditSetting` is the shell's `set`, one setting of
`s_edit`; `SaveConfig` and `DiscardConfig` are the two ways out of a draft.  The properties
say in the words of docs/CONFIGURATION.md what each method needs (`RolesAreWired`), and in those
of `PowerLogic` and `Buttons` what their timing must be (`TimingIsSafe`).

**I2cBus.**  `bus.owner` holds `s_mutex`; `driver` tells the bus that monitoring keeps from
one that a scan has created.  `ScanStart` is everything before the first address,
`ScanProbe` an address with its recovery, `ScanEnd` the rest.  A scan that finds the clock held
low probes nothing, but has taken the mutex and created its bus by then (`blocked`).  The wires are in one of five
states that the code reacts to differently.  `asked` is the command the PIC has been given:
the code relies on write and read being one locked transaction.

**PsuTelemetry.**  One action per stretch of `psu_task` between two points where another task can
come in or a call can fail: `PsuLock`, `PsuWrite`, `PsuRead` are a register with its retry
after a timeout, `PsuPublish` the critical section, `Identify`, `IdProbe`, `IdRead` and
`PublishIdentity` the search for the EEPROM under one lock.  A reading is the register that
was answered for and a chunk the address it came from, so a mixture can be seen.

**MqttReport.**  `Collect`, `Check`, `Subscribe`, `Discover`, `PublishState`, `PublishOnline` are
the loop of `mqtt_task`; before it `MqttStart` is `bc250_mqtt_service_start`, which gives up for
this boot without memory, and `AwaitAddress` and `StartClient` are the task's two waits, for the
station's address and for a client that starts; `Connect`, `NotifyTask`, `Disconnected`, `Birth` are `mqtt_event`, the
flag and the notification of CONNECTED being two steps.  One discovery message stands for
nine, which are queued and started anew together.  `outbox` counts messages where the code
compares bytes.  What the state says is `psu_i2c.available`.  Client, network and broker are
external.

**ZigbeeReport.**  `StackStart`, `Initialized`, `Steered`, `Leave` are `signal_handler`,
`Teardown` is `zigbee_teardown`, `Ask` is a commissioning or reset request of any task,
`PsuPost` the end of each pass of `psu_task`, and `Callback` what the stack's task makes of
the head of its queue.  `lastReport` is the timestamp as the code uses it: never, or more or
less than the interval ago.

**Telemetry.**  A scenario says who acts; the actions wrap those of the modules.  The reporters
see of the PSU what it publishes under its lock and nothing else, so in their scenarios
`Sample` stands for a pass: it may at any time publish a PSU that is available or not.

Definitions named `Mut...` are plausible bugs: the definition after it with a guard
dropped, a boundary moved or a reset forgotten.  No specification uses them.  Put in the
place of the right definition, each makes the property it belongs to fail.

## 3 Runs and bounds

Time is in abstract units.  A threshold only matters by its order relative to others and
to one pass, so the instances use small distinct values.

**PowerLogic** (passes).  All six strategies, with and without `hold_ps_on`, with an
immediate and a delayed Off, with and without inter-output delay: 48 configurations, all
requests in all states, any sense.  Button pulse 2, handoff 2, start and shutdown timeout
5, forced hold 4, cooldown 6, passes of 1 to 3 units: every timer can expire before,
with and after every other, and a pass can jump over two of them.  Shows that the outputs
match the state at the end of every pass (`OutputsMatchState`: PS_ON covers a held board,
nothing stays driven without a cause, the switch is not held beyond its time, a latch
mirrors its state); that a shutdown is orderly (`ShutdownIsOrderly`: PS_ON never opens under a
sense that stays on, a shutdown is never turned into a start); that starts are
(`StartsAreOrderly`: they wait for the cooldown and press once); a running board is pressed
only to stop it; a pending Off keeps its deadline; timed states end.

**ZigbeePower** (passes).  Three scenarios: local users with sensed methods and a quiet
coordinator; a latch with a delayed Off and with coordinator, button and BLE acting at once on
a stack that restarts; and no Zigbee, with every request and two methods with delay.  Timings 1 or 2,
a request and an event queue of 1, so that both overflow, and two callbacks on their way:
enough for an update to overtake another.  A clock in the MC module measures the time between
two changes of the filtered sense.  Shows that the service implements `PowerLogic`
(`ImplementsPowerLogic`), acts on a sense that has settled, at boot and after every bounce
(`SenseSettles`), serves what it has queued (`RequestsAreServed`), and that the attribute follows
the power or an update is on its way (`AttributeFollowsPower`, stated for the first scenario: a
stack that starts meanwhile, a coordinator's own writes, a flood of events or a latch
toggled within one pass may leave the attribute behind).  393,000 states.

**ZigbeeRuntime** (passes).  Three callers, since an AP can be opened and closed by three
tasks that wait for one mutex; one fault kind at a time, waits that time out or stops
that fail; two stop callbacks queued, so that a stale one meets a new one.  Shows that a pause
that succeeded has the radio, that the runtime implements `RadioGate`, and that nobody is
stuck (`NobodyIsStuck`): no failed pause leaves the router suspended, and the mutex is released.

**ConfigStore** (passes).  Two settings besides the defaults (the one running and the one
staged), three passwords (two changes are needed for an old one to come back), and four
scenarios: everybody saving in turn, everybody at once with crashes, shell alone and web
alone with crashes and failing writes.  Shows the five safety properties of the table in
section 1, and that accepted settings stay staged until booted, when saves come one at a
time.

**WifiAp** (passes).  Two openers besides boot, web and expiry task; three profiles; one
operation at a time with up to two failing calls, which reaches every way back and
every failure during a way back, and overlapping openers without failures; three openings.
Everyone may rest once no opening is left, so deadlock is not checked in these runs.
Shows `NeverShareRadio`, agreement of flag, driver and gate whenever nobody works
(`RestIsConsistent`), that an idle AP closes, that a failed pairing reopens the portal,
and that a radio action ends.

**Inputs** (passes).  One button with debounce 2, double-press window 3, long press 4 and
a click counter that saturates at 2, passes 1 or 2 apart; one controller that is absent
after 2; one core; a queue of 1.  Buttons do not influence each other, nor do controllers,
except through the queue.  Shows that gestures tell what was pressed
(`GesturesTellPresses`) and that a controller arrives once per absence, although the
host task interrupts `presence_task` at any point (`ArrivalsTellAbsence`).

**Telemetry** (passes).  Four scenarios, 288,000 states together.

- *settings* (13,000 states): five pins for four roles, bus and a button, one of them blocked,
  one input only, and two safe, so that outputs meet a pin that only a button or the sense may
  have, and warnings differ; three configurations to boot with; any two settings changed one after
  the other, with saves and discards in between.  Two changes away from an accepted
  configuration is every way to break one check while meeting the others.
- *bus* (110,000): `psu_task` and two scanners with pins that are those of the kept bus, partly so,
  or a blocked one; five states of the wires changing at any step; two registers, two EEPROM
  addresses of which at most one answers, two chunks: enough for a pass to break off in the
  middle and for a chunk to follow another address's.
- *wifi* (149,000): a start without memory, breaks, lost links not noticed yet, wills, changes of the station, no
  memory, an outbox of 2 messages that takes none above 0: it can be full before each of a
  pass's messages.
- *zigbee* (15,000): a queue of 2, joining, leaving, teardown, reset, attributes that cannot be
  set, and reports that are refused as long as nothing has been reported.

Shows that accepted settings are sound (`AcceptedIsSound`), the bus is one task's
(`BusIsShared`), readings are published whole (`PublishedIsWhole`), availability follows the
device (`PsuFollowsLine`), the broker shows the controller online only with a state of this
boot (`OnlineMeansKnown`) and is told everything in the end (`HomeAssistantIsServed`), the Zigbee
flags tell of the network (`FlagsTellNetwork`) and a fault is told (`FaultIsTold`).  Deadlock is not
checked: the settings scenario ends with `MaxEdits`.

Five runs each show one violated property; see section 6.

These limits of the passing runs are choices, made where the code is known to fail
otherwise: `ZigbeeRuntime` excludes both fault kinds in one run, `WifiAp` excludes
closing while another task opens, `ZigbeePower` leaves out a second Off of the coordinator
while one is pending, `Inputs` has one core, and in `Telemetry` one EEPROM
answers and reports are lost only before the first complete set, and only where the stack
refuses them.  Violation runs lift the
first three; for the others see section 6.

## 4 Fairness

- `power_task` (`Sample`, `Serve`, `Tick`): weakly fair.  It has the highest priority of
  the application's tasks and blocks only in its 20 ms delay.
- The Zigbee worker, the task that called `set_paused`, tasks in the
  middle of an AP operation and the expiry task: weakly fair.  They are tasks of their
  own, and each wait they make either has a timeout or is for a queue.
- The mutex of the runtime is not assumed to be handed out fairly: `LockIsReleased` says
  that its holder lets go, not that a given caller gets it.
- `RunStop` of the Zigbee worker is fair as a step of a mainloop that runs its callbacks.
- Time (`FiveMinutes`) passes.
- In `Telemetry` `psu_task` (its waits have timeouts), the end of each sweep (it gives up after
  three seconds), `mqtt_task` (it waits at most five seconds), the client's task with the
  notification after CONNECTED, delivery by the client library while the link is up, the
  stack's task serving its queue, and the post at the end of each pass: weakly fair.
- Requests, users, BLE, the coordinator, AP clients, the router's own comings and goings
  in `WifiAp`, wires, links, joining, connecting, crashes and failures: never fair.  The liveness
  properties say what follows once they stay as they are.

The configuration store has no liveness property: whether a trial ends depends on reboots
that nobody has to make.

## 5 Proofs

Seven modules of theorems, `PowerLogicProofs`, `ZigbeePowerProofs`, `ZigbeeRuntimeProofs`,
`ConfigStoreProofs`, `WifiApProofs`, `InputsProofs` and `TelemetryProofs`, hold for all values
of the constants that satisfy the modules' assumptions.  These are

- what `bc250_config_validate` guarantees of the timing (`TimingAssumption`, `ConfigsAssumption`:
  nonzero pulses, timeouts longer than the pulse, `config_validation.c` 275-280; the power
  service repeats them as `LogicAssumption`), and that a long press is longer than the debounce
  (`ButtonsAssumption`, `config_validation.c` 261).  That validation does guarantee this is itself
  proved, as part of `AcceptedSound` (`TimingIsSafe`);
- that the debounce of the sense takes time and the queues have room for an event
  (`ServiceAssumption`, the code's 8 requests and 24 events);
- that the controller boots with settings that validation accepts (`SettingsAssumption`: with
  others `app_main` starts neither power service nor buttons nor PSU monitoring, only the ways
  to repair them), and that the outbox has room for a state and an "online" above its mark
  (`MqttAssumption`);
- that model values are distinct from each other (`RuntimeAssumption`, `StoreAssumption`), that
  bounds are natural numbers, and that at least one AP can be opened, since a boot opens one
  without asking (`ApAssumption`).

Every invariant and every action property that a passing run checks is stated by a theorem,
with the hypotheses given below where it needs any.

**PowerLogic.**  `TypeCorrect`; `OutputsMatch`, from `HoldCovers`, `OutputsReleased`,
`ButtonReleased` and `LatchMirrors`; `ShutdownOrderly`, from `HoldKept` and `StopFinal`;
`DeadlineHolds`; `RunningBoardSafe`; `StartsOrderly`, from `StartsSpaced` and `OnePulse`.  None of the invariants is inductive alone: in
the middle of a pass the outputs may still belong to the sense of the pass before.  The
inductive invariant has two parts.  `SoundLogic` holds at every point: the switch is
pressed in starting and stopping only, a finished start pulse is released, an off state
has PS_ON open, a held board that stops or is pending has it closed, a latch mirrors its
state.  `EndOfPass` holds after the tick and says what the tick has repaired.
The proofs go helper by helper (what `Enter`, `Idle`, `BeginStart`... build is
sound), then arm by arm of the request and the tick.  The action properties follow
from the invariant and a case split over the actions.  Those about starts need two facts
more (`StartInv`): a latch method never has the sense on, and a start that has handed PS_ON
over has given its pulse, so no later pass presses again.

**ZigbeePower.**  `ServiceImplements` is the refinement: every step of the service, the
dispatcher, the stack, the coordinator and the users is a step of `PowerLogic` or leaves
its variables alone.  The arms of the tick and the request are the same formulas, so the work is in `Sample`
(debounce and settling yield a reading `PowerLogic` allows) and in showing that nothing
else touches the logic.  `ZInv` takes the inductive invariant of `PowerLogic` over as it is and adds
the types and bounds of queues, ages and callbacks (`ServiceSound`, `StackSound`).  From it:

- `StackTyped`, in every scenario.
- `Settles`, from `NothingEarly` and `FlipsSpaced`.  The first holds because a tick before the
  settling time is over has no request to act on and a logic that is off or on; the
  second because the input has differed from the filtered sense only since the last flip
  (`Spacing`), which the clock of the MC module measures.
- `AttributeFollows`.  `Follows` says that unless a notification is still to be read, the last
  value posted to the stack's task, or the attribute if none waits, is the filtered sense, or
  the sense of the pass before while the tick that will notify has not run.  A value read
  too early is therefore always followed by another one, and callbacks keep their order.
- `ServiceOutputsMatch`, `ServiceKeepsDeadline`, `ServiceShutdownOrderly`, `ServiceStartsOrderly`:
  what is proved of the state machine, carried over to the service by the refinement.

**ZigbeeRuntime.**  `TypeCorrect` and `NotForgotten` for any number of callers under all
faults; `PauseIsExclusive` and `Implements` (the safety refinement of `RadioGate`: the
gate has no fairness, so this is all of it) under `NoLateResult`, which excludes
precisely the combination of faults for which the violation run shows `PausedMeansIdle`
false.  The invariant says that the event bits tell where the worker is, that the lock
holder is the one caller inside, that stops exist only for a mainloop and come with a
run token once nobody is paused, and that a recorded failure belongs to the pause that
reads it.

**ConfigStore.**  All six safety properties of its run: `TypeCorrect`, `NothingIsLost`,
`FallbackWasHealthy`, `TwoTrialsAtMost`, `OldPasswordsAreGone`, `AcceptedSettingsAreTried`, over all
scenarios, settings and numbers of passwords.  The
invariant adds to each what the half-done operations have already written: the health
mark gives up the pending slot only when the active one holds the running settings
(`Stored`), the stored count is never behind the real one (`Counted`), a reset that has
come to its second write has done its first (`Rehash`), and the control part that ties
`at` to `lock`.  `AcceptedSettingsAreTried` speaks of scenarios without crash, failing write and
saves during a trial, the last being what `ConfigStore_resaved` shows to go wrong.  Its
invariant (`Staged`) says why they suffice: when settings are accepted no trial is under way,
the boot count is zero, and the health check has no pending slot to erase.

**WifiAp.**  `TypeCorrect` for all scenarios: any openers, any overlap, any number of failing
calls.  What needs an invariant there is the number of openings: a request is let in
below `MaxGeneration`, but counted only when its AP has started, so the invariant (`Room`)
counts the openings still to come.  `RadioNeverShared` and `ConsistentAtRest` hold under
`NoOverlappingClose`: one operation at a time with any number of failing calls, or any
number of openers at once without a failure.  The invariant (`State`) says for every step that
a task can be at what the task has done so far and still finds so (`Place`), and that flag, driver and
gate agree but for the steps at which a task is between two of them (`Agree`).
`Exclusive` says who may be under way beside whom.  The hypothesis cannot be dropped, see
section 6.

**Inputs.**  All three properties: `TypeCorrect`, `GesturesTold`, `ArrivalsTold`, for any
buttons, controllers, timings and queue length.  For the buttons the invariant equates
the presses that wait with the clicks counted and the press under way (`Accounted`,
an inequality once the counter is saturated) and says that no pass leaves a gesture
behind that it could have reported (`Exhausted`).  For presence on one core it says that
a controller heard without a gap has arrived and is no older than its silence, unless
the host task is just about to stamp it (`HeardInv`), so that what is about to be dropped
has been silent (`DropInv`), and that what the clock reading of the pass calls absent is
still to be looked at, being dropped, or just heard again (`LookInv`).  The buttons
stand still when presence moves and the other way round, so each part is proved by
itself (`NextMovesOne`).

**Telemetry.**  All six safety properties of its run: `TypeCorrect`, `AcceptedSound`, `BusShared`,
`PublishedWhole`, `FlagsTold`, `OnlineKnown`, for any pins, registers, chunks, scanners, queues and
outboxes.  Each action changes the variables of one part, so each part has an
invariant of its own and the parts are joined at the end.

- Settings: validity is kept (`SettingsInv`) because only `SaveConfig` changes them; that a valid
  configuration is sound is `ValidIsSound`, an argument about the pairs of pins that the checks
  compare, one check after the other.
- Bus: scans and transactions are where their owner says, a temporary bus has a scanner as its
  owner, and the pins of any bus passed `I2cPinsOK` of the settings that still run (`BusInv`).
- Passes: all registers below the current one are read and right, as is the command the PIC was
  given while `psu_task` holds the bus; the buffer of the EEPROM holds the chunks of one
  address up to the current one when only one answers (`OneEepromAtMost`).
- Zigbee: `joined` needs a started stack and a network, `joining` a steering in progress (`FlagsInv`).
- MQTT: as long as the broker has no state of this boot, every "online" in the outbox comes
  right after a state, the task is about to queue one only after a state at its end, and
  "online" at the broker belongs to a connection that broke (`OnlineInv`).  Deliveries take the
  head, expiry a prefix that ends with an "online", so the order survives both.

**Only model-checked**: whatever rests on fairness or ENABLED, which TLAPS does not
prove here.  That is `TimedStatesEnd`, `RequestsAreServed`, `NobodyIsStuck`, `IdleApCloses`,
`FailedPairingReopens`, `ActionEnds`, `PsuFollowsLine`, `HomeAssistantIsServed` and `FaultIsTold`.

## 6 Findings

Each is a property that a document or comment of the repository states and TLC shows
violated.  The full text with both quotations is in `PROJECT.json`.

| Run | What happens |
| --- | --- |
| `PowerLogic_off_during_start` | Off or Force off during the handoff of a start, with the power already detected, cancels the start instead of shutting the board down (`core/power_logic.c` 175, 186; against docs/CONFIGURATION.md 12 and 49). |
| `ZigbeePower_pending` | A second Off of the coordinator during the pending delay leaves the attribute off until the delay ends (`zigbee_service.c` 143; docs/API.md 41, docs/ZIGBEE.md 150). |
| `ZigbeeRuntime_late_result` | A stop left over from a pause that timed out fails during the next one, whose own stop then succeeds: the pause is reported done with the router on the radio (`zigbee_runtime.c` 105; `zigbee_runtime.h` 9). |
| `ConfigStore_resaved` | Settings saved while others are on trial inherit their boot count and are rolled back early, perhaps unbooted (`config_store.c` 325; docs/SETUP.md 13). |
| `WifiAp_overlap` | An AP opened between clearing the flag and resuming Zigbee of a close shares the radio with the router (`wifi_service.c` 286; `zigbee_service.h` 10, docs/TESTING.md 91). |

Four more are known and have no run; each shows with a change of constants.

- On ESP32 and S3, with two cores, `presence_task` may
  read `present` as just set by the host task together with the `last_seen_ms` of long
  ago (`core/presence_logic.c` 16 and 17), drop the controller that has just arrived, and
  let it arrive again with its next advertisement, against docs/TESTING.md 43.  With
  `Cores = 2` and the guard `Cores = 1 =>` of `ArrivalsTellAbsence` removed TLC shows it in
  fifteen steps.
- `read_identity` reads the EEPROMs of all addresses into one buffer.  When one that does not
  decode was read whole and the next one answers only for a while, the published EEPROM is
  begun by the one and ended by the other (`psu_i2c_service.c` 68; docs/API.md 27 calls it the
  last complete read).  With `Fittings <- TwoEeproms`, `Scenarios = {"bus"}` and `EepromIsWhole` as
  an invariant of `Telemetry` TLC shows it.
- The Zigbee callback remembers an availability before it knows that the change was reported
  (`zigbee_service.c` 396).  A report lost then leaves the coordinator with the old status
  flags, against docs/ZIGBEE.md 177 and 179.  With `LostReports = {"first", "later"}` and
  `Scenarios = {"zigbee"}` TLC shows `FaultIsTold` violated.  It does so with
  `LostReports = {"first", "silent"}` as well: a report that the stack takes
  (`zigbee_service.c` 359) and does not deliver counts as sent, so that not even the flags of a
  first set are repeated.
- When two tasks open the AP at once and the second one's `esp_wifi_set_mode` fails, that task clears
  `s_config_ap` and resumes Zigbee under the AP that the first has started, since its
  `already_open` was read before (`wifi_service.c` 151, 160 and 161; against
  `zigbee_service.h` 10).  With `Scenarios == [overlap : {"opens"}, failures : {1}]` TLC shows
  `NeverShareRadio` of `WifiAp` violated.

## 7 What is not modelled

- **Hardware and SDK.**  GPIO writes are the outputs of the logic; NVS is a log of
  writes that survive or do not (no bit errors, no interrupted page erase); the Wi-Fi
  driver has a mode and runs or not; the Zigbee stack is a task queue that takes every
  callback, at most `ReportCap` in `ZigbeePower` and `StopCap` in `ZigbeeRuntime`.
- **The clock.**  It counts milliseconds in 64 bits and never goes back, so `elapsed` needs
  neither a width nor its clamp here; ages saturate where no comparison can tell.
- **Data.**  Blob checksums, migration from older formats, defaults, parsing, JSON,
  HTML, password hashing, advertisement bytes, checksums and conversions of readings, TLS.
  Ranges that no other setting depends on are one flag of the settings.
- **In WifiAp** the IP events and `s_connected`, the DNS responder, and the timeout of the
  runtime's mutex while resuming: only another operation's pause or resume holds that mutex, so
  it needs operations that overlap, and of these the passing run has openers without failures,
  none of which resumes.
- **In I2cBus** a failure of `i2c_del_master_bus` (`i2c_service.c` 237): the driver refuses to
  delete a bus that devices were added to, and none is added to a temporary one.
- **In ZigbeePower** that the stack's own queue may be full; `ZigbeeReport` has it.  A lost
  notification of the power (`power_service.c` 153) is a drop in the model, and the next
  change makes up for it; no property claims more.
- **In Telemetry** saving settings under a running PSU task or reporter: a save reboots.  Power and
  sense in the status JSON, which change like the availability that is modelled.
- **In Inputs** the matching of advertisements and the list of discovered devices, which are
  data, and what a lost arrival or action would have done.
- **Components not modelled at all**: OTA is a linear upload into the SDK
  with one mark after thirty seconds, the status LED chooses a pattern from flags, the
  stubs return constants, the shell's line editing and the web server's request handling
  are parsing: nothing there depends on order or time.

## 8 Plan

Done, in the order in which a failure would hurt: `PowerLogic`, `PowerService`,
`RadioGate` and `ZigbeeRuntime`, `ZigbeePower`, `ConfigStore`, `WifiAp`, `Inputs`, then
`ConfigValidation`, `I2cBus`, `PsuTelemetry`, `MqttReport`, `ZigbeeReport` and their composition
`Telemetry`; proofs of every safety property of every passing run.

The project is kept at a dozen runs and forty properties, so that it stays quick to
check: a new property takes the place of a shallower one.  The findings of section 6
that have no run are the first candidates for one.

Prove next: the safety part of the liveness properties, that is, what makes each helpful
step possible and what it brings nearer (a timed state of `PowerLogic` has a deadline that the
age approaches; a request queued is at a place that only moves forward; a caller of
`set_paused` waits only for a holder of the mutex that is not waiting itself), the abstract
properties of `RadioGate` carried over to `ZigbeeRuntime` as those of `PowerLogic` are to the
service, and what `WifiAp` needs to know of the gate beyond its specification.

## 9 Running it

```
tlc -workers 2 -config PowerLogic.cfg MCPowerLogic.tla
tlapm PowerLogicProofs.tla
```

and likewise for the other runs of `PROJECT.json` and the other `...Proofs` modules.
