# Verification of ugreen_leds_controller

TLA+ models of the programs that drive the front LEDs of UGREEN NAS devices,
checked with TLC on small instances, whose safety properties are proved with TLAPS
for every value of the constants. The models are translated from the source
under `src/`; `PROJECT.json` maps every definition to its lines.

## 1. The system

The LEDs belong to a microcontroller (the MCU) on an I2C bus. A 12-byte write
to register `led id` changes one property of one LED (colour, brightness, or
its mode: on, off, blink, breath); register 0x80 then says whether the last
write was accepted. Three programs can own the MCU, one at a time: the daemon
`ugreen-ledd` (`ebpf/`), the kernel driver with the scripts that write to its
sysfs files (`kmod/`, `scripts/`), and the command line tool (`cli/`).

| Part | Source | State it keeps | Operations | Interacts with |
|---|---|---|---|---|
| LED controller | `ebpf/src/led_controller.c` | fd, cache of each LED's registers | open, close, invalidate, set_color, set_brightness, set_on, set_blink | MCU over I2C; called by the three LED parts |
| Disk collector | `ebpf/bpf/disk.bpf.c` | hash maps `disk_targets`, `disk_states` | one program per block request, on any CPU | maps refilled by the daemon; events ring |
| Network collector | `ebpf/bpf/network.bpf.c` | `network_state` under a spin lock | one program per packet, on any CPU | events ring |
| BPF runtime | `ebpf/src/bpf_runtime.c` | libbpf object, links, TC filters in the kernel, ring | start, stop, consume, clear and set targets | collectors, event loop, filters of other programs |
| Disk LEDs | `ebpf/src/disk_led.c` | slot table, one timerfd, uevent socket | init, sync_bpf, handle_activity, handle_timer, handle_uevent, cleanup | LED controller, maps, kernel uevents, sysfs, udev's database |
| Network LED | `ebpf/src/network_led.c` | pending bytes, led_on, timerfd | init, add_sample, render, handle_timer, cleanup | LED controller, scheduler |
| Pulse scheduler | `ebpf/src/scheduler.c` | credits and pulse counts | choose_rx | Network LED |
| Power LED | `ebpf/src/power_led.c` | none | apply | LED controller |
| Daemon life cycle | `ebpf/src/main.c`, `systemd/ugreen-ledd@.service` | poll set, error, pending SIGTERM | read the configuration, start each part, loop, stop in reverse order, exit status; the unit restarts it on failure | all of the above |
| Configuration | `ebpf/src/config.c` | `struct config` | defaults, lines of the file, options, final check | daemon |
| Disk layout | `ebpf/src/disk_layout.c` | none | path to bay, by product | disk LEDs |
| Kernel driver | `kmod/led-ugreen.c` | mutex, cache of each LED | sysfs stores and shows, probe, remove | MCU; LED class; triggers |
| Health monitor | `scripts/ugreen-diskiomon`, `check-standby.cpp` | LED colours in sysfs; `device_valid`, `device_standby` | SMART, ZFS, online and standby loops, each a process | kernel driver through sysfs; disks |
| Network monitors | `scripts/ugreen-netdevmon*` | lock files | one loop each | kernel driver through sysfs |
| Command line tool | `cli/` | none | names, then a list of operations with retries | MCU over I2C |
| Packaging | `build-scripts/`, `SPECS/`, `kmod/debian/` | none | builds | none |

What is hard here, and what makes each part correct:

* **LED controller.** Writes fail before or after the MCU took them, the MCU
  rejects, the acknowledgement cannot be read, and the daemon restarts while the
  MCU keeps its state. Correct: a setter that answers 0, even one that
  returned early because of the cache, leaves the register as asked.
* **Collectors.** Programs of several CPUs race for one deadline, and the
  daemon deletes and reuses map elements under them. Correct: events are no
  closer than the interval, no request goes unnoticed, no byte is lost or
  counted twice.
* **Disk LEDs.** One thread multiplexes I/O events, deadlines, hotplug and
  stop; commands fail; stale events arrive for disks that are gone. Correct: a
  bay shows what the table says, the table is what a scan would find, every
  blink ends.
* **Network LED.** Traffic arrives during a pulse, while the ring is consumed
  and while it is rendered. Correct: every pulse ends, the LED is dark between
  pulses, what arrived during a pulse is shown next.
* **Scheduler.** Credits live as long as the daemon. Correct: colours follow
  the byte ratio, and old traffic does not pin them.
* **Daemon and configuration.** A start has a dozen steps and each may fail; TC
  filters live in the kernel and outlive a daemon that is killed, and others
  have filters as well. Lines and options undo and complete each other.
  Correct: what was installed goes, what was there stays, a failed start is not
  in the way of the next one, and a configuration that is accepted has none of
  the combinations the rest of the daemon takes for impossible.
* **Kernel driver.** Any number of tasks share one acknowledgement register,
  and what the driver knows survives commands that failed. Correct: what it
  knows of a register is what the MCU has unless the register's last command was
  given up, and then, and only then, a setter may fall short of what it is asked.
* **Health monitor.** Four processes read a colour, ask a disk for seconds and
  write the colour, without a lock. Correct: no stale write hides a failure or
  a sleeping disk for good.
* **Command line tool.** It stops at the first operation that fails, whose
  attempts may have worked. Correct: its exit code tells the truth.

The full list, each at its line, is `hazards` in `PROJECT.json`.

## 2. Modules

| Module | Models | State and actions |
|---|---|---|
| `LedCommand` | the promise of `led_controller.h` | registers, which of them are known, the call and its result; `Answer` (nothing to do) and `Begin` for a `Valid` call, `Refuse` for one the register cannot have (`Invalid`), `ReturnOk`, `ReturnError`: a call has its effect in one step, when it returns |
| `LedController` | `led_controller.c` | cache; `SetInvalid`/`SetCached`/`SetCommand` are the setters up to their first effect; `WriteFails`, `WriteDone`, `Status*` are the steps of `change_status`; `Retry`/`GiveUp` its loop; `Invalidate`; `Restart`. `old` is a history variable, the register when the running setter was called |
| `DiskCollector` | `disk.bpf.c` and the refill in `disk_led.c`, `bpf_runtime.c` | per CPU a program with its local variables; cells of preallocated hash maps; `SyncStarts`, `Clear`, `Enter*`, `SyncEnds` are `disk_leds_sync_bpf`. History: `sent`, the events of each device (named by `event.source`), for ever; `given`, the devices a cell was given to; `found` in a program, which life of the cell it looked up |
| `DiskLeds` | `disk_led.c` in the loop of `main.c` | `slot`, `left` (deadline minus now), `timer`; one action per handler, or per slot where a handler talks to several LEDs, since time passes and the world moves between two commands |
| `NetworkLed` | `network.bpf.c`, `network_led.c` in the loop of `main.c` | bytes in the kernel, per CPU, in the ring, pending; `led_on`, `timer`, the LED. `sent` and `done` are history variables: what the kernel still held when the daemon ends is done with. `Packets` names the packets of a function or a sequence of events by where they are |
| `Scheduler` | `scheduler.c` | credits, pulse counts |
| `Config` | `config.c` | `cfg` is `struct config`; `ReadLine`, `FileEnds`, `ReadOption`, `OptionsEnd` are the steps of `config_load`; a line or an option is a record `[key, value]`, `Accepts` its check, `With` its effect |
| `Daemon` | `main.c`, `power_led.c`, start and stop of `bpf_runtime.c`, the unit; extends `Config` | `pc` is the place in `main`; one action per step of the start; `Attach` and `Detach` per direction; `Cleanup` exits; `Start` by an operator, `Restart` by systemd; `filters` is the kernel's state; `others` is a history variable, the hooks whose filter is not this process's: another program's, a killed daemon's, or one whose removal failed. Of the ways a process ends, only `Kill` hands filters to it |
| `LedDriver` | `kmod/led-ugreen.c` | `state` is `priv->state`; a task calls, locks, looks at its settings one by one (`Skip`, `Send`), unlocks; `WriteFails` ... `StatusRefused` are the attempts; `ProbeStarts` ... `ProbeEnds` and `Remove` bind the driver. `lost` is a history variable |
| `HealthMonitor` | the loops of `ugreen-diskiomon`, `check-standby.cpp` | `color` is sysfs; per loop its place and step (`ReadColor`, `TestDisk`, `WriteFail`); `sb` holds the local variables of check-standby (`Ask`, `Compare`, `Exchange`). `missed` is a history variable |
| `LedCli` | `cli/` | the command line, the LED `i` and operation `j` it is at, `tries`; the MCU as the bytes it is sent; `ack` is register 0x80. `Listings` are the lists of a set of LEDs in the order of `led_name_map`: there is one |
| `...Proofs` | | theorems about the module of that name (section 4); `DaemonProofs` also about `Config`, `NetworkLedProofs` also about `Scheduler`, whose definitions of the behaviours are called `SchedulerInit`, `SchedulerNext`, `SchedulerSpec` |
| `MC...` | | sets, inputs and symmetry for TLC |

`DiskLeds`, `NetworkLed` and `Daemon` each have the part of `main.c` that
concerns them: `Daemon` the whole life with the disk and the network LEDs as
steps that work or fail, the other two the event loop with their own half of
the descriptors. The halves share the LED controller only, and no LED.

Setters in these three are single steps with the outcomes of `LedCommand`
(`Put`): skipped when the register is known and has the value, done and known,
or failed with or without effect and nothing of the LED known. That
`led_controller.c` behaves so, with its attempts, its acknowledgement register
and a cache of values, is what run `led_controller` checks and theorem
`Implementation` proves: `LedController` implements `LedCommand` under the mapping
`Shown`, in which a register counts as what it was (`old`) until its setter
returns, and `Known`, the registers the cache has a value for. Its steps before
the return are stutters. A bay's colour and brightness never change and are one
register `look`.

Definitions named `Bug...` are mistakes that could have been made in the
definition after them. They belong to no specification; each is substituted
for its neighbour to see that a property notices.

Abstractions, and what is assumed of the environment:

* usleep, timerfd_settime and opendir of `/sys/class/block` succeed; led ids are
  valid (all callers pass constants). Nobody else writes to the MCU: the
  README of `ebpf/` names the daemon its sole owner.
* The next deadline of `NetworkLed` counts from a clock reading before the lock
  (`network.bpf.c:29`), and so may be closer than an interval.
* The MCU has handled a command when its acknowledgement is read, 2 ms after
  the write; before it does, register 0x80 does not say 1 for it.
* A BPF hash map is a set of preallocated elements; a delete frees one without
  clearing it, an insert writes a free one whole. The read of `led_id` through
  the pointer of the first lookup is not followed further.
* Deadlines are times left, in ticks. Ticks happen at any moment, also inside
  handlers, so a command may take any time.
* Bytes are counted in packets. Saturation at 2^64 is out of the models.
* Scheduler credits are exact rationals; long double rounding is left out.
* A uevent that is not about a block device has no effect (`is_block_uevent`)
  and is not sent. The socket holds none, some, or too many announcements.
* `Config` has the settings that interact: interface and the three parts, the
  two disk times, the power mode with its times. Colours, brightnesses and the
  other times are checked in the same way and stand alone. Text is not modelled
  (comments, quotes, strtoul); text that is no number is a number out of range.
* TC filters are those with the handle and priority the daemon uses; libbpf
  works or fails as a whole per call, and an attach to a hook that has such a
  filter fails.
* systemd restarts at once; its limit on starts is not modelled.
* `LedDriver` has no readers: `status_show`, `color_show` and `get_brightness`
  change nothing (they read without the mutex and may mix two commands, which is
  a hazard without a property). Return values are left out. Removing a device
  waits for the tasks that use it, as `led_classdev_unregister` and sysfs do;
  until the next probe the MCU may change in any way. Probe ignores whether
  `led_classdev_register` worked (`led-ugreen.c:529`); an LED that was not
  registered is one that no task calls.
* `HealthMonitor` starts with a disk in each bay it watches; the three failure
  colours are one; a write to sysfs works or has no effect, those of the service's
  start included. A restart may find any colours and have its own writes fail; the
  first start of all works (the end of section 3 says what happens if not). No
  colour is `0 0 0`, which the driver takes as off while it keeps the colour it had
  (`led-ugreen.c:220`, `ColorAssumption`).
* In `LedCli` an LED that is not fitted never acknowledges. What the parser
  refuses is one operation, `usage`. `-status` changes nothing; what it prints (times
  for blink only, `ugreen_leds_cli.cpp:74`) is left out.

## 3. Runs

| Run | Instance and bounds | Shows |
|---|---|---|
| `led_controller` | 2 LEDs, 2 registers, 3 values (one an invalid blink), 3 attempts | types; `CacheCoherent`; refinement `Implements`; `CallReturns` |
| `disk_collector` | 2 CPUs, 2 devices, 2 cells, interval 2, clock to 3, 2 refills, 2 events per device | types; `TargetHasState`; `Spaced`; `Noticed` |
| `disk_leds` | 2 bays, 2 disks, hold 1, ring 1, 1 failure, 2 plugs, any number of kills | types; `TimerCovers`; `ActiveBlinks`; `BayShowsState`; `QuiescentSynced`; `StoppedSteady`; `Settles`; `Stops` |
| `disk_leds_fault` | 1 failure, no plug | violates `ReturnsSteady` |
| `disk_leds_serial` | serial mapping, 1 plug, no failure | violates `QuiescentSynced` |
| `network_led` | 2 CPUs, 4 packets, ring 2, 1 failure, any number of kills | types; `Conserved`; `LitHasTimer`; `DarkWhenIdle`; `PulseEnds`; `PendingShown` |
| `scheduler` | shares in sixths, 12 samples | `FairShare`; `NotPinned` |
| `led_driver` | 1 LED with all registers, 2 tasks, 2 attempts | types; `StateCoherent`; `Obeyed` |
| `health_monitor` | 2 LEDs in reverse hash order, one of whose disks changes, all loops, 1 event or restart, 1 failure of a write or of all writes of a restart | types; `ColorFollowsStandby`; `LastingFailureShown`; `SleepShown` |
| `daemon` | 9 files and 47 command lines of up to 2 settings, 1 interface, any filters of others, 1 failure, 1 kill | types; `AcceptedSane`; `OptionsOverride`; `StoppedClean`; `PowerShown`; `ForeignKept`; `FailureRetried` |
| `daemon_restart` | the unit's command line, no failure, 1 kill | violates `KilledRestarts` |
| `led_cli` | 3 LEDs of which 2 are fitted, 8 lists of names, 58 of operations, 2 attempts, 3 failures | `Reported`; `Ends` |

Why the bounds are enough to be of interest: three attempts have a first, a
middle and a last one; two CPUs race and two cells are enough for an element
to be taken over under a program; with two bays one deadline can be hidden by
another and a disk can take the place of another; a ring of one or two records
fills; clock 3 with interval 2 lets a CPU be delayed for a whole interval;
two settings are enough for an option to undo or complete a line, or another
option; one failure reaches every error path of the start, and with a kill a
filter is left for the next start; in `led_cli` two failures exhaust the
attempts of one operation and a third remains. In `health_monitor` a failing,
sleeping or missing disk may be so from the start (any of the first states) or
after the event. Every counter that is bounded (failures, kills, plugs, packets,
refills, samples, clock, events) is a `Max...` constant in a guard. The proofs
of section 4 hold for any bound.

Deadlock is checked except in `disk_collector` and `scheduler`, whose clock,
refills and samples end, and in `led_cli`, whose process ends.

What the runs say in words:

* `CacheCoherent`: a cached register is the MCU's, except the one a running
  call is changing. It needs both that a rejected or unread command is not
  cached and that giving up forgets the whole LED.
* `Spaced`: two events of one device are an interval apart. Exempt is a pair
  with a refill between them, which forgets the deadline: their programs found
  other lives of a cell, or the later one was sent after the cell had been
  given out again. Every event counts as one of the device it names, also when its
  program kept the pointer into a cell that meanwhile serves another.
* `Noticed`: a program that sends nothing is covered by an event of its own
  device, less than the interval before its clock reading or during its run, or
  its cell was taken over under the pointers: a program of the cell's former
  owner won the swap, moved the new owner's deadline, and sent an event of the
  former one (`Robbed`). That request is lost in the code as well; TLC finds it when
  the exemption is dropped. It is bounded: the deadline moves by one interval.
* `TimerCovers`: the one timer is set for the earliest deadline at the latest,
  in every state of the loop, through hotplug and failures.
* `BayShowsState`: a bay whose last commands succeeded is blinking, steady or
  dark as the slot table says, also after restarts and for stale events.
* `QuiescentSynced`: when the daemon waits with an empty socket, the slot table
  and the BPF targets are what a scan would find. Draining the socket before the
  scan, and ending on ENOBUFS, are what make it true. With the serial mapping it
  is false (see below).
* `StoppedSteady`: an orderly stop leaves no LED blinking unless its command
  failed.
* `Conserved`: every packet is in exactly one place.
* `DarkWhenIdle`: no pulse, no failed command: the LED is dark, also across
  a kill during a pulse, and after an orderly stop.
* `PendingShown`: the end of a pulse renders what came in during it.
* `StateCoherent`, `Obeyed`: two tasks and probe send commands to one LED; what is
  remembered is what the MCU has, and a setter leaves out only what is so
  already, unless attempts were used up. The exemption is the code's: after an
  off-command that took effect but was never acknowledged, the driver still
  thinks the LED is on, and writing the brightness it had sends nothing. A
  probe reads the MCU again and ends all exemptions. With one LED the tasks can
  confuse their acknowledgements as well as with several; that more LEDs change
  nothing is what the proof is for.
* `FairShare`: pulses follow shares within half a pulse, for ever.
* `AcceptedSane`, `OptionsOverride`: checks of single settings and one check at
  the end are enough for the configuration as a whole; the last option about a
  setting wins over the file.
* `StoppedClean`, `ForeignKept`: the two directions are attached one after the
  other and either may be refused; what is attached is what is detached, also
  when the start fails later, so a process that ends by itself leaves behind
  only filters whose removal failed.
* `FailureRetried`: after a failure the unit's next start reaches the event
  loop, unless the configured interface has a filter of others: one that was
  there, of a killed daemon, or whose removal failed. A failed start that forgot to
  detach would violate it.
* `ColorFollowsStandby`: a colour that is neither a failure's nor the one check-standby
  believes in never appears, although check-standby exchanges colours without a
  lock; it compares with what it knew before. Exempt are LEDs whose healthy
  colour check-standby was told wrongly (`Told`) and those of which a write
  failed, the restart's included, since the service started (`missed`).
* `LastingFailureShown`: a colour decided on before a failure was found may
  replace the failure's colour, but a later round finds it again.
* `Reported`: for exit code 0 and for every failure, what the LEDs show, and
  which of them were not touched. The numbers compared are those the MCU is
  given, the lit part of a blink and its cycle; the cycle is exempt when it does
  not fit its 16 bits (see below).

### Fairness

The daemon has one thread that is scheduled: weak fairness of `Daemon` in
`DiskLeds` and `NetworkLed`, of `Main` in `Daemon`, of `ChangeStatus` in
`LedController`. Time passes: weak fairness of `Tick`. A BPF program that left its
lock ends: weak fairness of `Output`. The unit says Restart=on-failure: weak
fairness of `Restart`. The loops of the health monitor and check-standby are
processes that are scheduled: weak fairness of each. The command line tool runs:
weak fairness of its steps. Nothing is assumed of disks, traffic, udev, kills or
of operators. `Settles` and `Stops` assume the disks fall silent (`IoStops`),
because `ring_buffer__consume` returns only when the ring is empty; in
`network_led` the bound on the packets plays this part.

### Divergences found

1. `ebpf/README.md:62`: "after the deadline the LED returns to its steady state".
   If the command of the timer's handler uses up its attempts, the slot becomes
   inactive all the same (`disk_led.c:409-415`), no timer remains, and the MCU
   blinks until the disk's next activity (run `disk_leds_fault`).
2. `ebpf/README.md:66`: "Disk presence is updated from block-device uevents".
   With `MAPPING_METHOD=serial` the scan follows the kernel's own uevent at once
   and reads a udev database that udevd has yet to write; udevd's later message
   goes to a group the socket has not joined (`disk_led.c:232`), so the bay stays
   empty (run `disk_leds_serial`).
3. `ebpf/systemd/ugreen-ledd@.service:10`: "Restart=on-failure". A daemon that was
   killed leaves its TC filters on the interface; the next one attaches with the
   same handle and priority and without BPF_TC_F_REPLACE
   (`bpf_runtime.c:45-66`), is refused, and so is every one after it, until
   somebody removes the filters (run `daemon_restart`).

Seen while modelling, and not shown by a run of its own:

* The command line tool takes T_ON and T_OFF up to 65535 each
  (`README.md:114`, and its help), and the cycle, their sum, is sent in 16 bits
  (`README.md:336`). When the sum is larger, the MCU is given a cycle shorter than
  its lit part, which the daemon's own setter refuses (`led_controller.c:297`).
  `Reported` exempts exactly this byte pair.
* A program that looked up a device before a refill can take the deadline of the
  device that got its element (`Robbed`, above).
* When the colour write of a restart of `ugreen-diskiomon` fails, a disk that is
  awake keeps the standby colour of the run before: check-standby is started
  with `device_standby` false, and compares with the healthy colour. At the first
  start, an LED whose colour write fails is white, taken neither for healthy nor
  for sleeping, and a failure of its disk is not shown unless white is its
  healthy colour.
* `ugreen-diskiomon` passes the healthy colours to check-standby in the order of
  `led_map` and the disks in bash's hash order, so with different colours per disk,
  which `ugreen-leds.conf:67` offers, an LED is compared with another's colour.
* The options enable the network again when `-i` follows `--no-network`.
* `find_config_path` knows `--config` and `--config=` only (`config.c:318-326`),
  while getopt also takes abbreviations such as `--conf`, so that file is not read.

## 4. Proofs

All are for every value of the constants, under the `ASSUME`s of the modules.

* `LedControllerProofs`. `Typing`; `Coherence` by the invariant `IInv`, which adds to
  `CacheCoherent` that an acknowledgement of 1 read by the running call means
  the MCU has its value: without it the step that caches would not be provable.
  `Implementation`: each action is mapped to a step of `LedCommand` or a
  stutter. The steps of the attempts stutter because the running call's register
  is its old or its new value all the time (`OldOrNew`); `GiveUp` is `ReturnError`,
  and `StatusAccepted` is `ReturnOk`, for the same reason; `SetCached` and
  `SetCommand` are `Answer` and `Begin` only because of `CacheCoherent`, and
  `SetInvalid` is `Refuse` because `SetCommand` is left to `Valid` calls.
* `DiskCollectorProofs`. `MapsInOrder` needs `Refill`, which says what the maps
  hold in each phase of the refill. `EventsSpaced` is about the events of a
  device, whichever cells and programs sent them. Its invariant says of each event
  which device its program had found, and that the cell's deadline is an interval
  later while the cell has that owner (`EventsOK`); that a deadline is that of an
  event won on the cell (`Deadlines`); that a cell's owner is the last it was given
  to (`Owners`); and that a program about to swap has read the clock at or after
  the deadline it compares, or another event was won since (`Programs`): then a
  swap that succeeds found this very deadline. `RequestsNoticed` follows: the
  event that set the deadline is of this device, or was sent by a program of the
  cell's former owner (`OnItNoticed`).
* `DiskLedsProofs`. `DInv` is a conjunction of parts, each preserved by a lemma of
  its own. `Timing` is `TimerCovers` with the types of the times;
  `EarliestCovers`, about the minimum that `arm_timer` computes, rests on the
  well-foundedness of the natural numbers. `Lights` extends `BayShowsState`
  through the cleanup: slots still to be visited show the table, visited ones do
  not blink; with `Slots` (an active slot has a disk, the timer's handler visits
  active slots, no slot is unscanned at the end) it gives `BayShown`,
  `BlinkIsReal` and `EndSteady`. `InStep` says how far slots and targets follow
  what discover found; with `Fresh`, that a scan is out of date only when a
  uevent is queued, it gives `PortsInStep`. `Fresh` assumes that disks are found
  by their port (`~BySerial`); the serial mapping is where it fails.
* `NetworkLedProofs`, about `NetworkLed`. `Typing`, `LitPulse` and `DarkBetween`;
  the invariant adds what is lit while the daemon initialises, renders and cleans
  up. `Conservation`: `Conserved` counts the packets of the events of all CPUs and
  of all records in the ring, as cardinalities of sets of packets named by where
  they are. It is inductive with the types; what the proof takes is how these
  sets change when a CPU takes or outputs an event, when a record is appended
  to the ring, and when the first is consumed and the others move up, which is a
  bijection between what is left before and after. It needs that there are
  finitely many CPUs, the only assumption on `Cpus`. `PendingNotForgotten` is the
  safety half of `PendingShown`, and no run has it: bytes that were added and not shown
  imply that a pulse is shown, or that the loop is about to render
  (`PendingWaits`). That the pulse then ends is left to TLC.
* `NetworkLedProofs`, about `Scheduler`. The invariant `Credits` says that the two
  credits are opposite, that RX's is what was earned minus what was given, and
  that it lies within half a pulse; `FairShare` and `NotPinned` are arithmetic from
  there.
* `DaemonProofs`. `ParseInv` holds of `struct config` after each setting: a network
  to monitor has a name and the power times fit; `Settled` shows that a setting
  that is accepted keeps this, whatever came before, which gives
  `ConfigurationSane` for every file and command line. `OptionsPrevail` is by the
  invariant `Overrides`: of the options read so far, each is obeyed or one of
  those after it, and read, is about the same setting. An option is obeyed
  (`Obeyed`) and changes nothing it is not about (`OthersStay`); that `-i` also
  enables the network and `--no-network` disables it is why a setting is a field
  of `struct config` here and not an option. `Hooked` says that the
  filters are this process's and others', disjoint, and that the process has some
  only between `Attach` and `Detach`. A process that ends by itself has nothing
  attached where it does so (`Ended`), so `others` grows only by kills and by filters
  whose removal failed; from it `NoFilterLeft` and `OthersKept`.
  `Powered` carries what `power_led_apply` did to the event loop.
* `LedDriverProofs`. `IInv` adds to `StateCoherent` that one task at a time is
  past the mutex, or probe while no LED is registered (`Serial`); that such a
  task has a request for an LED that was read (`Engaged`); and that an
  acknowledgement of 1 answers the running command (`AckAnswers`). `Obedience`
  needs what remains to be done (`Owed`): each register is as wanted, or has a
  setting to come, or lost its last command; so with nothing left to do and
  nothing lost, the known state is as wanted and `Coherence` says the MCU is too.
* `HealthMonitorProofs`. `StandbyFollowed` needs what check-standby holds between
  its steps (`Asking`, `Following`): the mode it is about to note is the opposite
  of the one it knows, the colour it is about to write is that of the new mode,
  and if it decided to write none, the LED shows a failure and nobody takes that
  away before check-standby itself. A restart starts the argument again, for
  the LEDs whose colour was written.
* `LedCliProofs`. `CliTyping`; `ExitTruthful` by the invariant `Work`. While
  operations are applied (`Place`), the LEDs named before the one at hand have all
  operations, the one at hand has those before the operation at hand, which an
  attempt that seemed to fail may have replaced already, and no other LED was
  touched; an acknowledgement of 1 means that the operation at hand is there
  (`Accepted`). Three lemmas carry it: two bytes are read as the number they
  were made of, up to 16 bits (`BytesFit`), so the lit part of a blink reaches the
  MCU as it was asked for, and the cycle does when it fits (`BlinkNumbers`); an
  operation does what it says (`CommandResult`); and it leaves alone what
  operations on other registers did (`CommandKeeps`). An LED that is named twice, or
  that is not fitted, is what makes the statement of `Place` longer than one
  expects. `NoStepTwice` (`Forward`) is the safety half of `Ends`: every step is
  to a later name, LED, operation, attempt, or to the acknowledgement.

All invariants and action properties of the runs are theorems. Only
model-checked: the liveness properties (`CallReturns`, `Settles`, `Stops`,
`PulseEnds`, `PendingShown`, `FailureRetried`, `LastingFailureShown`,
`SleepShown`, `Ends`), which are beyond the prover, and the three violations.
`QuiescentSynced` is a theorem where disks are found by their port (`PortsInStep`).

## 5. Plan

Done, in this order: `LedCommand`, `LedController`; `DiskCollector`;
`DiskLeds`; `Scheduler`; `NetworkLed`; `LedDriver`; `HealthMonitor`; `Config`,
`Daemon`; `LedCli`; and the proofs of all of them.

What could follow: the safety halves of the other liveness properties, as
`PendingNotForgotten` and `NoStepTwice` are of theirs; two daemons of the template
unit on one MCU as an instance of `LedController` with a second writer;
`DiskCollector` extended by the pointer into `disk_targets`.

### Not modelled

* The two halves of the event loop in one model. They share a thread and the LED
  controller, and neither changes what the other reads; each is checked with the
  fairness of the whole thread.
* Two daemons on one MCU: the README of `ebpf/` forbids them, the template unit does not.
* The lock files of the scripts, the loops of `ugreen-netdevmon`, and
  `blink-disk.cpp`, which writes to `shot` and to no state that another reads.
* `disk_layout.c`: tables without state; `DiskLeds` takes their result as
  `Visible`.
* Parsing of text, the search for the I2C device, what libbpf does inside a
  call, shell without state of its own, packaging.
