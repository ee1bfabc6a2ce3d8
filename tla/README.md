# Verification of rtemskit

rtemskit is a kit of drivers and libraries for RTEMS on ARM boards. Its centre is
a port of a driver model: devices described by a device tree are bound to
drivers, probed on demand, removed and unbound by a small core under
`src/drivers/core`. Bus, serial, GPIO, clock and reset drivers hang off it as
hooks that the core calls and that call back into the core. Beside it stand a
CANopen stack, a binding of the GUIX graphics library, a shell with an XMODEM
command, and board support code.

This directory holds TLA+ specifications of the parts of that system in which
several actors share state, TLC configurations that check them on small instances,
and TLAPS proofs about the driver model. `PROJECT.json` records which definition
models which lines, what every run checks, and the hazards the properties are
aimed at.

## Parts and how they interact

| part | state | operations | who interacts | what is hard | what must hold |
|---|---|---|---|---|---|
| driver model: bind, unbind (`core/device.c`, `device-remove.c`, `uclass.c`) | udevices, child and uclass lists, plat buffers, `BOUND` | `device_bind_common`, `device_unbind` | hooks of driver, parent and uclass; scanners | nine error labels; hooks that bind children; a child that refuses to go | no freed device reachable, no half-bound device |
| driver model: probe, remove | `ACTIVATED`, `PLATDATA_VALID`, priv buffers | `device_of_to_plat`, `device_probe`, `device_remove` | hooks that probe other devices | re-entrance, stale flags after a nested call, selective removal | parents active before and after children, hooks find their data |
| devres (`core/devres.c`) | the list of nodes of a device, their phases | alloc, add, get, remove, destroy, release, two walks | every `devm_` function; the core | what was taken in which phase is given back by which walk | nothing left of a detached device |
| managed interrupts (`core/interrupt.c`) | vector table, server queue, nodes | request, free, release, wrapper | ISR, server task, removing task | handler installed before its fields are set; requests pending at removal | no handler without its node, no lost interrupt |
| OMAP I2C (`i2c/i2c-omap.c`, `linux/completion.h`) | controller registers, buffer counts, pending event | `omap_i2c_xfer`, the handler | calling tasks, server task, controller | timeout against late completion, status read before a reset | success means done, the call returns |
| CANopen SDO (`301/CO_SDOserver.c`, `CO_SDOclient.c`, `CO_fifo.c`) | two state machines, receive slots, data buffer, fifo, dictionary | download and upload, expedited, in segments and in blocks | receive callbacks, processing loops, application, a lossy bus | lost, repeated and late frames; sub-blocks; aborts | success means delivered, a transfer ends |
| CANopen node (`301/CO_NMT_Heartbeat.c`, `CO_HBconsumer.c`, `CO_Emergency.c`) | NMT state, error register, message ring, monitored nodes | `CO_process`, commands, heartbeats | receive callbacks inside `CO_process` | flags read, then cleared; shared alarms; full ring | errors take effect, states are announced, silence is found out |
| CANopen LSS (`305/CO_LSSmaster.c`, `CO_LSSslave.c`, `309/CO_gateway_ascii.c`) | selection, scan position, node identifiers | select, scan, set, store, `lss_allnodes` | one master, several slaves, an operator, the bus | answers that nobody can attribute, lost frames, power loss | one slave selected, identifiers unique |
| GUIX binding (`gui/guix_rtems_queue.c`, `observer.c`, GUIX timers) | event chain, timer flags, observers | post, fold, pop, purge, sleep, notify | GUI thread, timer task, posting tasks | suspension handshake, signal only for the first event | no lost event, no tick while asleep |
| serial, clocks, GPIO, SPI, XMODEM, scanning, chips | see "Not modelled" | | | | |

The hazards of these parts, at the lines where they bite, are in `PROJECT.json`.

## Modules and how they correspond to the code

| module | models |
|---|---|
| `DmCore` | the udevice structures, lists, flags, buffers, and the call stack of the core |
| `DmBind` | `device_bind_common()`, `device_unbind()`, `device_chld_unbind()`, uclass bind hooks |
| `DmProbe` | `device_of_to_plat()`, `device_probe()`, `device_remove()`, `device_free()` |
| `DriverModel` | the core as a whole, its properties, its inductive invariant |
| `DriverModelProofs`, `DriverModelTreeProofs`, `DevresProofs`, `ManagedIrqProofs` | the theorems |
| `Devres` | the resource list of one device along its life |
| `ManagedIrq` | extends `Devres`: requests, vector table, ISR and interrupt server |
| `I2cOmap` | transfers of the OMAP controller: task, server, completion, controller |
| `CoFifo` | the circular buffer of `CO_fifo.c` |
| `SdoServer`, `SdoClient` | one operator per routine and per state of the two SDO machines |
| `SdoTransfer` | the abstract specification: what a transfer promises to the application |
| `Sdo` | client, server, application and bus composed; the refinement mapping |
| `CoEmergency` | the emergency producer |
| `CoNode` | `CO_process()` with NMT, heartbeat producer and consumer, and emergencies |
| `LssSlave`, `LssMaster` | one operator per routine of the two LSS machines |
| `Lss` | gateway, master, slaves and bus composed |
| `GuixQueue` | event queue, GUI thread, timer task, observers |
| `MC*` | instances for TLC |

**Driver model.** One task runs the core. A core function runs from one hook to
the next without anything else happening, so one action covers one such stretch;
`stack` holds a frame per call in progress (function, device, position, devices
still to walk over, result so far). Where a hook runs, the frame on top waits;
the hook returns 0, fails (if listed in `MayFail`), or calls the core, which
pushes a frame. A hook a driver does not have is one that returns 0. `mem`,
`linked` and `listed` are the allocated devices, those on their parent's list and
those on their uclass's list; `flags` and `buf` are the flags and buffers of each.

**Devres.** Nodes are on the heap, held by their allocator, on the list, or lost.
`born` is a history variable: the core function that ran when a node was added,
which the phase recorded in the node is meant to reflect. The walks take one node
per step, because they call release functions. A `devm_` function is one step,
whether it succeeds or its lookup fails after the allocation.

**ManagedIrq.** `devm_request_threaded_irq()` is three steps: allocate, install,
set the fields the installed handler reads. The ISR preempts every task, the
server runs one request at a time. Vector table and server are modelled from the
calls the code makes and are marked external.

**I2cOmap.** The owner of the bus lock walks through `omap_i2c_xfer()`; the
handler reads the status in one step and acts on it in the next, so that the task
may give up, reset and start anew in between. Bytes are counted. The controller
and the slave are external: a byte may pass, a status bit whose condition holds
may be set, a message may be refused or lost, or nothing may happen any more.
`clean` and `given` are history variables: whether anything of an earlier message
was left when the current one was set up, and whether a wait was ever given up.

**SDO.** A frame is a record with its command and fields; data are short sequences
of bytes. `SrvProcess` and `CliProcess` are one call of the processing function,
case by case as in the source; the receive callbacks are steps of their own, and one
may also fall between the moment `CO_SDO_process()` looks for a new frame and the
moment it works. The checksum is ideal: it equals the data it covers, so a wrong
transfer is never accepted by accident. Objects are variables of a fixed length and
one domain whose data come and go piece by piece. `SdoTransfer` knows only the
dictionary, the request, its status and what was received: only a download changes a
variable, only its own and at once; success means that the data have arrived. `Sdo`
maps the client's state and fifo to it and checks it as the property `TransferSpec`.

**CANopen node.** `CO_process()` is cut into steps wherever it reads or writes what a
receive callback writes; commands and heartbeats arrive between any two of them.
Timers count units of the object dictionary's times. `told` and `heard` are history
variables: the state and the error bits a listener on the bus knows.

**LSS.** The master's functions are polled, so one step is one poll: it starts a
request, finds the answer, or finds the timeout. The gateway's `lss_allnodes` runs
its four sub-steps (scan, set, store, deselect) over them. Frames of the master
reach all slaves at once; answers have no sender. The part of an address has `Bits`
bits, and the four parts are scanned as in the source.

**GUIX.** The GUI thread and the timer task run at one priority without time slices
and hand the processor over only where they block, as in the source; what is done
under the queue's mutex is one step. Other tasks post events at any moment. The
part of GUIX that decides when the timer task runs (timer start, stop, expiration)
is included.

## Runs

All bounds are constants of the configurations.

| run | checks | result |
|---|---|---|
| `dm_reentrant` | `NoOrphan`, `WholeBetweenCalls`, `FramesLive`, `ProbeOnce`, `TreeInv` | hold: every operation and every removal flag, cyclic dependencies, hooks up to eight frames deep, any step may fail |
| `dm_probe` | `ProbeHasPriv`, `ActiveParent`, `VitalStays` | hold: a device depends on its sibling, any probe or remove step may fail |
| `dm_reprobe` | `ProbeHasPriv` | violated: a nested probe fails and frees what the outer one uses |
| `devres` | `ListExact`, `BindFirst`, `Detached`, `OneOfAKind` | hold |
| `irq` | `HandlerHasNode`, `WorkHasData`, `Served` (liveness) | hold in all three modes (`Served` in the two that come back), also with `devm_free_irq()` on direct handlers |
| `i2c_long` | `DoneWhenClean`, `CleanUnlessGivenUp`, `InBuffer`, `QuietWhenIdle` | hold |
| `i2c_tasks` | `OnlyOwnerWoken`, `TransferEnds` (liveness) | hold for two tasks, start and stop written apart |
| `sdo` | `UploadFits`, `BlockEndHasSegment`, `TransferSpec` (refinement) | hold: two transfers in a row, of every kind, with one fault anywhere (1.7 million states) |
| `sdo_ends` | `TransferEnds` (liveness) | holds: one transfer with two faults |
| `node` | `ErrorLeavesOperational`, `AlarmsTell`, `OneEntryPerNode`, `ListenerKnows`, `StateAnnounced`, `SilenceDetected` (the last two liveness) | hold (0.75 million states) |
| `lss` | `OneSelected`, `UniqueIds`, `AllAssigned`, `CommandEnds` (liveness) | hold: three slaves, three commands, one fault |
| `guix` | `QuietSleep`, `TimersRun`, `NoneLeftAsleep`, `EventsTaken`, `TicksCome` (the last two liveness) | hold (0.32 million states) |

`TypeOK` of the driver model is a conjunct of `TreeInv`. The type invariants of the
other modules (`TypeOK`, `IrqTypeOK`, `SdoTypeOK`, `NodeTypeOK`, `LssTypeOK`,
`GuixTypeOK`) hold on the same instances: add the name to the run's configuration.

**Bounds.** The driver model has a root, a bus and two devices: the smallest tree
with a grandparent, siblings and a device that depends on one. `NestDepth` limits
the frames at which hooks still call the core; eight lets a probe of a cycle run
back to its start. Devres has four nodes, enough for two of each phase between the
walks; interrupts have two, so that a node is taken again while the old request
may be pending. An I2C message has up to three bytes with a threshold of two, so
that one message fills the FIFO and drains it; `WorkLimit` stands for the 100
rounds of the handler and is small enough to be reached.

An SDO segment has two bytes, an expedited frame one, the server's buffer four and
a sub-block two segments; payloads of one, three and five bytes are then expedited,
fit the buffer with an odd rest, and need a flush and a second sub-block. The node
monitors with two entries (two nodes in one setting, one in the others), its ring
holds two messages, and every timer takes one or two units, so that each can run out
before, with and after the others. LSS addresses have two bits per part; two slaves share
the first two parts and one has an identifier from the start, and `LastId` is low
enough to run out of identifiers. The GUIX queue has two slots, so that it fills
with a tick and an event; four posts let a sleep, a wake-up and a close follow each
other.

**Fairness.** The driver model is checked for safety only. In `ManagedIrq` the
ISR, the server and a request that has been begun go on whenever they can run; the
device may raise its line or not. In `I2cOmap` the transfer and the server go on
whenever they can; controller and slave are never fair, so `TransferEnds` rests on
the timeouts alone. It assumes that the interrupt server does not starve the
caller: Init and the tasks it starts run at priority 1 unless libbsd lowers it,
the server at 10.

In `Sdo` somebody works as long as anybody can: both processing functions are called
cyclically, frames that are not lost arrive, and a timer runs out when nothing else
is left to wait for. In `CoNode` `CO_process()` is called again and again and time
passes between the calls; strong fairness of `Tick` says that a clock does not stop
because a call is under way whenever one looks. In `Lss` the main tasks run, the bus
delivers and timeouts elapse. In `GuixQueue` each of the two tasks goes on when it
has the processor, and the clock runs; nobody has to post or to sleep.

## Assumptions about what is outside

- Hooks do not remove or unbind devices, and a hook that reads a device's plat
  does not probe at or below that device. Devices are found through their uclass.
- The order of lists is abstracted in the driver model: a walk visits children in
  any order. It is kept in `Devres`, where it decides what is freed.
- `remove()` of a driver switches its device's interrupt off, and a driver takes no
  new resource in `unbind()`.
- `ServerFirst`: the server preempts the task that removes a device. This is so
  under libbsd, where Init runs at 110. At priority 1 it is not, and `WorkHasData`
  then fails, since a pending request outlives its node.
- Status bits of the I2C controller stay set until acknowledged or reset; a soft
  reset may time out and leave them set. Errata of OMAP2 and OMAP3 parts are left out.
- One processor: every board sets `max_cpus = 1` (`src/arch/arm/*/args.gn`, default in
  `src/gn/toolchain/rtems/config/BUILD.gn`).
- SDO: frames carry no number of the transfer they belong to, so an answer of an
  aborted transfer that is still on its way can be taken for one of the next. The
  model starts a transfer only when the bus has settled; a server left in the middle
  of the old one is included.
- Node: callbacks interrupt `CO_process()`, not the other way round. The emergency
  ring has no lock unless `CONFIG_CO_MULTITHREAD` is set, and the model has one
  reporter of errors.
- LSS: the operator deselects after a command that failed, uses identifiers above
  those in use or tried before, and selects one slave at a time (`Careful`); a slave
  clears `sendResponse` before the master's next frame arrives (`Prompt`). With two
  faults in a row `UniqueIds` fails: the deselection is not confirmed, and a slave
  that missed it acknowledges every later scan.
- GUIX: only the GUI thread starts and stops timers.

## Proofs

### Driver model

For every finite or infinite set of devices, every tree (`DevAssumption`: depths
grow from parent to child), every set of buffers, flags, dependencies and faults,
and every nesting depth:

- `TypesStay`: `Spec => []TypeOK`, by one lemma per group of actions over lemmas
  on what replacing, pushing and popping the top frame does to the stack.
- `TreeStays`: `TreeInv` is an invariant, provided `HooksBehave`: no bind hook
  fails after it has bound children and no `pre_unbind()` refuses. The first is the
  defect that `DmOrphan.cfg` shows; no uclass of the repository does the second.
- `NoOrphanStays`, `FreedIsGoneStays`, `FramesLiveStays` follow.

`NoOrphan` alone is not inductive: when `device_unbind()` frees a device, that it
has no children left is known only from the walk that its frame has finished.
`TreeInv` therefore adds three things. `StackInv` says which calls can be nested in
which (an unbind only in unbinds of ancestors, a bind only below what it binds),
and that a waiting unbind has every child either gone, still to be visited, or in
the hands of the call above. `TopInv` says what each label of the innermost bind
or unbind has established. `LinkInv` says that only the device being bound may be
missing from its parent's list. An action then either leaves the lists alone (the
`Quiet` lemmas), or is a step of bind or of unbind with a lemma of its own.

### Managed resources

For every set of nodes and of release functions (`KindAssumption`), `DevresProofs`
shows `ListStaysExact`, `BindStaysFirst`, `DetachReleases` and `GetAddsOne`, the four
properties of run `devres`. They follow from `DevresInv`, which adds what they lack
to be inductive: `FlagsFit` ties the two device flags to the life of the device, so
that `devres_add()` marks a node with the bind phase exactly while `bind()` runs, and
`PhaseFit` says that until `of_to_plat()` runs only such nodes are on the list. The
list changes in two ways, each with a lemma: `AddKeeps` for `devres_add()`, and
`DropKeeps` for a node taken out anywhere, by a driver or by a walk.

### Managed interrupts

For every set of nodes, `ManagedIrqProofs` shows `HandlerKeepsNode`, provided
`FreesDirectOnly` (drivers give back by hand only direct interrupts; none of the
repository calls `devm_free_irq()`), and `WorkKeepsData`, provided also that the
server preempts the removing task (`ServerFirst`). `RequestInv` says that a request
holds one node, without a handler until it is installed; `PowerInv` that no interrupt
is pending without the private data, even one asserted before set-up; `ServerInv`
that the server's work has its node. The task moves only when the server has nothing
to do, so only the submission can disturb `ServerInv`. Both assumptions are needed:
`IrqFree.cfg` violates `HandlerHasNode`, and `Irq.cfg` with `ServerFirst = FALSE`
violates `WorkHasData`.

TLC confirmed `DevresInv`, `HandlerInv`, `PowerInv` and `ServerInv` as invariants on
the instances of runs `devres` and `irq`.

**Only model-checked:** `WholeBetweenCalls`, the activation properties
(`ProbeHasPriv`, `ProbeOnce`, `ActiveParent`, `VitalStays`), the I2C, CANopen and
GUIX properties, the refinement of `SdoTransfer`, and all liveness, which is beyond
the prover.

## Findings

`dm_reprobe` is a run of `PROJECT.json`: `device_probe()` tests only
`DM_FLAG_ACTIVATED` again after it has probed the parent. These configurations
reproduce further disagreements between the code and its comments or purpose; each
one ends with the counterexample, in seconds
(`tlc -config IrqFree.cfg MCManagedIrq`).

| configuration | property | behaviour |
|---|---|---|
| `DmOrphan.cfg` (`MCDriverModel`) | `NoOrphan` | `post_bind()` fails after it has bound children; the device is freed above them, since "no clean-up required" (`device.c:194`) |
| `IrqFree.cfg` (`MCManagedIrq`) | `HandlerHasNode` | `devm_free_irq()` frees the node and leaves the handler that works on it in the table (`interrupt.c:123`) |
| `IrqStorm.cfg` (`MCManagedIrq`) | `RequestReturns` | a line asserted before the request storms, because the handler is installed before the request knows its vector (`interrupt.c:96`), and the reset announced at `i2c-omap.c:1345` is commented out |
| `I2cStale.cfg` (`MCI2cOmap`) | `SuccessMeansDone` | a completion that comes after its wait was given up ends the next message (`completion.h:117`) |
| `SdoUpload.cfg` (`MCSdo`) | `BlockUploadEnds` | the start command of a block upload is lost: the client confirms segment 0 for ever, every confirmation restarts its timer, and the server's abort is dropped as a repeated segment (`CO_SDOclient.c:1270`, `:131`) |
| `SdoPrefix.cfg` (`MCSdo`) | `BlockPrefix` | after a lost segment the client counts from 1 again and the server does not, so the data of a retransmission are joined wrongly; only the size and the checksum at the end keep them out (`CO_SDOclient.c:563`) |
| `NodeActive.cfg` (`MCCoNode`) | `AllActive` | a stopped node says that all monitored nodes are active (`CO_HBconsumer.c:322` against `CO_HBconsumer.h:134`) |
| `LssRefused.cfg` (`MCLss`) | `OneSelected` | a selection refused with INVALID_STATE forgets the selection that is active; repeated, it selects a second slave (`CO_LSSmaster.c:314` against `CO_LSSmaster.h:218`) |
| `GuixSleep.cfg` (`MCGuixQueue`) | `SleepReached` | the first step of the timer task overwrites the request to stop, and the GUI thread waits for ever (`guix_rtems_queue.c:142`) |
| `GuixPurge.cfg` (`MCGuixQueue`) | `PurgeInQueue` | the purge walks on from a node it has moved to the free chain (`guix_rtems_queue.c:401`) |

The properties of the passing runs say where they exclude these: `Blockwise` in
`Sdo`, `Lost` in `GuixQueue`, `Careful` in `Lss`, `given` in `I2cOmap`, `FreesIrq` and
`EarlyIrq` in `ManagedIrq`, `ScanFails` in the driver model.

Smaller ones, seen while modelling:

- `device_unbind()` does not free private data that `device_of_to_plat()` allocated
  for a device that was never activated;
- a removal by `DM_FLAG_ACTIVE_DMA` would take a bus away below an active child
  without that flag (`ActiveParent` is checked for normal and non-vital removal);
- `devm_clk_get()` and its like lose the node they allocated when the lookup fails;
- the wrapper of the threaded mode calls itself (`interrupt.c:92`; no driver uses it);
- on I2C hardware with `b_hw` the wait for the start condition returns without a
  reset, so `QuietWhenIdle` fails there;
- `omap_i2c_xfer()` returns a count where its callers expect 0;
- a CAN frame that met a busy controller is never sent and its buffer stays marked
  full (`CO_driver.c:250`); `TransferEnds` names this as the one way to hang;
- a frame that arrives while the server uploads a sub-block may be freed unread
  (`CO_SDOserver.c:1395`); the client's timeout repairs it;
- a short download without size to a domain writes what the buffer held before;
- `CO_fifo_reset()` leaves the alternate read pointer as it was;
- an NMT command before the first `CO_process()` suppresses the boot-up message, and
  one that arrives while the boot-up message is sent or an error is handled is
  overwritten (`CO_NMT_Heartbeat.c:225`, `:239`);
- a heartbeat between the reading of the state and the clearing of the flag is lost
  (`CO_HBconsumer.c:368`); `SilenceDetected` shows that this does no lasting harm;
- the timer task may suspend itself over a timer that a task of higher priority has
  just started (`gx_system_timer_expiration.c:79`; only the GUI thread starts timers).

## Not modelled

Parts with status `not_modelled` in `PROJECT.json` give their reason there. By far
the most of the source tree is imported: vendor register headers and HAL code, the
GUIX widgets, fonts and drawing code, an Ethernet driver of FreeBSD. That is data,
I/O, or single-threaded code, and the models cover little of it; they are aimed at
the kit's own concurrent parts and at the imported state machines it drives.

Within the modelled parts these are left out: `device_reparent()`, sequence numbers
and the platdata variants of bind; interrupt affinity; the OMAP1 handler, the errata
of old parts and the change of the I2C bus speed; the search of the object
dictionary, byte order, and SDO access to a node's own dictionary; the error history
(object 1003) and the consumer of other nodes' emergencies; LSS bit timing and the
inquiry of a whole address in one call; the gateway's other commands and its text;
GUIX animations, memory pool and windows.

Next in line are the serial port (termios, FIFO, interrupt and polled console), the
bind passes and uclasses, the clock tree and XMODEM, and proofs of the activation
properties.
