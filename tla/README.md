# A TLA+ model of the SMSC95xx DriverKit driver

The repository is a macOS DriverKit driver for the SMSC LAN95xx USB Ethernet
adapters: two system extensions in one bundle (a USB *device* driver that
configures the adapter, and the Ethernet driver that runs it), a C library of
helpers they share with a command-line probe, host unit tests of that library,
an installer, and development scripts.

This directory holds TLA+ modules for the driver's own logic, TLC
configurations that check them on small instances, and TLAPS proofs of every
safety property those runs check. `PROJECT.json` lists the components, the runs, the hazards each
property is aimed at, and for each definition the source lines it stands for.

Abbreviations below: `datapath` is
`src/dext/SMSC95xxDriver/SMSC95xxDriver_datapath.cpp`, `driver` is
`src/dext/SMSC95xxDriver/SMSC95xxDriver.cpp`, `ivars` is
`src/dext/SMSC95xxDriver/SMSC95xxDriver_ivars.h`, `proto` and `init` are
`src/common/smsc95xx_proto.c` and `src/common/smsc95xx_init.c`, `usbdevice` is
`src/dext/SMSC95xxUSBDevice/SMSC95xxUSBDevice.cpp`, `probe/` is
`src/tools/smsc95xx-probe/`.

## The system

### Threads

| Thread | What runs on it |
|---|---|
| the Default dispatch queue (serial) | `Stop`, `TxDataAvailable`, `TxComplete`, `RxComplete`, `RxBackoffExpired`, `setInterfaceEnable`, every cancellation handler |
| Start's own | `Start`, and `quiesceDatapath` and `finishStop` when `registerEthernetInterface` fails |
| the network family's | `setPromiscuousModeEnable`, the getters, `setMaxTransferUnit` |
| other processes | `SMSC95xxUSBDevice`, `smsc95xx-probe` |
| outside | the network stack (fills and empties the packet queues), the USB stack and controller, the timer, the chip |

The serial queue is the driver's only lock. What is hard is everything it does
not serialise: completions delivered from inside a synchronous `Abort`, a drain
loop the stack feeds while it runs, a family thread that tests `stopping` and
then uses what teardown releases, a teardown that begins on Start's thread, and
other processes on the same chip.

### Components

| Component | State | Operations | What makes it correct | Status |
|---|---|---|---|---|
| transmit path (`datapath`) | `txInFlight`, `txPacket`, `txDatapathReady`, one scratch buffer, TX counters | doorbell, drain loop, framing guards, `AsyncIO`, completion, stall handling, quiesce, release | a packet has one owner and goes back once; one transfer at a time; counters balance; nothing queued is forgotten behind an edge-triggered doorbell; no stall is left behind | modelled: `TxPath`, `PacketCustody`, `Quiesce`; proved |
| receive path (`datapath`, `setInterfaceEnable`) | `rxArmed`, `rxRunning`, `rxIdleRun`, one read buffer, the backoff timer, which queues are enabled | arm, `RxComplete`'s six exits, backoff, enable with unwind, disable, quiesce, release | one read; never silently deaf; bounded spinning; receive runs over four enabled queues or not at all; no read after teardown begins | modelled: `RxPath`, `Quiesce`; proved |
| receive record walk (`smsc95xx_rx_next`, the loop of `RxComplete`) | offset in the transfer, packets, RX counters | next record, allocate, check, copy, deliver or drop | every frame inside the transfer and read once, both RX identities hold, every packet is delivered, freed or counted as lost, the walk ends | modelled: `RxRecords`; proved |
| attach and teardown (`driver`) | what is held, `stopping`, `stopCancelsPending`, retains | `Start` and its two failure paths, `Stop`, `finishStop`, cancellation handlers, `ReleaseResources`, `super::Stop` | nothing released under a running callback, nothing left behind; `super::Stop` exactly once | modelled: `Lifecycle`; proved |
| chip bring-up (`driver`, `init`) | registers, MII and EEPROM engines, the station address | PHY and EEPROM reads with their gates, the initialisation sequence, MAC_CR read-modify-write | the address is the EEPROM's or none; configuration complete; polls are bounded | modelled: `BringUp`; proved |
| register access (`driver`) | none | `readRegister`, `writeRegister` | | a step of `BringUp` that succeeds or fails; request fields not modelled |
| protocol helpers (`proto`) | none | framing, record parsing, command words, register splits, `parse_vid_pid` | equal to their reference definitions over all inputs | record parsing in `RxRecords`, address checks in `BringUp`; the rest not modelled |
| interface getters and MTU (`driver`) | none that changes | `getHardwareAddress`, media, features, MTU | answers agree with what bring-up stored | not modelled: constants |
| USB device driver (`usbdevice`) | the open session (`ivars->device`), the selected configuration | open, look for an interface, select configuration 1, close | `Close` answers one `Open` on every path; nobody's interface is taken away | modelled: `DeviceSessions`; proved |
| probe (`probe/`) | its sessions on device and interface | open and configure, EEPROM commands, claim, init sequence, bulk commands, close | never runs on a chip another client runs | its sessions and its use of the chip in `DeviceSessions`; printing, option parsing and the MII reads are not |
| probe tests, development tools, installer | none that lasts | sequential programs and scripts | | not modelled |

### How they interact

`Start` runs bring-up before it creates a packet pool, so `BringUp` is the one
step "chip" of `Lifecycle`'s `StartSteps`. Once the interface is registered the
two halves of the datapath run on the serial queue and share nothing but
`stopping` and the teardown: `quiesceDatapath` clears both halves' gates, aborts
both pipes, and `releaseDatapath` settles both. `RxComplete` hands a transfer
that carried data to the record walk and re-arms when it returns. The receive
path's `Enable` is what the family calls after registration, and what a failed
registration may find already done: then the callbacks of both halves run beside
`quiesceDatapath`, which `Quiesce` models with the data of both taken out.
Before all that, `SMSC95xxUSBDevice` selects the configuration that creates the
interface `Start` is matched to; the probe wants the same device and the same
interface, and `DeviceSessions` models the three.

## Modules and the code

| Module | Models | State | Actions |
|---|---|---|---|
| `PacketCustody` | what the transmit path promises the stack (abstract) | who owns each packet | submit, transmit, refuse, finish, close |
| `TxPath` | `TxDataAvailable`, `txDrainSubmission`, `txSubmitPacket`, `txReturnPacket`, `TxComplete`, the TX half of `quiesceDatapath` and `releaseDatapath` | the ivars by their names; `submitQ`, `stackPackets` for the stack; `outBusy`, `outDone`, `outPipe` for the pipe; `onQueue` for what the serial queue executes | one per handler; the drain loop is one step per `DequeuePackets`, and Stop is "close the gate", "abort", "return" |
| `RxPath` | `armRxRead`, `RxComplete`, `RxBackoffExpired`, `setInterfaceEnable`, the RX half of teardown | the ivars; `wakeSet`, `wakeDue` for the timer; `inBusy`, `inDone`, `inPipe`; `enabled` for the four queues | one per handler and per exit |
| `RxRecords` | the record loop of `RxComplete`, `rxAcquirePacket`, `deliverPacket` and `smsc95xx_rx_next` | the place in the loop, offset, packets, counters | one step per call of `smsc95xx_rx_next`, one per check, per look for a packet and per way to dispose of it (each drop site counts for itself); the stack's two come between any of them |
| `Lifecycle` | `Start`, `Stop`, `finishStop`, `finalize`, `ReleaseResources`, and `setPromiscuousModeEnable`'s place in it | the set of objects held, the countdown, what the queue executes and which objects it dereferences | one per acquisition, Cancel (in the order of the four sources), handler, release |
| `BringUp` | `miiRead`, the PHY and EEPROM part of `Start`, `smsc95xx_eeprom_read`, `smsc95xx_init_seq`, `setPromiscuousModeEnable`'s read and write of MAC_CR | registers as sets of flags or symbols, engines, Start's locals | one per register access; the chip acts between them |
| `Quiesce` | `quiesceDatapath` on either thread beside `setInterfaceEnable`, `RxComplete`, `RxBackoffExpired`, `armRxRead`, `TxDataAvailable`, `TxComplete` and the drain | the gate flags, `rxArmed`, `txInFlight`, the place of the one callback and of the quiescer, transfers and completions per pipe | a callback is one step per flag it tests or stores and one for `AsyncIO`; the quiescer is one step per store and per Abort |
| `DeviceSessions` | `SMSC95xxUSBDevice`, the interface driver as holder of the interface, `smsc95xx-probe` | the family's opener accounting, each client's place and its own flag (`ivars->device`, `interfaceOpened`, `d->iface`), whose initialisation the chip runs, whose EEPROM command it answers | one per call into the USB family and per EEPROM command or fetch |
| `MCTxPath`, `MCBringUp` | instances for TLC | | the sets of faults; the adapters |
| `TxPath_proofs`, `RxPath_proofs`, `RxRecords_proofs`, `Lifecycle_proofs`, `BringUp_proofs`, `Quiesce_proofs`, `DeviceSessions_proofs` | theorems about the module each is named after | | |

Variables keep the source's names wherever the source has one. Ghosts are few
and read by no guard: in `RxPath` `spin`, `saidDead` (the last word of the
log) and `undoFailed` (a `setEnable(false)` or a call of super was refused), in `RxRecords` `frameAt`, in `Lifecycle` `uses`
and `superStops`, in `Quiesce` `straggler`, `lateIn` and `lateOut`, in
`DeviceSessions` `iteratorFailed` and `mixed`.

Data is reduced to what the control flow branches on: a TX packet is accepted or
refused by the framing guards; a received transfer is its byte count and the
length field and error flag of each status word; a PHY register is its
autonegotiation bit; a configuration register is the value's name. Counters keep
a width (`CounterMod`), so the accounting identities are checked across a wrap.

## The runs

| Run | Expect | Question |
|---|---|---|
| `tx` | pass | Does a packet keep one owner and the books balance under every interleaving of stack, USB and teardown, with every call that can fail failing? Does the path implement `PacketCustody`? Is every queued packet taken, although the doorbell rings only once, and does every packet given to a transfer leave it, teardown included? |
| `tx_drain` | violation | Does the drain loop end? |
| `rx` | pass | One read, never deaf without a word in the log, a bounded spin, an interface that the family, the queues and the driver agree on whatever fails and also when it is enabled twice, no read after teardown begins; does a running receive path read again after whatever ended the last read, and clear a stall, also one that hit while the interface was down? |
| `rx_records` | pass | Is each frame inside the transfer and read once, each record counted once on each of the nine ways out of the loop's body, each packet delivered, freed or counted as lost? Does the walk end? |
| `rx_leak` | violation | Does `rxLost` count every packet that was neither delivered nor freed? |
| `lifecycle` | pass | An attach that fails at any step, and teardown by either path. |
| `lifecycle_control` | violation | Is register I/O off the dispatch queue safe? |
| `lifecycle_cancel` | violation | Does a Cancel that fails after a failed registration still wait for the queue? |
| `bring_up` | pass | The address's gates, complete configuration, bounded polls, restarts on a chip left half way. |
| `quiesce` | pass | What can a callback still start when `quiesceDatapath` runs on another thread? At most one transfer that the aborts do not reach, and only from the callback that was already past its gates. |
| `sessions` | pass | Does every `Close` answer an `Open` whatever fails, and is a client that runs on the chip left alone by the two others? |
| `sessions_shared` | violation | Do the probe's control transfers coexist with a bound driver? |

### Where the code and its comments part

* `tx_drain`: the comment at `datapath:912` bounds the drain loop by the pool,
  since "the stack cannot present more without first getting some back". The
  loop itself gives refused packets back (`datapath:942`), and the stack runs
  beside it, so a stack that re-submits what is refused keeps the loop running.
* `rx_leak`: `ivars:193` defines `rxLost` as "packets neither delivered nor
  freed". At `datapath:1335` and `:1350` the result of `deallocatePacket` is
  ignored, so a failure there is neither, and not counted.
* `lifecycle_control`: the comment at `driver:967` holds until teardown. A call
  that has passed the `stopping` test and `readRegister`'s check can be inside
  its control request, or before its look at `ctrlBytes`, when the last
  cancellation handler closes the interface and releases the buffer.
* `lifecycle_cancel`: `finishStop` on Start's thread (registration failed) runs
  `finalize` inline when a Cancel fails. The release then does not wait for a
  callback the dispatch queue is executing, against `datapath:470`. The run
  `lifecycle` shows that either fault without the other is handled.
* `sessions_shared`: `probe/usb_backend.h:5` says that control transfers
  "coexist with any bound driver". The EEPROM is one command and one data
  register. If the probe holds the device (`SMSC95xxUSBDevice` lost the race for
  it, and the probe selected the configuration itself), the driver's `Start` and
  `smsc95xx-probe eeprom` interleave, and one fetches the byte the other asked
  for.

Three more are visible in passing runs, as what a property has to allow:

* `quiesce`: `datapath:358` calls the synchronous Abort "a join for the hardware
  I/O". After a failed registration one `AsyncIO` can follow the Abort
  (`LateIoIsBounded` says one, and none when `Stop` runs on the queue); the
  countdown of `finishStop` and the guards of the completions are what is left
  to make it harmless.
* `rx`: the comment at `driver:1110` says that a failed enable is unwound "so the
  family and the driver agree the interface is down". An enable of an interface
  that is already enabled fails at its first queue (`driver:1066`, `driver:1138`): the
  unwind calls `super::setInterfaceEnable(false)` but leaves `rxRunning` and the
  queues as they are, so receive runs on under an interface the family takes to be
  down, and for which it then sends no `setInterfaceEnable(false)`
  (`src/reference/teardown-validation.txt:97`). `InterfaceAgrees` therefore says
  that the family is never up over a dead path, and not the converse.
* `sessions`: `usbdevice:38` says of SET_CONFIGURATION "only do it when none were
  found". An iterator that could not be created is handled as none found
  (`usbdevice:88`), which is the one exception in `Undisturbed`.

## Bounds, and why they are enough

* **Packets.** Three in `tx`: one in flight, one behind it in the queue,
  one with the stack. Order in the queue, refusal of one with another behind
  it, and a late completion of one with another submitted need no more. No
  symmetry, which would be unsound for the liveness properties. For the safety
  properties the proofs cover any finite pool.
* **FaultSets** in `tx`: all faults, or all but `DequeuePackets` returning a
  count with no packet. The drain gives up on the latter, and nothing promises
  that what is queued behind it is taken, so `QueuedIsTaken` is about behaviours
  without it. `tx_drain` needs no fault.
* **CounterMod** is the least the identities allow, the pool's size plus one, so
  that every counter wraps several times in each run.
* **IdleLimit** 2: a run below, at and above the threshold. `rxIdleRun` and
  `spin` stop at `IdleLimit + 1`, where the code's behaviour no longer changes.
* **RxRecords**: MaxPayload 8 and a buffer of 8, transfers of 3, 20 and 25
  bytes, and length fields on either side of each comparison: shorter than
  a CRC, a CRC and no frame, short frames whose records are padded, the longest
  frame and one byte more, and a field past the end of the transfer; offsets
  that fit and that do not. Two packets: one in hand and one elsewhere.
* **Lifecycle** has no bound: the countdown, the objects and the callbacks are
  those of the code. `FaultSets` picks which calls may fail in one behaviour;
  the pair registration and Cancel is the subject of `lifecycle_cancel`.
* **Quiesce** has no bound but one callback at a time, which is the queue's
  own, and one quiescer, on either thread. `lateIn` and `lateOut` would leave
  their type at two.
* **DeviceSessions** has no bound: one device, one interface, one run of each
  client at a time, each as often as it likes. Failures of opens, of the look,
  of SET_CONFIGURATION and of the pipes are all on in `sessions`, and all off in
  `sessions_shared`, which needs none but the contention itself.
* **BringUp**: an address of two bytes (one per address register), two polls
  per loop (one that repeats and one that gives up), and for each gate an
  adapter that fails it.

## What is assumed

About the outside, from how the code uses it:

* A submitted transfer or read completes (`completionTimeoutMs` is 0, so nothing
  but data, an error or an Abort ends it), with any status; it may complete
  from inside the synchronous Abort; after an Abort its completion may be
  delivered late or never. A halted endpoint answers STALL until it is cleared.
* Callbacks and cancellation handlers run one at a time on the Default queue, and
  none runs after `super::Stop`. A Cancel's handler runs after the callbacks of
  its source that were already queued. This is what the code's comments and
  `src/reference/teardown-quiescence.txt` rely on.
* `Stop` is delivered once, and only after a `Start` that succeeded.
* `setPromiscuousModeEnable` has one caller at a time. Nothing else reads or
  writes MAC_CR after bring-up, so its read and its write are two steps of
  `BringUp` that only a failing access or a re-attach can come between.
* The family may call `setInterfaceEnable` with either value at any time, the same
  value twice in a row included. An enabled queue refuses to be enabled
  (`driver:1138`). A call of super that refuses changes nothing.
* The chip: a busy engine ignores a command, a write during the lite reset is
  lost, a failed register access leaves the chip as it was. A chip left half way
  by an earlier attempt is `Reattach`.
* Plain fields shared by two threads without a lock (`stopping`, `rxRunning`,
  `txDatapathReady` after a failed registration) become visible in either order
  up to the next call into the system: the three stores of `quiesceDatapath`
  among themselves, and the store of `rxRunning` with the load of `stopping` in
  `setInterfaceEnable`. Calls into DriverKit order what is before them.
* A synchronous Abort delivers the completion on the caller's thread or leaves it
  to the queue; the code's comments say both.
* In `Quiesce` no Cancel fails (that is `lifecycle_cancel`), so the release waits
  for the callback.
* An exclusive session per device and per interface, an interface node on every
  configured device, and SET_CONFIGURATION on a configured device terminating
  the interfaces and the driver on them: `usbdevice:34`, `probe/usb_backend.c:71`.
  A killed probe is closed by the system.
* A failed `setEnable(false)` or `super::setInterfaceEnable(false)` is in `rx`, too.
  `InterfaceAgrees` then asks for less: a receive path that runs still needs all
  four queues enabled, but what is down need not agree.

Fairness, where a liveness property is checked:

* Weak fairness of the driver's own steps (the drain loop, Stop's steps, Start's
  thread): a thread that can run does.
* Strong fairness of each callback and cancellation handler: the queue is first
  in, first out, so others that keep coming do not overtake it for ever, but
  in the models the queue can be occupied again before it runs.
* Weak fairness of the end of a transfer, of a deadline, and strong fairness of
  a halted endpoint's STALL.
* None for the stack, the family, `Stop`, or the chip: `BringUpEnds` holds on
  hardware that stays busy for ever.

## What is proved

Every invariant and every safety action property that a passing run checks is a
theorem, for every value of the constants that the module's assumption allows
(`TxAssumption`, `RxAssumption`, `WalkAssumption`, `LifecycleAssumption`,
`BringUpAssumption`, `QuiesceAssumption`, `SessionAssumption`): finite pools of
any size, any threshold and counter width, any address length and adapter, and
any set of failing calls. Nothing else is assumed, but for a hypothesis stated in
two of the theorems.

Each proof module has the same shape. It names an invariant `IInv` whose parts
say what the code relies on without saying so; lemmas about the operators (a
completion queue after an Abort, the padding of a record, a sequence of register
writes, the countdown's set); one lemma or step per action that shows
`IInv` preserved, split by the conjunct the action can disturb; `Invariance`
(`Spec => []IInv`); and the properties as its consequences. Each `IInv` was also checked with TLC as an invariant of the run's instance, and those of
`DeviceSessions` and `Quiesce` as inductive, from every typed state that satisfies
them.

### The transmit path (`TxPath_proofs`)

| Theorem | Statement |
|---|---|
| `TypeCorrect` | `Spec => []TypeOK`, with at most one transfer in the controller |
| `Accounting` | what was dequeued was returned, counted as lost, or is in flight |
| `LossesAreCounted` | `txLost` is the number of packets gone |
| `SingleOwner` | no packet in two places |
| `SingleTransfer` | one transfer, and `txInFlight` says so while the datapath is live |
| `StallsAreCleared` | no schedule leaves a halted endpoint uncleared before teardown |
| `KeepsCustody` | `TxPath` implements `PacketCustody` |

Accounting needs `OneOwner` (a packet returned was not already home) and
`LostAreCounted` (the number lost stays below `CounterMod`, so the counter does
not alias). All of them need `TeardownOrder`: the gate is closed before anything
is released, a drain only runs behind an open gate, and a released datapath
has no transfer on its books; without it a late completion could return a packet
that the release already returned. The refinement maps each action to a step
of `PacketCustody` or a stutter, with the submission queue mapped as a sequence.

### The receive path (`RxPath_proofs`)

| Theorem | Statement |
|---|---|
| `TypeCorrect` | `Spec => []TypeOK` |
| `OneReadHolds` | one read at a time, and `rxArmed` says so until teardown |
| `NeverDeaf` | a running path has a read or a wakeup outstanding, or the log said it is dead |
| `BackoffBoundsTheLoop` | at most `IdleLimit + 1` empty completions in a row without a wait |
| `EnableIsAllOrNothing` | receive runs only over four enabled queues; while no undo was refused the queues are all enabled or none, and the family is not up over a dead path |
| `TeardownIsQuiet` | no read and no wakeup once teardown has begun |

`SpinBounded` is not inductive: it needs `ArmedBelowLimit`, that an outstanding
read was armed below the threshold, so that the completion which reaches it is
the last before a wait. `NeverSilentlyDeaf` and `OneRead` need that the loop
stops before anything is aborted (`TeardownOrder`): an aborted completion that
met a running loop would either re-arm or leave it deaf.

### The record walk (`RxRecords_proofs`)

| Theorem | Statement |
|---|---|
| `TypeCorrect` | `Spec => []TypeOK` |
| `NoFrameOutside` | every frame lies inside the bytes the transfer carried, and the walk goes on behind it |
| `RecordsAddUp` | both RX identities, at each of the eight drop sites and the delivery, across a counter's wrap |
| `NothingIsOvercounted` | queued, free, with the stack and counted as lost: never more than the pool |
| `LeaksCounted` | `rxLost` is the number of packets gone, if no refused packet's deallocation fails |

The bounds hold for every length field and transfer, because
`smsc95xx_rx_next` advances past the whole padded record (`NextOffsetIsPast`,
`NextOffsetIsAligned`) after it has compared the frame's end with the transfer's.
`RecordsAddUp` is inductive with the record in hand (`Undecided`) counted beside
those delivered and dropped, so each way out of the loop's body has its own step.
The hypothesis of `LeaksCounted` is the finding of `rx_leak`: with
`"rejectDeallocFails"` the property is false. Without the hypothesis what remains
is `Custody`, half of the equation.

### Attach and teardown (`Lifecycle_proofs`)

| Theorem | Statement |
|---|---|
| `TypeCorrect` | `Spec => []TypeOK`; `super::Stop` at most once |
| `CountdownStaysHonest` | the countdown is the number of Cancels still to be issued or answered |
| `NothingIsLeftBehind` | after `super::Stop`, and after a Start that failed, nothing is held |
| `NothingReleasedUnderHandler` | a callback's objects outlive it, unless registration and a Cancel both fail |

`Countdown` is the heart: it says that a source waits to be cancelled or
has been, never both, and that a release has begun only when none is left.
`TeardownOrder` and `QueueOrderly` say which thread may be in the release; when
it is the queue, no callback runs beside it; when it is Start's, either the
family never saw the driver or a Cancel failed. That is the case split of
`UsesHeld`, and its one exception is `BothFail`. The theorem excludes it by a
hypothesis on `FaultSets`; `lifecycle_cancel` shows that the hypothesis is needed.
`ReleaseInOrder` gives `NothingOutlivesStop`: what is held is what the release has
not come to.

### Bring-up (`BringUp_proofs`)

| Theorem | Statement |
|---|---|
| `TypeCorrect` | `Spec => []TypeOK` |
| `OnlyTheEepromsMac` | the address is the EEPROM's, byte for byte, or there is none |
| `AutonegIsLeftAlone` | an adapter whose PHY can negotiate is never initialised |
| `ConfiguredWhenUp` | a chip that is up has every register as the sequence leaves it |

`EngineOwned` carries the argument for the first two: the engine is idle when a
command is written and what is read is that command's datum, so that
`GatesPassed` may speak of the PHY and the EEPROM and not of a data register. For
`ConfiguredWhenUp`, `ChipFollows` says that after `at - 1` writes the registers
hold the first `at - 1` values, of each register the last, and that the reset
ended before the first of them. The sequence is used as a sequence, by its
eighteen entries (`InitWritesShape`). Its last clause is about
`setPromiscuousModeEnable`: what it is about to write differs from what MAC_CR
holds in PRMS only, which is why the two accesses keep `UpIsConfigured`.

### The quiesce beside a callback (`Quiesce_proofs`)

| Theorem | Statement |
|---|---|
| `TypeCorrect` | `Spec => []TypeOK` |
| `OneTransferOnEachBuffer` | one transfer or completion per pipe |
| `OneLateTransferAtMost` | one submission after its Abort at most, none when `Stop` runs on the queue |
| `OnlyAStragglerSubmits` | behind closed gates only the callback already past them submits |

`StragglerOnly` says how far a callback gets that began behind closed gates: to
`armRxRead`'s own test of `stopping`, and no further, in either order of the weak
stores. `LateBook` says that a straggler which has submitted late
has no second submission before it: a read's `AsyncIO` ends `armRxRead`, and a
frame keeps `txInFlight` up until the drain it runs in has ended.

### The device's sessions (`DeviceSessions_proofs`)

| Theorem | Statement |
|---|---|
| `TypeCorrect` | `Spec => []TypeOK` |
| `SessionsAlwaysBalance` | each client holds what its flags say, one client at a time |
| `NobodyIsDisturbed` | who runs on the chip keeps it; SET_CONFIGURATION severs a driver only after a failed look |

`Books` computes the family's accounting from where the clients are, `OneHolder`
excludes two holders, and `LookStillHolds` is what makes the look good until
SET_CONFIGURATION: the client that looked holds the device, so nobody else
configures it in between.

### Model-checked only

Liveness: `QueuedIsTaken` and `HeldComesBack` (`TxPath`), `ReadsAgain` and
`StallIsCleared` (`RxPath`), `WalkTerminates`, `TeardownEnds`, `BringUpEnds`.
Their proofs need fairness and ENABLED, which the prover does not handle. And the
five violations, which are counterexamples.

## The plan

Done: the modules above with their runs, and a theorem for every safety property
a passing run checks.

Next:

1. An abstract specification of an attachment as the family sees it (attached,
   stopping, stopped; callbacks only while attached; one `super::Stop`), refined
   by `Lifecycle`, the refinement proved as `KeepsCustody` is.
2. One of a pipe with a single buffer (idle, submitted, completed), refined by
   the receive half of `RxPath` and by both halves of `Quiesce`, so that
   `OneRead` and `OneTransferEach` become one promise.
3. `tx_prepend` and the register splits against reference definitions, if they
   come to carry a property.

## Not modelled, and why

* The bytes of frames, log wording, statistics dumps, media tables: no property
  depends on them.
* `readRegister`'s retry-free control request: one step that succeeds or fails.
* `Start(super)` failing, and the provider cast failing: they return before
  anything is held.
* The branch of `finishStop` for a driver with nothing to cancel: every caller
  follows a `setupDatapath` that succeeded, so all four sources exist.
* The pure helpers `smsc95xx_tx_prepend`, `smsc95xx_parse_vid_pid`, the MII and
  EEPROM command words and the register splits: pure functions without state,
  which the host tests exercise; an operator would repeat the code. The bounds test of `smsc95xx_eeprom_read` (no caller can fail it)
  is with them.
* The getters, `getMaxTransferUnit` and `setMaxTransferUnit`: constants.
* The probe's MII reads (`phy`, `all`, and `init`'s BMSR): they share one engine as
  the EEPROM reads do, and would only repeat `sessions_shared`. `phy` is `id` in
  the model and `all` is `eeprom`. `tx` and `rx` initialise without the
  autonegotiation test that `init` makes (`probe/main.c:211`); no comment says
  they should make it, and no property does.
* Unplugging and re-enumeration: the code sees them as failing calls, statuses
  and a Stop, which are modelled; the new attach is another behaviour.
* The probe's tests, the scripts and the installer: sequential programs around
  system calls.
