# Verification of the MSM8916 UEFI firmware

TLA+ models of the drivers of this repository, the TLC configurations that check
them on small instances, and TLAPS proofs about them for every instance. Paths
below are relative to `MSM8916Pkg/`; `PROJECT.json` names, for every definition,
the lines of C it stands for, and for every property a mutation of the model
that it catches.

    tlc -workers 2 -config smd.cfg MCSmd           # a run
    tlapm SmdProofs.tla                            # the proofs of a module

## 1. The system

The firmware is one UEFI image: a boot shim and a pre-EFI stage (`BootShim`,
`PrePi`) hand over to edk2's DXE core, which dispatches the drivers of this
repository. There is one processor and no preemption between drivers; what runs
beside a driver is

- interrupt handlers and timer notifications, at a higher task priority level
  (TPL), between any two instructions of code that has not raised the TPL;
- callbacks: a notification function called by a driver may call that driver;
- the hardware: the RPM co-processor on the other side of shared memory, the SD
  host controller and the card behind it, the PMIC behind its bus, keyboards.

| Component | State | Operations | Hard part |
|---|---|---|---|
| **SMD channel** `Drivers/SmdRpmDxe/smd.c` | two control blocks in shared memory (`ch0` ours, `ch1` the RPM's), `current_state`, `smd_channel_alloc_freed` | `smd_init` polls the handshake; `smd_irq_handler` → `smd_notify_rpm`; `smd_uninit`, the release at ExitBootServices | the handler runs between the steps of `smd_set_state`; the RPM moves at any time; waiting loops with and without a bound |
| **RPM requests** `smd.c`, `rpm-smd.c`, `rpm-ipc.c` | two rings in shared memory with read and write indices, message ids | `rpm_smd_send_data` = `smd_write` + `smd_read` of header and data | time-outs, acknowledgements that come late, the ring's wrap and its limit |
| **Keypad** `Drivers/KeypadDxe` | two key queues (read, notify), `NotifyList`, toggle state; what the binding made | timer poll at `TPL_NOTIFY`, both text input protocols, registration, a notification walk at `TPL_CALLBACK`; Start, Stop | the walk runs outside the critical section and its callbacks change the list; queues at their limit; a Start that fails with the timer running |
| **Console splitter, input** `Drivers/ConSplitterDxe` | lists of keyboards, registrations with one handle per keyboard, saved keys, toggle state; lists of mice and touch screens | Start/Stop per device, both reading protocols, `SetState`, (un)register; `GetState`, waiting | devices come, go and fail one by one; notifications run inside `SetState`; several devices add up to one answer |
| **Console splitter, output** `Drivers/ConSplitterDxe` | per splitter (ConOut, StdErr) the consoles, their common text modes and the map from its mode numbers to theirs; a cursor of its own; one Graphics Output | Start/Stop per console, SetMode, Reset, text output, the Graphics Output's SetMode | modes drop out and are renumbered, and maps rebuilt, while a mode is current; one console belongs to both splitters; one of several fails |
| **Graphics console** `Drivers/GraphicsConsoleDxe` | mode table, cursor, line buffer | Start/Stop, SetMode, OutputString, cursor | the cursor is drawn by exclusive or; OutputString calls itself; allocation failure while switching |
| **SD host controller** `Drivers/SdhciMMCHSDxe/sdhci.c` | controller registers, ADMA table | `sdhci_send_command` with its polling loops, error status, reset | the controller runs on after a time-out |
| **MMC block I/O** `MMCHS.c`, `mmc_sdhci.c` | the card's state and contents | Read/WriteBlocks, cut into transfers, stop command | one of several transfers fails; widths of counts and arguments |
| **eMMC tuning** `sdhci_msm.c` | saved phase, driver strength, delay line | `sdhci_msm_execute_tuning` | repeated trials by `goto`, failures in the middle |
| **Card initialisation** `mmc_sdhci.c`, `sdhci.c`, `sdhci_msm.c` | `mmc_card`, the controller's width, mode and clock, the power event | power-up, identification, registers, bus width, timing, clock | the power interrupt; every step may fail half way: host and card disagree, or the clock is too fast for the card |
| **Card maintenance** `mmc_sdhci.c` | partition, protected groups | erase, write protection, RPMB frames, sleep | an error between two switches of the partition; groups of two sizes |
| **Clock tree** `Drivers/ClockDxe`, `Library/QcomPlatformClockInitLib` | use counts, rates, configurations | enable, disable, set rate, get-set-enable | several names share one clock; the source follows the rate |
| **I2C** `Drivers/I2cQupDxe` | QUP state machine, FIFOs | `qup_i2c_xfer`, register read/write | polling; the order in which end and error are tested |
| **SPMI / PMIC** `Drivers/SpmiDxe`, `Pm8x41Dxe` | the arbiter's channels, a channel number | register reads and writes, ADC, battery test, resets | one global channel; results of commands that are not looked at |
| **Pins and interrupts** `InterruptsLib`, `GpioTlmmDxe`, `GpioTlmmInterruptDxe` | handler table, masks, pin registers | register, mask, dispatch, configure | registration against a live line; read-modify-write of packed fields |
| **USB bring-up, reset** `Msm8916UsbDxe`, `ResetSystemLib` | registers | one sequence each | order and waiting times |
| **DMA engine** `Drivers/BamDxe` | descriptor FIFO | add descriptors, wait, event handling | FIFO wrap; no driver uses it |
| **Frame buffer** `SimpleFbDxe`, `FrameBufferBltLib` | video memory | fill, copy in, out and on the screen | pixel formats, lines longer than the screen, overlapping moves |
| **Screen log** `FrameBufferSerialPortLib` | position, colour, the picture | write, write critical | interrupts between the steps, page turn |
| **Display** `Drivers/DisplayDxe` | registers | power, clocks, DSI, MDP5 in a fixed order | the hardware decides |
| **SMEM, UART, timers, boot manager, SMBIOS, logo, C library, early boot, ACPI** | little or none | straight sequences | – |

Calls: `MMCHS.c` → `mmc_sdhci.c` → `sdhci.c`/`sdhci_msm.c` → `sdhci.c`.
`DisplayDxe`, `Msm8916UsbDxe` and `SmdRpmDxe/Driver.c` send requests through
`rpm-smd.c` → `smd.c` → SMEM. `GenericKeypadDeviceDxe` → `KeypadDxe` → the
console splitter, through `RegisterKeyNotify` and its callbacks. `SimpleFbDxe` →
the graphics console → the console splitter. `Pm8x41Dxe` → `SpmiDxe`. The SMD
interrupt comes through `InterruptsLib`.

What is built: `MSM8916Pkg.dsc` lists `SmdRpmDxe`, `KeypadDxe`, `SdhciMMCHSDxe`
and the other drivers above. It takes `ConSplitterDxe` and `GraphicsConsoleDxe`
(lines 312-313) and `FrameBufferBltLib` (line 98) from edk2's MdeModulePkg, and
`FrameBufferSerialPortLib` only with `USE_SCREEN_FOR_SERIAL_OUTPUT` (lines
101-106); the copies in this repository are modelled as they stand in the tree.

What makes each correct, each a property below:

- SMD: both sides agree when the channel is open, nobody waits for ever, and the
  release at ExitBootServices leaves the channel closed.
- RPM requests: whole, in order, each answered by its own acknowledgement.
- Keypad and console splitter: no key lost, duplicated or reordered short of a
  full queue; notifications reach whoever is registered and nobody else; no
  movement of a pointer lost; a keypad is bound whole or not at all.
- Splitter output: one mode number means one geometry on every console, all are
  in the current one, and all show what the virtual console does.
- Graphics console: the screen is that of a terminal, with one cursor exactly
  when it is visible.
- SDHCI: a result is the result of the command it is reported for; no memory is
  freed under a transfer; every call returns.
- Block I/O: success means the data moved, failure leaves the rest alone.
- Tuning: success means the selected phase works.
- Card initialisation: nothing is sent before the bus has power, no card is
  over-clocked, and host and card agree on the bus when it succeeds; registers
  decode to what they hold.
- Maintenance: it does what it reports and returns to the default partition.
- Clocks: a held clock runs, and at the rate it was given.
- I2C, SPMI, BAM: a transfer reported as done took place, and no other.
- PMIC, USB: registers are written only in the states that allow it.
- Pins, interrupts: a line is enabled only while somebody wants it.
- Frame buffer, screen log: what is drawn is on the screen, and nowhere else.

## 2. The plan

1. (done) The three drivers of the image with real concurrency or retry: SMD,
   keypad, SD/MMC, each with an abstract specification where one says something
   (`SmdLink`, `LossyQueue`, `BlockDevice`), and the console splitter's input.
2. (done) Card initialisation and bus modes, `MmcCard`: the host's width, mode
   and clock against the card's through every failure.
3. (done) The console splitter's output and pointers, `ConSplitterOut`,
   `ConSplitterText`, `ConSplitterPointer`; the graphics console below it,
   `GraphicsConsole`, and below that `FrameBufferBlt`.
4. (done) Clocks, pins and interrupts: `ClockTree`, `GpioTlmm`.
5. (done) Buses and the rest: `SpmiArbiter`, `PmicDriver`, `I2cQup`, `BamPipe`,
   `MmcMaintenance`, `CardRegisters`, `KeypadBinding`, `FrameBufferLog`.
6. (done) Proofs of the promises above that hold for every instance: the channel,
   the requests over it, the command engine and its ADMA table, block I/O and the
   refinement of `BlockDevice`, tuning, the keypad's notifications and the refinement of
   `LossyQueue`, maintenance, pins and interrupts, the PMIC bus, the keypad's binding, the clocks,
   the splitter's input, the card's registers, the I2C controller.
7. (open) Further proofs: the splitter's output and text, its pointers, the agreement
   of card and host.

| Run | Modules | Question |
|---|---|---|
| `smd` | `MCSmd`: `SmdChannel`, `SmdLink`, `RpmRequest` | the channel's life, and the requests over it |
| `keypad` | `KeypadTextIn`, `KeyQueue`, `LossyQueue` | keys and notifications of the keypad |
| `con_in`, `con_out` | `ConSplitterIn`; `MCConsoles`: `ConSplitterOut`, `GraphicsConsole` | keyboards and text modes of the splitter, the graphics console below |
| `sdhci` | `SdhciCommand`, `AdmaTable` | the command engine |
| `mmc` | `MCMmc`: `MmcCard`, `MmcTuning`, `TuningPhase`, `MmcBlockIo`, `BlockDevice` | bring-up, tuning and block I/O of a card |
| `drivers` | `MCDrivers`: thirteen modules of steps 3 to 5 | the smaller drivers |
| `smd_open_race`, `rpm_late_ack`, `block_io_single`, `console_set_mode`, `blt_overlap` | | the five findings |

`MCSmd`, `MCMmc`, `MCConsoles` and `MCDrivers` hold several components that share no variable
or that run strictly one after the other. `part` says which of them a behaviour
is of, and generic slots hold its variables; nothing of a component is changed
by being checked there. A component that is EXTENDed rather than instantiated
(`SmdChannel`, `MmcCard`, `ConSplitterOut`, `ClockTree`) is so for the sake of its tables, which TLC
then evaluates once. Bounds are the smallest at which every branch is taken; the
sections below say which.

## 3. Modules and runs

### 3.1 The SMD channel: `SmdChannel`, `SmdLink`

Three actors over `ch0`, `ch1`: the boot thread (`smd_init`, requests,
`smd_uninit`, `smd_uninit_exit_bs`), the interrupt handler, the RPM. The boot
thread's `smd_set_state` is three steps (read `ch0.stream_state`, write it,
store `current_state`), because the interrupt can be taken between any two; in
the handler it is one, because the handler runs at `TPL_HIGH_LEVEL`. `setting`
is what does not change during a behaviour: whether the image keeps the channel
(`PcdInstallRpmProtocol`), and what the RPM may do: skip states, ignore a close,
close by itself. `Driver.c` wraps the first requests in `ASSERT`, which a RELEASE
build drops with the call in it: `SendFirstRequest` notifies the RPM or does not.

`SmdLink` is what the handshake promises: each half goes CLOSED, OPENING,
OPENED, CLOSING, CLOSED and waits for the other half before OPENED and before
CLOSED.

| Property | Says |
|---|---|
| `OpenedReportIsTrue` | when `smd_init` reports OPENED, `ch0` is OPENED |
| `FreedMeansClosed` | `smd_channel_alloc_freed` is up only while `ch0` is CLOSED |
| `CloseEnds` | the wait at ExitBootServices ends whatever the RPM does, and the unbounded one of `smd_uninit` ends when the RPM answers after it began |
| `ImplementsLink` | the two halves implement `SmdLink` |

Run `smd` (`MCSmd`, `part = "channel"`; there `TypeOK` is checked too): the RPM is at OPENING before the driver starts. `MaxPolls` = 3 turns
of the handshake loop and `MaxTicks` = 1 of the release loop: one more than it
takes for the other actors to intervene at each point of the loop. Fairness:
weak, of the boot thread and of the handler (the processor runs, a pending
interrupt is delivered); none of the RPM except as the premise of `CloseEnds`.

Run `smd_open_race` (finding): with the RPM still CLOSED, the polling loop takes
the apps half back out of OPENING, and `smd_init` can report a channel that is
not open.

Not a run, and worth knowing: an answer to a close that arrives between
`smd_set_state`'s write and its store of `current_state` (smd.c:439-471) uses up
the interrupt that would have signalled the event, and the wait of `smd_uninit`
(smd.c:199-200) does not end. `CloseEnds` therefore assumes that the answer
comes after the wait began.

### 3.2 RPM requests: `RpmRequest`

The rings word by word, with ids in the words so that a word knows which
message it belongs to; the caller waits for header and data with time-outs;
the RPM serves, publishes header and data separately, or stays silent.
`N` = 7 words make every message wrap; `IndexRange` = 16 is the width of the
indices; 4 requests are two more than it takes to wrap once.

| Property | Says |
|---|---|
| `WordsAreOwn` | as long as no call was given up: the header read is that of the request's own acknowledgement (`AckIsForRequest`), and what the RPM takes is what was sent, in order (`RequestsArriveWhole`) |
| `SendReturns` | a call comes back however silent the RPM is |

Run `smd` (`part = "request"`) checks both, with weak fairness of the caller only.
Run `rpm_late_ack` (finding): after one time-out every request is answered by
the acknowledgement of the one before; ids are sent but never compared.

Not runs: a time-out of the data (smd.c:340) leaves the header consumed and the
data in the ring, so the next header is read out of the middle of a message;
`smd_write` (smd.c:249-257) does not look at the reader's index and overruns a
ring that is not emptied.

### 3.3 The keypad: `KeyQueue`, `LossyQueue`, `KeypadTextIn`

`KeyQueue` is the ring of `Keypad.c`: `MaxCount` places, full at `MaxCount - 1`,
where the producer moves `Head` and so drops the oldest. `KeypadTextIn` is the
driver: the timer polls the device into both queues, `ReadKeyStroke(Ex)`,
`WaitForKey`, `Reset`, `SetState`, the registrations, and the notification
handler, which takes a key out of the second queue and walks `NotifyList`
outside the critical section, calling functions that may read, register and
unregister.

| Property | Says |
|---|---|
| `ImplementsLossyQueue` | keys leave the read queue in order, and only the oldest are lost, only when it is full |
| `NotifyDrains` | every key put aside for notification is handled, unless the handler is lost in freed memory |
| `NotifyListSound` | the walk stands on a freed registration, or gets lost from one, only where the function it served unregistered its own (`WalkOnLiveList`), and the list and queues keep their shape |
| `WaitTellsTruth` | a key `WaitForKey` reported is there to be read |

A function that unregisters its own registration frees the node the walk stands on
(KeypadTextIn.c:605-607), and the walk then reads that node's link (661). The model
takes the two outcomes: the memory still holds what it held, so that the walk goes
on to the node that followed, freed or not (`handler.own`, `handler.next`); or it
does not, and what the program does is not defined (`handler.pc = "lost"`).

Run `keypad`: a ring of 3 (two keys), two keys per poll, three presses, two
registrations and two changes of the list by notification functions (`MaxChanges`;
the walk of the code does not end as long as functions keep changing the list, and
the bound cuts exactly that), presses and changes together at most four
(`MaxEvents`). Two changes are needed for a walk to go from one freed node to
another, or for the memory of one to be used for a new registration. Fairness: weak, of the dispatch and of the handler: the DXE
core runs a signalled event.

Not runs: registering a function again for a key that an earlier registration covers
returns the earlier handle (KeypadTextIn.c:520-527), although line 484 calls the
handle unique, so one caller's unregister takes the other's away; and a key is
queued for notification once per matching registration (Keypad.c:156-171), so
the functions of two registrations for one key are called twice each.

### 3.4 The SD host controller: `AdmaTable`, `SdhciCommand`

`AdmaTable` is the table `sdhci_prep_desc_table` builds: lines of at most
`LineSz` bytes, the last one marked END; `Tiles` says that the lines cover the
buffer exactly. `SdhciCommand` is `sdhci_send_command` step by step against a
controller that answers, raises errors and completes when it likes. Every status
bit remembers the command it belongs to; the driver cannot see that, the
properties can.

| Property | Says |
|---|---|
| `CommandsApart` | a success is the command's own, no status or response of another one (`OwnResult`), and the ADMA table is not freed under a running transfer (`TableOutlivesTransfer`) |
| `NoFalseFailure` | a failure has an error behind it; a DAT time-out alone with a complete transfer is none |
| `TableDescribes` | every table describes its buffer |
| `Returns` | every command returns |

Run `sdhci`: the first two ask it of a controller that acts within the
polling bounds (`timely`), `Returns` of every controller. Two commands are what
it takes for one to spill into the next; 2, 2 and 3 turns of the three loops
stand for 10, `SDHCI_MAX_CMD_RETRY` and `SDHCI_MAX_TRANS_RETRY`; lengths up to
17 bytes over lines of 4 stand for up to four lines and one byte. Fairness:
weak, of the driver only.

Not a run: a command given up at the retry bound leaves no error status, the
lines are not reset (sdhci.c:422, 524-532), and its late completion is taken by
the next command as its own. `OwnResult` therefore assumes `timely`.

Excluded: error bits 10 to 15 are enabled (sdhci.h:182) and decoded by no
branch (sdhci.c:404); such a command ends as a success without a response.
`OwnResult` leaves these errors out. External assumption: resetting the CMD and
DAT lines clears their status.

### 3.5 Block I/O: `BlockDevice`, `MmcBlockIo`

`BlockDevice` is the promise of the block I/O protocol: a request moves
blocks of its own range only, in any order and perhaps not all of them, never
writes a protected one, and is a success only when all of them moved. `MmcBlockIo` is `MMCHSReadBlocks`/`MMCHSWriteBlocks` and the read,
write and stop commands against a card that loses commands, loses responses,
refuses, or breaks a transfer off.

| Property | Says |
|---|---|
| `ImplementsBlockDevice` | it is a block device |
| `ProtectedKept` | the first 253952 blocks of the eMMC are never written |

Run `mmc` (`part = "io"`): five blocks, up to three per request, two per transfer (so one
request is one chunk, exactly one chunk, or two), the 32-bit argument of a
byte-addressed card wrapping (`ArgMod`). In the run a transfer
of a single block does not break off after its response; run `block_io_single`
(finding) lets it, and `SuccessIsReal` (success means every block is where it
should be) fails: the result of a transfer of a single block is looked at only through a response that
is filled before the data phase.

External assumption: R1 shows the state the card was in when it took the
command. A standard-capacity SD card is addressed in bytes by its standard and in
blocks by this driver (mmc_sdhci.c sends the block number unless the card is
byte-addressed MMC); no run has one.

### 3.6 Tuning: `TuningPhase`, `MmcTuning`

`TuningPhase` is the selection of a phase out of those that passed: the one at
three quarters of a longest run on the ring. `MmcTuning` is
`sdhci_msm_execute_tuning`: initialise the delay line, try every phase with
CMD21, when all of them pass try the next driver strength, restore, select,
configure.

| Property | Says |
|---|---|
| `TunedWell` | when tuning succeeds, the phase at the delay line passed in the last trial (`ChosenPhaseWorks`); the driver strength is back at its default (`StrengthRestored`); the selection is at three quarters of a longest window (`SelectsTuned`), for every set of a ring of 12 as well (`RingSelects`) |

Run `mmc` (`part = "tuning"`): 4 phases in the trials, 12 in the selection, drivers
1 and 3 of 3 supported. `ChosenPhaseWorks` asks it of commands whose errors are not ignored
and of a delay line that answers, `StrengthRestored` of switches that succeed.
Where they fail the code goes wrong: a trial whose read brings no data compares
the buffer the previous trial left (sdhci_msm.c:838), a strength that cannot be
set leaves the earlier one, and a phase that cannot be configured is still
reported as success (sdhci_msm.c:887).

### 3.7 Card initialisation: `MmcCard`

`mmc_init` from the reset of the controller to the published block device. The
driver is one thread that sends a command or writes a register, step after step,
and gives up at the first failure, so what it still has to do is a sequence of
steps, `todo`. A function of the source that is a fixed list of commands
(`mmc_set_ddr_mode`, `mmc_set_hs400_mode`, ...) is a definition of that list; one
that looks at an answer is an action that replaces `todo`. Beside the driver run
`SdhciIntHandler` (the power interrupt, `power`) and the card; each command may
be lost before or after the card took it. `setting` is drawn once: any slot
configuration, any capabilities of the controller, no card, an SD card or an
eMMC with any of its modes, and a clock table with or without 384 MHz. `host` is
the controller: core clock, divider (`div`, from `sdhci_clk_supply`), halving of
the clock for HS400 (`half`), width, UHS mode, `timing` (`MMC_SAVE_TIMING`) and
the two flags that tuning leaves. The boot loader may have left the card selected
and in high speed on four bits.

| Property | Says |
|---|---|
| `CardServed` | `NeverTooFast`: the clock is at most 400 kHz before the card is identified, then at most what its timing allows, in the middle of every change of mode too; `LinkReady`: no command before the bus has power, and no block is moved unless the card is selected and both sides use the same bus; `HostFitsCard`: what is published is a selected card of the recorded type on the bus the host uses |
| `LegalSwitch` | HS400 only from high speed, 8-bit DDR and a tuning that succeeded; HS200 only on SDR; DDR only from high speed |
| `InitEnds` | initialisation ends whatever card there is |

Run `mmc` (`part = "card"`): all settings at once. `MaxOpCond` = 4, `MaxIfCond` = 2 and
`MaxAcmd41` = 3 stand for 1000, 3 and 20 tries: each is left by success, by
failure and by exhaustion after at least one repetition. The base clock is
taken as 200 MHz; it is a field of the capability register. Fairness: weak, of
the driver and of the interrupt handler; the card need not answer. The wait for
a stable internal clock (sdhci.c) is assumed to end.

Excluded, and what the code does there:

- `mmc_set_ddr_mode` sets the card to 8-bit DDR whatever width the host was set
  to (mmc_sdhci.c:883), although line 1559 says the width is set "based on host,
  target capbilities". `HostFitsCard` leaves out DDR with a narrower host.
- The 64 bytes with which an SD card answers CMD6 are not looked at
  (mmc_sdhci.c:1433): a card that stays at default speed is clocked at 50 MHz.
  `NeverTooFast` leaves such cards out.
- The comment at mmc_sdhci.c:848 wants the halving of the clock disabled
  after tuning; `sdhci_msm_set_mci_clk` only ever sets it, so HS200 on a slot
  with HS400 runs at half the clock.
- The clock table (`msm8909-clock.c:112-123`) has no 384 MHz entry: entering
  HS400 halts in `ASSERT(0)`. No slot of the image enables HS400
  (`QcomTargetMmcSdhciLib.c`).
- A slot configured for eight bits whose controller has only four falls back
  to one bit.
- A device that cannot be published is neither freed nor reset.

### 3.8 The console splitter's input: `ConSplitterIn`

Two lists of keyboards, one per protocol, grown by `AllocUnit`; registrations
with one handle per keyboard; saved keys of the extended protocol; toggle
states. Starting a keyboard fails at each of its allocations and calls, undoing
what the code undoes. Keyboards are external: pressed at any time, they may
refuse a call.

| Property | Says |
|---|---|
| `KeysKept` | the keys of a keyboard come out once and in order (`KeysInOrder`), and no list outgrows its memory (`BuffersFit`) |
| `NoKeyLost` | a complete key that waits, on its keyboard or saved, goes on waiting or is returned; only a reset drops it |
| `KeyboardsAgree` | as long as keyboards are only added, each has exactly the registrations of the splitter (`RegistrationsAgree`); keyboards agree on the toggle state unless a call was cut or overtaken (`TogglesAgree`) |

Run `con_in`: two keyboards, two presses, two calls. With `AllocUnit` = 1 every
addition grows a list. `ConSplitterProofs` proves the three for any number of each
and any unit.

Not runs: after a keyboard that was not the last is removed, the handles of those
behind it are out of place (ConSplitter.c:2071), they refuse to unregister and
the function stays on them, though the call returns `EFI_SUCCESS`;
`WaitForKey` asks only the keyboards and so does not announce a saved
key (ConSplitter.c:3655); a `Start` that fails late leaves the keyboard in
`TextInList`; `SetState` can be overtaken by a Caps Lock press between two
keyboards; registrations stay on a removed keyboard.

### 3.9 The console splitter's output: `ConSplitterOut`, `GraphicsConsole`

`out[s]` is `mConOut` or `mStdErr`: the list of consoles, the room of the list,
the geometries `query`, the map as the flat array it is (`Cell` reads row and
column), `MaxMode` and the current mode. `GrowMapTable`, `AddOutputMode`,
`SyncOutputMode` and `GetIntersection` are the functions of that name as operators
on this record; `Start`, `Stop`, `SetMode`, `Reset` compose them in the code's
order. `gop` is ConOut's Graphics Output. Consoles are external: a table of text
modes, perhaps a display with its own table, and the right to refuse a text mode
other than the first. Assumed of them: at least two text modes, of which number 0
is 40 x 12 and never refused (the driver asserts it) and number 1 may be
unsupported; no geometry twice; displays take the modes they list.

| Property | Says |
|---|---|
| `OutputsAgree` | `ModesAgree`: a mode number reported by QueryMode is mapped, for every console, to a mode of the same geometry; `InStep`: consoles are in the geometry of the current mode, whatever joined, unless one was removed, refused a mode or was set through the other splitter; `DisplaysAgree`: every display has each mode of the Graphics Output and shows the current one; it is installed exactly while there is a display |

The run checks it as `ConsolesAgree`, which is `OutputsAgree` of the part "splitter".

Run `con_out` (`MCConsoles`): three consoles of four kinds (mode 1 or not,
further modes in two orders, displays with one mode, two, the same two in the
other order, or none), a user's mode or none, four calls. With `AllocUnit` = 2 the
third console grows list and map. Four calls fill one splitter and set or remove
something, or put a console on both.

`InStep` leaves out a splitter marked `torn`. It has to: after a removal the map
is rebuilt with more modes and other numbers, but the current mode number is kept
(ConSplitter.c:3411), so that it may now name another geometry than the consoles
show, or none, until the next mode is set.

Not runs:
- ConSplitter.c:1393-1394 says that the modes of ConOut and StdErr are the
  intersection of both when they share a console. `StdErrTextOutList` is not set
  back after the first console of ConOut (2629), so a shared console that is not
  the first is usually missed. `Shared` leaves this open.
- While one display remains, the Graphics Output's QueryMode reports that
  display's own numbering (ConSplitterGraphics.c:76) and SetMode takes the common one.
- Adding a console without a display to ConOut, or any to StdErr, returns
  `EFI_DEVICE_ERROR` although it was added (`Status`, 3198).
- If memory runs out between list and map (3159), the list has more room than the
  map has columns. Failing allocations are not modelled here.
- A console with a single mode would leave -1 in row 1 and read it as an index.

**`GraphicsConsole`** (`GraphicsConsoleDxe`). Text modes from the resolution, the
binding with its failures, every call of the text protocol. Text cells, and the
cursor as a set of marks that drawing toggles. `OutputString` calls itself to blank
a character and to break a line; `term` is a terminal that takes the same
characters one by one. `ConsoleTrue` (checked by `con_out`, part "graphics"): while no change of mode failed the screen
shows that text and exactly the visible cursor, and the device is held exactly
while the console is started. Screens of 3 x 2 to 5 x 4 cells, strings that wrap,
scroll and hold wide characters; a character without a glyph is not among them.
Run `console_set_mode` (finding): GraphicsConsole.c:1357 says that nothing has
been changed when the line buffer of a new mode cannot be allocated; the
cursor has been erased by then, and the buffer freed that `LineBuffer` still
points to, so that the next change frees it again.

### 3.10 The smaller drivers: run `drivers`

The modules below are checked by `MCDrivers`, one per behaviour. Each property is
an invariant of that run except `OnlyWhenSafe`, an action property. No fairness is
assumed and none is needed: none of them is about something that must happen.
Deadlock is not checked, since every part stops at its bounds. A ghost variable is
named as such in its module: it records what was asked for, and no action reads
it except to bound what is asked next.

| Property | Module | Says |
|---|---|---|
| `SpmiTransfer` | `SpmiArbiter` | a successful command moved exactly the caller's bytes, a failed one changed nothing |
| `OnlyWhenSafe` | `PmicDriver` | a register is written only in the state its step asks for |
| `PmicResult` | `PmicDriver` | what a call leaves behind, and the conversion of the ADC |
| `ClockDelivered` | `ClockTree` | a held clock runs (`HeldClocksRun`), and at the rate it was given (`RateDelivered`) |
| `TransferReal` | `I2cQup` | a transfer that returns success took place |
| `PinsAndInterrupts` | `GpioTlmm` | lines are enabled for those who want them, pins are as configured |
| `InputDelivered` | `ConSplitterPointer` | every movement reaches the client |
| `ConsolesFollow` | `ConSplitterText` | every console shows what the virtual one does |
| `TransferMoved` | `BamPipe` | a finished transfer moved its bytes, in order, and no others |
| `DrawnExact` | `FrameBufferBlt` | the screen and the buffer are what was asked for |
| `MaintenanceDone` | `MmcMaintenance` | erase and protection do what they report, the default partition is restored |
| `DeviceWhole` | `KeypadBinding` | all of a device or nothing |
| `LogReadable` | `FrameBufferLog` | the log is readable wherever it is interrupted |
| `RegistersRead` | `CardRegisters` | fields decode to what the card holds |

**`SpmiArbiter`** (`SpmiDxe/spmi.c`). A command is a walk through channel look-up,
data registers, command word, spin and read-back; the arbiter carries it out or
fails it in between. `pmic_arb_chnl_num` is the global that every command
overwrites. Three configurations: version 1, version 2, and a version 2 arbiter
driven with the layout of version 1, which the two sources of the version (a PCD
and a register) allow. Buffers of 1, 4, 5 and 8 bytes use one data register or
two; of three peripherals one has two channels and one has none. The spin has no
limit in the code, so nothing is claimed about an arbiter that stays silent.

**`PmicDriver`** (`Pm8x41Dxe`, `Msm8916UsbDxe`, `ResetSystemLib`). Every function is
a short straight program of register accesses; `Program(call)` is the sequence of
its statements and one action carries out the next of each kind. `SafeStep` asks:
a pin is configured only while disabled; a type of reset is chosen only 300 us
after the reset was disabled; a secured register is written only right after the
unlock; the USB switch is touched only 200 ms after the hub left reset, the
controller only with its clocks on and its resets released. `CallLeaves` asks that
the battery test puts the charger back, that a read-modify-write keeps the other
bits and that power is dropped with the right type of reset armed;
`ReferencesReadTrue` that the ADC's arithmetic gives the reference voltages at the
references. All three ask it of calls in which no command failed:
`pm8x41_reg_read` and `_write` do not look at results, so after a failed read
the value is 0 and is written back. The division of `pm8x41_adc.c:185` is by zero
exactly when both references read the same; the property says so. The conversions of
the run lie below, at, between and above the limits. One call and one failed
command: calls keep no state between them but the two slave ids, which are set
before.

**`ClockTree`** (`ClockDxe`, `msm8909-clock.c`). The whole table of the platform:
roots with their frequency tables, branches, votes, sources, and the names of
`msm_clocks_8916`. `RateDelivered` works out, for every entry a client sets, what
source, divider and M/N make of it. It leaves out 96 kHz, 16 MHz and 25 MHz of the
serial engines: these entries carry M and N, but `clock_lib2_rcg_set_rate_hid`
does not program them. No driver of the image asks for them. Ten client names,
chosen so that two share a clock, and three calls: enough for one to set a rate
and another to take the clock away. The source of a root clock gains a user with
each change of rate and loses none (it stays on, which is safe). The wait for
an enable bit has no limit and is taken to end. `clock.h:54-57` speaks of a lock
that the code does not have.

**`I2cQup`** (`I2cQupDxe`). `qup_i2c_xfer` step by step against a controller that
works through the tag stream and a bridge that may refuse a byte, through the
calls of the bring-up and those of `DisplayDxe`. `TransferReal` has one
exception, which the code has: a refusal of the last byte of a write also
empties the FIFO, and the end is tested before the error flags of `QUP_I2C_STATUS`
(i2c_qup.c:826); only the NACK bit of `QUP_OPERATIONAL` comes first (822), and
whether it shows the refusal is left to the controller. After a
failed read of the power register the chip revision read before is written to it
(`Driver.c:202`). Two faults are one more than ends a transfer.

**`GpioTlmm`** (`GpioTlmmDxe`, `GpioTlmmInterruptDxe`, `InterruptsLib`,
`EarlyQGic`). From any set of lines left enabled and pending by the boot loader
through the reset of the controller, the registration of the pins' handler and of
another driver's, with interrupts between the steps. Register fields are bits of
numbers, since every call reads, changes a field and writes back.
`OnlyWantedInterrupts` is what keeps the `ASSERT (Entry)` of Interrupts.c:53.
Four calls on one pin. No driver of the image uses the interrupt of a pin.

**`ConSplitterPointer`**. Mice and touch screens in their two lists, one axis for
three. Mice as fine as the virtual one, coarser, and without the axis; a touch
screen. `InputDelivered`: what the mice handed over is what the client got;
after a silent wait or a read nothing is unread. It says nothing of the answer:
`GetState` returns the error of one device although it has read and added up the
others (ConSplitter.c:4249), so a client that looks only at the status drops
their movement. A touch screen whose range does not start at 0 would not be scaled
right (4462); all of the run start there. Division rounds towards zero.

**`ConSplitterText`**. Two consoles with the same two modes, either of which may fail
a call, coming and going; the cursor and the attribute of the virtual console.
`ConsolesFollow`: consoles that missed no call are where the virtual cursor is,
and without a console it is where one would be. The cursor is taken from the first
console even when it is the one that failed (4641); `ideal.mirrored` leaves that out.
A console is added only when none of those present has missed a call.

**`BamPipe`** (`BamDxe`). The driver's offsets, the descriptor FIFO and the engine
that empties it, error included. The FIFO has four descriptors, and three transfers
of up to as many go around it. The client waits, then updates the offsets. A
transfer of as many descriptors as the FIFO holds is accepted, but its event is
refused (bam.c:257) and the wait does not end: the model stops there.

**`FrameBufferBlt`** (`SimpleFbDxe`, `FrameBufferBltLib`). Video memory byte by byte:
2 x 3 pixels in four formats (the caller's order, another, three bytes, an Android
frame), with and without space at the end of a line, a line of other memory
behind. `DrawnExact` compares every byte with the picture asked for, after two calls
behind the boot logo: the wide fill, the line buffer, the conversion by masks and
the moves are all ways to the same picture. Two kinds of call go astray and end
the claim. Run `blt_overlap` (finding): a move to a higher address starts one line
too low (FrameBufferBltLib.c:598-600). And in the blue-green-red format `SourceX` is
not added to the source line (504), so a copy that starts inside the buffer's
lines takes their beginnings.

**`MmcMaintenance`** (mmc_sdhci.c:1968-2480). Erase, write protection and its
status, RPMB frames, sleep, with commands lost before or after the card acted.
`MaintenanceExact` and `PartitionRestored` are asked of a sector addressed eMMC, a
byte addressed one and an SD card of eight blocks. `mmc_get_ext_csd` puts a fresh
buffer, of which it clears eight bytes, in the place of the registers before CMD8
(632-637): when CMD8 fails, `cached` may hold anything (`Unwritten`, with the
erase group sizes of `BufferBytes`, 0 among them), and the next erase counts in
another unit, the next switch of the partition writes another boot configuration
to the card. `EraseInside` says that an erase stays in the groups of its request
even then; what needs the right unit is asked where the driver had it
(`task.unit`, `cached.known`). What it leaves out is what the
code leaves open: an erase that does not start with a group (addresses are not
refused) and SD cards, of which the last unit keeps all but its first block; the
status of a byte addressed card (`mmc_get_wp_status` does not convert the
address). The tries of the write protection are not counted anew per group, and
`HC_WP_GRP_SIZE` is not used, so that a driver's group is smaller than the
card's: it protects more than was asked. Nothing in the image calls these functions.

**`KeypadBinding`** (`Keypad.c`). Start's steps, each of which may fail, and Stop,
with the timer ticking between them. `DeviceWhole`: the driver holds everything or
nothing, what is installed has its memory and events behind it, and no tick
finds the device freed. After a Stop that cannot uninstall the interfaces the timer
is gone and nothing polls the device (Keypad.c:388). When the device itself cannot
be allocated the error exit takes the list of a null device (330, 438-451): what
lies at that address may look like an empty list, and the exit goes on, or the
program is astray (`NoListWalked`), where the model ends. `DeviceWhole` says that
there is then nothing but the protocol to give back, and that no other call goes
astray.

**`FrameBufferLog`**. The painter by cells, with the interrupt state that each
routine saves and a handler that logs on top. Two columns and three lines; a
writer and one handler (`MaxWriters`). After a line feed the interrupt state
restored is a variable that was never read (FrameBufferSerialPortLib.c:185; the
`goto` jumps over it): either value is taken, and interrupts may come on in the
middle of a write begun with them off. A line feed is therefore a step for each
store (`StoreRow`, `StartLine`, `TestRow`, `TurnPage`), between which a handler may
log: it draws on a row not yet tested, or on a page about to be cleared, of which
`TurnPage` keeps any part. `LogReadable`: glyphs lie apart, and inside the frame but
for those a handler drew in the middle of a line feed (`late`); the last character
is there in its colour, is to be painted again, or was a handler's and went with
the page. That a character which clears a page is painted again is what the mutant
takes away.

**`CardRegisters`**. From the 128 bits of a card through `LongResponse` and
`sdhci_cmd_complete`'s shift to the fields of CID and CSD, the capacity and the
protection group. Registers with no bit, each bit alone, and pairs in one word, in
neighbours and across. Words are sets of bits. `RegistersRead` stops at 2^31
sectors, from which on SEC_COUNT, put together as an int, is widened with its sign
(mmc_sdhci.c:217). The layout of an SD card's CSD is chosen by the decoded
CSD_STRUCTURE (`Layout`). Month and year of an eMMC are taken from each other's bits
(314); nothing reads them.

Worth knowing of the SD and MMC driver, and not a property: after a trial in which
every phase passed, `attempt_cdr_unlock` stays set, and a later failure jumps to the
sending of CMD21 past the initialisation of `cmd` (sdhci_msm.c:902). An eMMC whose
answer to CMD1 is lost is tried as an SD card (mmc_sdhci.c:389), in whatever state it
is; this is in `MmcCard`, and `HostFitsCard` holds.

## 4. Proofs

Checked by TLAPS for every value of the constants that satisfies the named
assumptions.

`SmdProofs`, its first half: the channel. The invariants are not inductive: which `ch0` is allowed
depends on where the boot thread is inside `smd_set_state` and on what the
handler did meanwhile. `IInv` is `TypeOK` together with
`(InitDone /\ setting.closes) \/ Phases`, and `Phases` has one part per stage of
the protocol: `BeforeInv` (nothing moves before the channel is found),
`SettingInv` (what `smd_set_state` carries from its read to its write still fits
the halves), `EarlyInv` (up to the write of CLOSING both halves are opening or
opened, ours is OPENED only when the other is, `current_state` is never ahead
and the channel is not freed) and `LateInv` (after it the RPM closes only after
us, `current_state` is CLOSED only when `ch0` is, and a freed channel is closed).
TLC checked `IInv` before it was proved. `InvInit` and `PhasesStep` (one step per
action) show it inductive; `TypeInit` and `TypeStep` do the same for `TypeOK`
alone. From them follow `TypeCorrect`, which needs only `ParametersAssumption`,
and `FreedIsClosed`, `ReportIsTrue` and `LinkImplemented` (each step of the three
actors is a step of `SmdLink` or leaves both halves alone), which also assume
`Orderly`: the RPM starts at OPENING. The run `smd_open_race` shows what happens
otherwise.

Its second half: the requests. `NobodyGetsAnothersWords` (of `RpmRequest`) and
`RequestsKeepTheirWords` (of `MCSmd`, which takes the sizes as constants too) for every
size of ring and messages, from `MessagesFit`: one message of each direction leaves a word
of its ring free, which neither `smd_write` nor `smd_read` looks at. While no call
has ended without its acknowledgement (`~ahead`) there is one request under way at
most, and `Stage(n)` says how far it has got, n being the requests served:
`QuietInv`, `WrittenInv` (its words stand in the ring, its header or all of it),
`AnsweredInv` (and so does the header of its acknowledgement), `HeaderReadInv`.
Once `ahead` is set nothing is claimed; that is finding `rpm_late_ack`. Below it,
`SecondPart`: a copy that goes behind another one, round the end of the ring or
not, leaves that one whole.

`MmcProofs`, its second half: the command engine. `NoCommandMeetsAnother` and `FailuresAreReal`, for all kinds
of command, error bits, retry counts and any number of commands. The invariant is
`Types /\ (timely => Phases)`: with a controller that acts within the polling
bounds, `Phases` says for each place of `sdhci_send_command` what the controller
can still be doing and whose status it can show: nothing between commands
(`BetweenInv`), the running command's alone under way (`LineInv`, `XferInv`), and
after a reset nothing again (`ResetInv`), which is what the next command relies on.
It is not enough to say that the status is the command's own: that no *other*
event can still come is what has to be carried from poll to poll.
`EveryTableDescribes`: for every line size, address and length of at least one byte
the ADMA table covers the buffer without gap or overlap and only its last line has
END.

`MmcStageProofs`, a section for the tuning and one for block I/O.

*Tuning.* `PhaseIsSelected`, for every number of phases and every set of them:
`RowIs` and `RowStart` say what a row is, `StraightWindow` and `RoundWindow` what a
window is on either side of the end of the ring, `RowIsLongest` that the row chosen,
the last continued by the first when they touch, is a longest window. Cardinalities
of rows come from `FS_Interval`. `TuningIsTrue` needs three facts in each place of
`sdhci_msm_execute_tuning`: the phases counted as passed are those whose own block
arrived (`PassedDelivered`), which is where the reset of the count at each trial
counts; the strength is the default or has been reported as changed
(`StrengthKnown`); and a phase that is tried is one (`TriedArePhases`).

*Block I/O.* `ProtectedStays`, `SuccessesAreReal` and
`BlockDeviceImplemented`, for every size of card, request and transfer. `Sound`
names what the code relies on and does not check: no standard capacity SD card, no
single-block transfer that fails after its response, requests and addresses that
fit 32 bits. The second is finding `block_io_single`. The invariant says how much
of the request is done (`ProgressInv`), and that the next chunk follows it and
stays inside the card (`RangeInv`). For the refinement every step is a step of
`BlockDevice` or leaves its variables alone: a chunk moves in `command`, where the
abstract device moves some blocks of a pending request, and the result is given in
`return`.

`DriverProofs`, one section for each of six small drivers.

*Maintenance.* `EraseStaysInside`, `RpmbReturns` and `MaintenanceIsExact`, from
`CardSizes`: what registers can hold. `EraseInv` carries the group computed for the end of an erase
to the command that erases, in whatever unit the driver counted when the call began
(`task.unit`); the arithmetic is in `Groups and addresses`. A command
that is lost ends the call it belongs to, which is why `Placed` speaks of cards
whose last switch was answered only (`~unsure`); and what the driver holds of the
registers is true only while they were read (`TruthOf`). `ExactInv` says for each place of
a call what it has erased, protected or written so far: the groups from the first to
the one before the next, and nothing else.

*Pins and interrupts.* `InterruptsAreWanted`, for any set of lines and whatever the boot
stage before left enabled or pending. A line is enabled without being wanted only
before the controller is reset and in `register_int_handler`, which enables a line
and masks it again; the invariant says that no interrupt is taken there.
`PinsAreConfigured`, for any pins: `PinsInv` says that each register is put together
from what was asked for (`CtlOf`, `CfgOf`), which is what makes a read, a change of
one field and a write back keep the others; `Outputting` carries the value between
the two steps of `DirectionOutput`.

*PMIC bus.* `CommandsMoveTheirBytes`, from `SpmiAssumption`: channels are numbered
from 0 and fit in a byte, buffers hold 1 to 8 bytes. `SpmiInv` has two halves.
`ChannelsInv`: entries of the table lead to channels their own peripheral owns, and
a command is with the arbiter only while the driver waits for it, on the channel the
driver looks at. `DataInv`: how far the data has come at each place, loaded in the
write registers, in the PMIC, in the read registers, in the buffer. The arithmetic
that takes four bytes at a time is in lemmas of its own.

*The keypad's binding.* `DevicesAreWhole`: at the i-th step of Start the driver holds
what the steps before it got, at the i-th step of an error exit or of Stop nothing
that the steps before it gave back (`Starting`, `Failing`, `Stopping`), and a Start
that went astray holds the protocol only (`GoneAstray`); the timer is there only
while the device is (`BindStays`). That every step frees what must no
longer be held follows from the lists alone (`AllGot`, `AllFreed`, `ErrorPlaces`).

*The screen log.* `LogStaysReadable`, from `ScreenFits`: a character and a line more
fit on the screen. `CellsInv`: every glyph lies in a cell of its own, in a row that
is a multiple of the scale and, unless it was drawn late, still fits (`RowFits`); the
row is past the last one only while a writer that stored such a row is about to turn
the page (`Turning`). `ColoursInv`: each write under
way found the colour that the one it interrupted had set, so that giving it back
from the top down ends with the ordinary one. `LatestInv`: what is logged during a
line feed is late, or is what feeds the line, so that a page is cleared only with a
late character or by one that is then due to be painted again.

*The DMA engine.* `TransfersMove`, from `BamAssumption`: a FIFO and a descriptor are
not empty. `Begun` says that a transfer lies in `n` places from the one where the
engine stood, cut where `cut` says, and that the engine has moved the bytes of the
first `k`; a whole FIFO is the exception, its event is refused and nothing moves.
`DescsAdded` says what a loop of `bam_add_one_desc` leaves (the loop is a recursive
function; the induction is `UpFromZero`), `PlacesFollow` that the driver's two ways of
wrapping and the engine's agree, `CutIntoPieces` where the division cuts.

`MCDriversProofs`, besides the results lifted below: *the clocks.* `ClocksAreDelivered`
for every set of client names and any number of calls, from `ClockAssumption` (the
names are in the table). The tables are constants, so each entry is worked out
(`SdccEntries`, `UartEntries`, `HidEntries`); `ClientsClock` says that a name leads to
a clock that is no root's source, and that a rate is set on a root clock. `ClockInv`
counts: a clock runs exactly while its count is above zero (`RunsWhileUsed`), the
count of a client's clock is the number of enables that clients hold of it under any
of its names (`Counted`, over the set `Enables` of those enables one by one), and the
count of `gpll0` is above zero once a root runs from it (`SourceUsed`). One disable
too many of a clock nobody holds is harmless because the count is then zero.

*The card's registers.* `RegistersAreRead` is shown of the instance in the
composition; the registers are any bits at all. `UnpackedBits`
says that the bit `p` of `UNPACK_BITS` is bit `low + p` of the card, through the
shift by a byte that the controller makes of a long response and the one that
`sdhci_cmd_complete` undoes (`WordsRead`), for fields inside a word and across two.
`CsdPlaces` and `CidRead` give every field the place it has in its version of the
register. The invariant, `ReadInv`, is that what the driver holds is what it has worked
out from the registers of the card it has, and not from those of a card before;
capacity and protection group follow field by field (`CapacityRead`, `GroupRead`).

`KeypadProofs`. `WalkIsSound`, `ReadingQueueIsLossyQueue` and `WaitedKeyIsThere`,
for every size of the queues, every set of keys, registrations and notification
functions, and any number of strokes. It goes up from the ring: `PopTakesOldest`
and `PushKeepsNewest` say what the two operations do seen as a sequence, modular
arithmetic included; `PushesKeepNewest` what a whole batch of pushes does (the
queue holds the newest `MaxCount - 1` of what it held and what came); `PollBrings`
what one poll of the device brings. A batch is a recursive function in the model,
and the library's induction theorems cannot be used; `Induction` and `Recursion`
are therefore proved from `WFMin`, as statements about the least member of a set of
naturals. The invariant adds to what the run checks that a key that was promised
is in the queue (`PromiseInv`). For the refinement every step is a step of
`LossyQueue` or leaves contents, arrivals and resets alone: `AcceptStep` for
whatever polls, `Clear` for `Reset`.

`ConSplitterProofs`. `KeysAreKept`, `NoKeyIsLost` and `KeyboardsAreTrue`, for any
number of keyboards, registrations, presses and calls, with memory that runs out and
keyboards that refuse at any place, from `SplitterAssumption` (functions and states
are what their names say, a list grows by at least one place). None of the three is
inductive; `SplitterInvariant` is, and adds to each what it rests on.

- *Room.* `BuffersFit` only says that `KeyQueue` and each `NotifyHandleList` are long
  enough for `TextInExList`. That enlarging them keeps them so, also when memory runs
  out after some of them, needs their exact lengths: as long as the list's memory or
  longer by one unit (`Room`).
- *Keys.* `KeysInOrder` needs that no key is younger than its keyboard's last press
  and that a keyboard holds only its own (`KeyNumbers`). A read that takes one key of
  each keyboard saves them in the order of the list, each of a different keyboard
  (`SavedFrom`); of a keyboard or of the queue it drops partial keys only, from the
  front (`KeepsFull`). `KeyOrderStep` and `ServedStep` go through the actions.
- *Registrations.* `RegistrationsAgree` needs that no registration of `NotifyList`
  covers a later one (`Apart`), or the keyboard would answer with the handle of
  another, and that each handle is in its keyboard's place (`HandlesInPlace`), which
  ends with the removal of a keyboard that is not the last (`shifted`). The splitter's
  own registration is never gone from a keyboard, since clients cannot name its
  function (`Entries`).
- *Toggle state.* `TogglesAgree` speaks of moments at which no notification is under
  way. In between, a keyboard whose state differs from the one recorded, or from the
  one a call in progress is setting, has as the last of its notifications the one of
  the state it has (`Settled`); that is why the last one heard leaves all of them
  the same.

The saved keys and the registrations on a new keyboard are recursive functions in the
model. That they are what their equations say is shown once (`Recursion`, from
`WFMin`: the library's theorems about such definitions take an operator as a
parameter), and `UpTo` carries a fact from one place of a list to the next.

`I2cProofs`. `TransfersTakePlace` (`TransferReal`), from `I2cFaultsAssumption` alone: for
every number of faults, and over every call of the bring-up and of `DisplayDxe`. It is
proved in `MCDrivers`, with the slots of the controller in place.

- *The stream.* A call is a write, a read, or a write and then a read (`GoodMsgs`). What
  it puts into the output FIFO is described place by place, without the sequence itself:
  `Tagged` says which tag stands at place i of the stream, the bytes from place 3 on, and
  `StreamIs` that the FIFO is filled so.
- *What moved.* `Moved`: some k tags have left the FIFO, all of them accepted or the last
  one refused (`Accepted`, `RefusedAt`); what is left is the stream from k + 1 on (`LeftIs`), the
  bridge took the bytes among the k (`TakenIs`), and the input FIFO holds a tag, a length
  and what the bridge sent. Each step of the bus moves one tag (`StartMoves`, and one
  lemma for each other kind).
- *The end.* The driver leaves its loop on flags it read a step earlier, while the bus
  goes on. `FlagsTrue` says what an old flag still means: the FIFO that was empty is
  empty, and the bytes that had arrived are there. With both (`AllThere`), `MoveEnds` gives
  all bytes taken, or all but the last with the error bit set and one message: the
  exception in `TransferReal`.
- *The bring-up.* `BringUpInv`: as long as nothing failed and no fault was used, the
  registers of the bridge and the value last read are those of a table of the call's
  number (`RegsAfter`, `ValAfter`), which each call carries one line on (`Upkeep`).

Results are lifted to the composition that a run checks by instantiating the module
of proofs as one instantiates a specification: `ProtectedBlocksKept` and
`DriverIsBlockDevice` in `MmcProofs` (block I/O in `MCMmc`, `Sound` being true of
its constants) with `TuningHolds` beside them, and in `MCDriversProofs`
`PinsAndInterruptsHold`, `MaintenanceIsDone`, `SpmiMovesBytes`, `DeviceIsWhole`,
`LogIsReadable` and `TransferIsMoved`. The slots of the composition stand for the
variables while `part` names the component; `SameGpio`, `SameBlocks` and their
like say that both instances are one model.

Only model-checked: the console splitter's output, text and pointers, card
initialisation, the graphics console, the PMIC's functions, the frame buffer. Liveness under fairness
(`NotifyDrains` and its kind) and ENABLED are beyond the prover. What should be proved next is step 7 of section 2.

## 5. What is not modelled

Wording, logging, register layouts, delays other than those a property names.
Time is a bounded number of polls. Buffers of 4 GiB and more cannot exist on a
board with 1 GB.

- `DisplayDxe` writes straight sequences to MDP5, DSI and the ADV7533 bridge; the
  hardware decides what a wrong order does and the source does not say.
- `SmemDxe` looks things up in a table the boot loader wrote.
- `UartDmSerialPortLib`: transfer lengths and FIFO levels are decided by hardware
  the source does not describe. `InMemorySerialPortLib` copies into a buffer.
- `PlatformBootManagerLib` registers consoles and hot keys with edk2's boot
  manager, which holds the state. Its variables are emulated in memory.
- `GenericKeypadDeviceDxe`: every key of this board's list is marked invalid, so
  it reports nothing; `KeypadTextIn` takes any device instead.
- `QTimerLib`, `VirtualRealTimeClockLib`: reading a counter.
- C library, boot shim, PrePi, SMBIOS, logo, ACPI, device descriptions: single
  passes or data.
- Code that nothing reaches: i2c_qup.c:864-1046 and what only it calls,
  `clock-local.c` and the PLLs this platform's table lacks, UGA in both console
  drivers (`PcdConOutUgaSupport` is FALSE).

`PROJECT.json` lists every component with its status and reason.
