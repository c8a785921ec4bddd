# TLA+ models of the boards' firmware

The repository holds the firmware of several small STM32 boards (power boards
of the E1 robot, CTU master and slave boards, hand controllers), the
bootloaders that update them over CAN and RS485, a shared layer
(`src/public_layer`) and the PC tools that talk to all of them. The boards
switch motors and batteries, are updated in the field, and lose power without
warning. What must not go wrong is therefore, in this order: a board that no
longer starts, a board that starts half a firmware, parameters and logs that
come back wrong after a power failure, a power sequencer that leaves a rail
on or never switches it on again, and a main loop that loses a timer, a frame
or a command. This directory models all of these, and proves a part of it for
every geometry, window and number of failures.

- [The system](#the-system)
- [Modules](#modules)
- [Runs](#runs)
- [Bounds](#bounds)
- [Fairness](#fairness)
- [Proofs](#proofs)
- [Findings and observations](#findings-and-observations)
- [Not modelled](#not-modelled)
- [Plan](#plan)

To run a model: `tlc -config RSStrict.cfg MCRingStorage`; to check proofs:
`tlapm RingStorageProofs.tla`. `PROJECT.json` lists the runs, the source
lines each definition stands for, a plausible bug per property that its run
must notice (the `Variant` operators in the modules), and the hazards.

## The system

### Components that are modelled

**`ring_storage`** (`public_layer/m_middlewares/Third_Party/ring_storage`) keeps
one set of registered variables in a log of frames in two or more erase sectors.
*State*: `latest_frame_addr`, `latest_version`, `active_sector_index`,
`write_offset` in RAM; frames (header, data, footer with a commit word) in
flash. *Operations*: `init` (scan or first use), `save`, garbage collection
inside `save`, `load`, `wipe`. *Users*: metadata of both bootloaders,
parameters of the power boards, the error log of `srv_log_flash`. *Hard*: every
operation is many flash operations, power fails inside any of them, the RAM
copy and the log must never disagree, and two frames with one version exist
after an interrupted collection. *Correct when* a save is one atomic, durable
replacement and warm state equals what a cold start would find.

**Flash drivers** (`public_layer/device_drivers/hal_flash/drv_stm32*_flash.c`).
F1, G0 and G4 refuse to program a word that is not erased; the F4 ANDs the new
word into it and notices at read-back. This difference decides what survives a
torn write.

**CAN upgrade engine** (`public_layer/service/boot/boot_fsm.c`,
`boot_transport.c`): IDLE, START, DATA_TRANSFER, VERIFY_PENDING,
REBOOT_PENDING; a 1024-byte block buffer, an 8-bit sequence number, a 16-bit
block sum and a 32-bit firmware sum, a block watchdog and a session timeout.
*Called by* `boot_task.c`, once for every received frame and once per tick.
*Correct when* no frame order programs a block over old data and metadata is
only written for a partition that has just been summed.

**CAN boot decision** (`public_layer/task/boot_task.c`,
`public_layer/service/boot/boot_flash.c`): at reset, verify and jump, or promote
B to A, or enter the engine; in the engine, a periodic callback that drains the
receive queue, ticks, resets after REBOOT, and rolls back to the application
when no session runs. The application enters it by writing `upgrade_flag` and
resetting (`E1_Master_Power_Manage/service/srv_boot_ctrl.c`). The G474 and G0B1
boards build it with one partition (`BOOT_SINGLE_PARTITION`).

**CAN host tool** (`E1_Master_Power_Manage/updata_tool/flash_tool/worker.py`):
START, METADATA, per block DATA_START, DATA..., DATA_END, then VERIFY and
REBOOT; resynchronises on NACKs and timeouts, retries, aborts. *Hard*: it and
the engine each keep a notion of the current block, over a bus that loses and
repeats frames; stale answers look like fresh ones.

**RS485 bootloader of the CTU boards** (`E1_CTU_BOOT`) **and the download inside
the running CTU application** (`E1_MASTER_POWER_CTU/service/srv_boot_ctrl.c`,
the same code in the slave board). Both drive one session engine (`boot_proto.c`,
`boot_session.c`) that writes partition B only; the bootloader promotes B to A.
`upgrade_flag` (0 normal, 1 downloading in the bootloader, 2 committed and not
yet promoted) is the only thing that passes between the two programs. *Hard*:
the commit of the application takes effect at the next power cycle, which may
come after anything else; metadata describes B while A runs; promotion erases
the running firmware.

**Power sequencing and fault policy of the CTU boards**
(`E1_MASTER_POWER_CTU`, `E1_SLAVER_POWER_CTU`: `srv_pwr_ctrl.c`,
`app_fault_policy.c`, `power_task.c`). The master switches VIN, DC24V, AUX and
MOTOR in steps, every 1 ms; every 10 ms a policy watches emergency stop,
power-good and MOTOR. The slave has one machine per output and a policy that
watches AUX. *State*: the machines, latches, debounce counters, what is wanted.
*Hard*: sequencer, policy and the host's commands write the same outputs at
different rates, and each remembers the past on its own. *Correct when* what is
stopped stays off, records of one fact agree, windows are not cut, and a board
that is left alone powers up.

**Power-up of the E1 master board** (`E1_Master_Power_Manage/service/srv_pwr_ctrl.c`,
`applications/app_fault_policy.c`). Two machines, the sequence and the soft
start of the motor supply, that step one after the other and command one
another; retries after an over-current, a brake that discharges the supply, a
fault policy with an emergency shutdown. *Correct when* MOTOR is closed only
onto a charged supply, over-currents stop the converter and are counted, and a
trip leaves nothing on.

**State machine framework** (`public_layer/m_middlewares/framework/fsm.c`): a
transition is visible at once, its entry callback runs at the next step.

**Software timers** (`public_layer/m_middlewares/framework/sw_timer.c`): a
sorted list of armed timers and two queues; every task of every board is a
callback. *Hard*: callbacks stop and start timers while these are in the list,
in a queue or in neither; the clock wraps. *Correct when* a timer is in exactly
one place and fires for ever.

**RS485 driver of the CTU boards** (`device_drivers/drv_uart.c`, `dev_rs485.c`)
and the FIFOs under it (`kfifo.c`, `msg_fifo.c`). *Hard*: the interrupts at the
end of a transfer, at the end of a reception and after an error come between
any two steps of the main loop, without a lock. *Correct when* no accepted frame
is lost, reordered or cut, the bus is released, and received bytes reach the
parser once and in order.

**Flash log** (`public_layer/service/srv_log_flash.c`): a FIFO of records that
main loop and interrupts fill and the main loop empties, one save of
`ring_storage` at a time. *Correct when* flash and queue together are the lines
that were accepted.

**Command service of the CTU boards and its client** (`tasks/com_task.c`,
`service/srv_com_mst.c`, `protocol_parser.c` on the board, `ctu_client.c` of the
C SDK on the PC). *Hard*: answers carry no number of their request, requests are
cut on a half-duplex line, the parser takes a length from whatever byte comes
third. *Correct when* a request is executed at most once and in order, and a
client gets its own answers again soon after a fault.

### How they interact

```
 PC tools                     board
 worker.py  --CAN frames-->  boot_fsm --callbacks--> boot_task --> boot_flash --> hal_flash
 boot_protocol.py, ctu_boot.c --RS485--> boot_proto -> boot_session -> boot_flash
                                          ^        ^                        |
                                   E1_CTU_BOOT   CTU application            v
                                                 (srv_boot_ctrl)      ring_storage (metadata)
 application --upgrade_flag in metadata, reset--> bootloader
 srv_log_flash, srv_param_store --save/load/wipe--> ring_storage

 main loop: sw_timer_tick, sw_timer_task --callbacks--> power_task, com_task, log_task, ...
 power_task --> srv_pwr_ctrl (fsm) ; every n-th tick app_fault_policy --requests--> srv_pwr_ctrl
 ctu_client --RS485--> drv_uart (DMA ring = kfifo) --> com_task --> protocol_parser --> commands
                  <-- dev_rs485 / drv_uart (queue, DE) <-- answers ;  commands --> srv_pwr_ctrl, policy
```

There are no threads. Concurrency is: interrupts that fill queues while the
main loop is blocked in a flash operation; two programs on one board that
communicate through flash; a PC and a bus; and power failure, which may come
between any two of these steps.

### Components that are not modelled

| component | why |
|---|---|
| `hal_flash.c`, the H7 driver, the storage port | a table of calls; the models call the driver, and no product has an H7 |
| `daemon.c`, `event.c`, `key_base.c`, `srv_signal.c` | small sequential libraries without a property beyond their code |
| sampling, fans, LEDs, reports of all boards | conversions, filters, tables |
| CAN application of the E1 master board | sampling and frames; its parameters are a user of `ring_storage` (part "parameters" of `MCMainLoop`) |
| glue of the G474 and G0B1 bootloader boards | the bootloader itself is modelled, with one partition as they build it |
| hand controllers | scripted motions and samples; the efuse machine is in the plan |
| PC user interfaces, CAN adapter SDK | the protocol clients under them are modelled |
| HAL, CMSIS, RTT, lwmem, CmBacktrace, filters | third-party or generated |

The complete list, with the reason for each and what of a modelled component is
left out, is in `PROJECT.json` under `components`; `hazards` there names the
line where each hard behaviour bites and the properties that watch it.

## Modules

### `RingStorage`, `MCRingStorage`, `DurableValue`

A slot of flash is a record: how far a frame in it was programmed (`erased`,
`frag`, `head`, `body`, `full`, `bad`), its version and its value. A frame is
programmed in three units - header, data, footer with the commit word - and one
action (`WriteUnit`, `GcCopyUnit`) programs one unit, so power can fail between
any two (`PowerFail` also leaves any partial result of the unit or of a sector
erase in progress; an erase that the driver refuses may end at any page of the
sector and leaves as much, `CutErases`). `pc` is the position of the main loop inside the library:
`gc` and `gcCopy` are `rs_gc_collect`, `write` the body of `ring_storage_save`,
`wipe` the loop of `ring_storage_wipe`, `initErase` the erase of a sector at
first use.

| model | code |
|---|---|
| `latest`, `latestVer`, `active`, `offset` | `latest_frame_addr`, `latest_version`, `active_sector_index`, `write_offset` |
| `Visible`, `ScannedBefore`, `IsLatest`, `SlotAfter` | what `rs_scan_for_latest_frame` reaches, its order, its tie-break, the offset it resumes at |
| `LooksEmpty`, `Sampled` | the three probes of `rs_is_sector_empty` |
| `Accepts`, `Programmed`, `Spoiled`, `Interrupted` | what the drivers do to one unit (`Reprogram` = F4) |
| `Save`, `GcErase`, `GcCopyUnit`, `GcNoCopy`, `WriteUnit` | `ring_storage_save` with `rs_gc_collect`, early returns included |

Every user registers its variables once, so all frames have one size; several
keys, their sizes and their offsets inside the frame are left out, and with them
`ring_storage_register`.

`DurableValue` is the abstract specification: one register, replaced at one
instant between the call and the return of a save, or not at all. `RingStorage`
implements it with `reg` mapped to what a restart at this moment would load
(`Recovered`): the property `SaveIsDurable`.

### `BootFsm`, `MCBootFsm`

One received frame is one action per branch of the five handlers
(`ProcessMsg`), one `boot_fsm_tick` is `Tick`. The context record `ctx` is
`boot_fsm_context_t` with `total_received` folded into `block` (it is always
`block * BLOCK_SIZE`). A payload is a number that stands for the sum of its
bytes, because sums are all the code computes of it. The host sends any frame at
any time; each flash operation may fail, an erase or a write of a block after any part
of it (`WipedTo`, `WrittenTo`).

### `BootLink`, `MCBootLink`

Extends `BootFsm` with `_run_flash` of the host tool: a phase, the current
block, the retry counters, the six-second silence rule and the resynchronisation
(`Reseek`); the bus is two queues on which a frame may be lost or repeated
(`slips` counts both); the tool's thread may stall while the node's clock goes on
(`HostStalls`, `stalls`). `Replies` is what the node can answer. A wait
times out only when nothing is under way: the tool waits seconds, the node
answers within milliseconds.

### `BootLoader`, `MCBootLoader`

Extends `BootFsm` (one unit to a block; `BootLink` is about the inside of a
block) with `boot_task.c`: `Decide`, the promotion in steps, the choice of the
target partition, the callback with its two rollback timers, the application's
request, power failures between and inside all of it. Metadata is one register
here, as `DurableValue` allows; `sick` is the one exception, the torn frame of
the run `RSTornWrite`, after which no save succeeds. `FirmwareAssumption` says
what the proofs need of the files' sums.

### `CtuBoot`, `MCCtuBoot`

The whole RS485 path: start of the bootloader (`TryBootApp`, `DropCommit`,
`CheckApp`), promotion with its three callers (`why`: resume, rebuild, commit),
the session in the bootloader and in the application, and the two tools that
drive it (`boot_protocol.py`, `ctu_boot.c`; they differ in how often they
repeat a command, which the model leaves open). RS485 is half duplex and only
the host asks, so a command and its answer are one action in which the answer
may be lost; the host then repeats the command, as `DataAgain` shows for a
block. A command that is lost on its way changes nothing. A bootloader that learns its
number saves its metadata, with the flag as it is in RAM (`LearnId`). `UnitsAt`, `RowsOfFiles` and
`FirmwareAssumption` say what the proofs need of the files' sums.

The production build is modelled, `BOOT_SKIP_APP_VERIFY = 0`. The build file in
the repository sets it to 1 (`E1_CTU_BOOT/CMakeLists.txt:109`), under which
`docs/boot_485_ymodem.md:49` says that no download of the application ever takes
effect.

### `Fsm`, `CtuMasterPower`, `CtuSlavePower`, `MasterPrecharge`

One action is one call of `power_timer_cb`: the sequencer's step, then, in every
n-th tick, the policy's. Its inputs are what the ADC and the pins may read, any
of them in every tick. The host's commands (`RemoteReset`, `Request`,
`ClearLatch`) come between ticks, since the main loop runs both. The contexts
are records named after the code's (`pc` = `pwr_ctrl_t`, `fp` = the static
variables of `app_fault_policy.c`, `seq` and `pre` = the two contexts of the E1
master board), and the steps are functions from a record to a record in the
order of the C code, because a tick calls several of them on one state. `Fsm`
has the two halves of a transition. Some variables are history that only
properties read: `ran`, `missed`, `age`, `gone`, `shadowed`, `starts`, `cold`,
`braked`, `resumed`, `seen`, `asked`. An external action (`MasterCalm`,
`SlaveQuiet`, `Serene`) ends all trouble at a moment of its choice, for the
liveness properties.

| model | code |
|---|---|
| `PwrStep`, `EnVin`, `En24V`, `StayPowered`, `AllOff` | `srv_pwr_ctrl_step` and the states' handlers of the CTU master, its over-voltage shutdown |
| `PolicyStep`, `Judged`, `Aged` | `app_fault_policy_step`, `fault_policy_critical` |
| `FromOff`, `FromEnabling`, `FromOn`, `Request`, `ClearLatch`, `AuxTrips` | the handlers of an output of the slave, `srv_pwr_ctrl_request_outputs`, `srv_pwr_ctrl_clear_latch`, `monitor_bus_aux` |
| `PrechargeStep`, `OcpWatched`, `OcpRecover`, `SeqStep`, `PreEntered`, `SeqEntered`, `EmergencyOff`, `Braking` | the two machines of the E1 master board with their entry callbacks, its emergency shutdown and discharge |

### `CtuCommands`

The half-duplex line as a sequence of bytes, the parser as a function (`Parse`)
from its FIFO to the frames it hands out, `Service` as one pass of
`com_task_service`, and `ctu_client_request` as `Ask`, `Read`, `GiveUp`. A byte is
`<<request, command, place>>`; `Value` gives the places the sizes that matter
when one of them is taken for a length. Requests and answers carry their number
here, for the properties; the code's do not. The download session that the
command opens is only a mode in which bytes go elsewhere: its inside is
`CtuBoot`.

### `MCPowerBoards`

The four modules above as four parts; a behaviour is that of one of them, chosen
in its initial state. They share no state (three different boards, and a service
that the power modules see as `Request`, `ClearLatch` and `RemoteReset`), so
the state space is a sum, not a product, and nothing is lost by taking one at
a time.

### `SwTimer`

`sw_timer_tick` in steps (`TickCall`, then `Drain` for each due timer) and
`sw_timer_task` (`Task`); a callback may stop any timer and start any other
(`Effects`). The clock has `Ticks` values; the list is ordered by the unsigned
targets and a timer is due by the sign of the difference, as in the code.

### `Rs485Send`, `UartReceive`

`Rs485Send`: `dev_rs485_send` and `dev_rs485_tx_flush` cut at every point where
an interrupt changes what they have read (`at` is that point); `Complete` is the
transmit-complete interrupt with the hook that lowers DE. `SlowIsr` lets the
interrupt that ends a transfer come between the start of the DMA and the line
that marks it. `UartReceive`: the DMA writes a ring that is also the buffer of a
`kfifo`; `in` and `out` wrap; `kfifo_get` is a copy and, later, an addition to
`out`, whose old value the compiler may have read before (both results are
possible). The length in `kfifo_get` is computed in one step with the copy.

### `LogFlash`

The FIFO of bytes as an array with two indices, `kfifo_put` in two halves so that
an interrupt's line may come between them, `Step`, `SaveOk`, `SaveFails` as
`srv_log_flash_step`. A failing save logs an error of its own, hence a record.

### `MCMainLoop`

`SwTimer`, `Rs485Send`, `UartReceive`, `LogFlash`, and `RingStorage` on the
flash of the E1 master board (STM32F4, two driver errors) as parts of one run,
like `MCPowerBoards`.

### Proof modules

`RingStorageProofs` (types, the log's invariant, saves under driver errors and
wipes, the refinement of `DurableValue`), `BootFsmProofs`, `BootProofs` (`BootLink`
and `BootLoader`, with the lemmas of `BootFsmProofs`), `SumProofs` (sums over finite
sets, for the two modules that add up units), `CtuBootProofs`, `CommandProofs`
(`CtuCommands`), `PowerProofs` (the three power boards and `MCPowerBoards`),
`LoopProofs` (`SwTimer`, `Rs485Send`, `UartReceive`, `LogFlash` and `MCMainLoop`);
see [Proofs](#proofs).

## Runs

| run | instance | distinct states | shows |
|---|---|---|---|
| `RSStrict` | strict flash, 2 sectors of 3 frames, no driver error | 18 868 | `SaveIsDurable` (refinement of `DurableValue`), `WarmEqualsCold`, `NothingNewerHidden`, `VersionNamesValue`, and the inductive invariant `LogInv` |
| `RSWipe` | strict flash, 2 sectors of 3 frames, only the first two slots probed, the area is wiped, power fails inside the wipe, one driver error | 1 140 149 | a save that returned OK is found, and frames that a half-done wipe leaves behind never outrank it, in every session that is sound (`SavedWhileSound`) |
| `BootFsmAnyHost` | any frame at any time, one failing flash operation | 301 258 | `AheadBlank`, `CommitVerified`, `SilenceEndsSession` |
| `BootLinkFaults` | tool, file of three blocks, bus with three slips, two stalls, one failing flash operation | 934 918 | `BlocksAreTheHosts`, `DoneMeansCommitted`, `UpgradeEnds` |
| `Loader` | boards with two partitions and with one, three files, one flash failure, torn metadata saves | 132 176 | `RunsWhatIsRecorded`, `CommittedIntact`, `AppReturns` |
| `CtuBoot` | two files, two flash failures, torn metadata saves | 104 278 | `RunsWhole`, `NextStartRuns`, `HostNotNeeded`, `CommittedIsTheHosts`, `Settles` |
| `PowerBoards` | three power boards and the command service | 237 350 | `MasterRails`, `RecordsAgree`, `AuxLossLatchesAlone`, `SupplyIsSafe`, `CommandsKept`, `WindowsKept`, `FaultTripIsFinal`, `BoardsPowerUp` |
| `MainLoop` | timers, serial line in both directions, flash log, parameters on an F4 | 596 934 | `TimersKept`, `FramesKept`, `BytesKept`, `StoredKept`, `LoopGoesOn` |

`PowerBoards` and `MainLoop` take two to three minutes, `BootLinkFaults` one to two,
the others less. Some
of their properties are conjunctions, one conjunct per part:

| property | conjuncts |
|---|---|
| `BlocksAreTheHosts` | `AlwaysTheHosts` while stalls and slips have not met; `HoldsTheHosts` once VERIFY has passed |
| `DoneMeansCommitted` | `VerifiedStays`; success leads to `Committed` |
| `MasterRails` | `StoppedStaysOff`, `RailsFollowTheSteps` |
| `RecordsAgree` | `LatchAgrees`, `PinAgrees`, `UnwantedIsOff` |
| `SupplyIsSafe` | `TrippedIsOff`; `MotorTakesOver`, `StartsBounded`, `OcpStopsConverter`, `OnlyRetriesAreSeeded` |
| `WindowsKept` | `GraceLostByRestart` (CTU master), `SettlesFirst` (slave), `DischargeIsFull` (E1 master) |
| `BoardsPowerUp` | `CalmStartsMotor`, `QuietBringsUp`, `SerenePowersUp` |
| `CommandsKept` | `InOrder`; `OwnAnswers`: at most `Patience` failures in a row after a fault, and `Undisturbed` |
| `TimersKept` | `InOneList`, `CountIsKept`, `HiddenOnlyAtWrap` |
| `FramesKept` | `NothingLost`, `CutOnlyWhenJoined` |
| `BytesKept` | `OnlyOnceUnlessTorn`, `NoneSkipped` |
| `StoredKept` | `LogKept`; `SavedIsRecovered` on the F4 |
| `LoopGoesOn` | `FiresForever`, `BusIsReleased`, `QueueIsSent`, `AllIsParsed`, `LogDrains` |

Four further runs end in a violation; each is a finding, see below:
`RSTornWrite`, `BootLinkZeroUnit`, `CtuSecondDownload`, `LogFull`. Three
configurations besides are not runs of the project: `SwTimerWrap.cfg` (module
`MCMainLoop`) and `BootLinkBeacons.cfg` (`MCBootLink`) show observations, and
`BootLinkSums.cfg` (`MCBootLink`) checks, on the states of `BootLinkFaults`, that
`SumsTell`, the hypothesis of `BlocksArriveWhole`, holds throughout.

`CommittedIntact` speaks of boards with two partitions: with one, a START
erases the firmware that metadata records, by design.

Deadlock is checked in every run but those of `BootLink`, `LogFull` and
`MainLoop`, which really end: the tool finishes and the node has left the
bootloader; the sender, the receiver and the log have handled all frames, bytes
and lines that the bounds allow.

Exceptions written into properties, all of them reachable:

- `SavedWhileSound`: a session is not sound after a wipe that stopped at an erase
  that failed, which leaves RAM pointing into erased sectors; nor when its scan
  missed a newer frame (`Reached` is false), which a power failure inside an
  erase of a wipe may leave behind a blank slot. The next completed scan or wipe
  ends the one, a scan that reaches every newest frame or a wipe the other.
  Without wipes every session is sound (`SavedIsAlwaysFound`).
- `BlocksAreTheHosts` during a transfer: no stall or no slip (see `AlwaysTheHosts`
  under [observations](#findings-and-observations)); unconditionally once the sum
  of the whole firmware has been compared.
- `DoneMeansCommitted`, its second half: no flash failure (the result of the metadata
  save is ignored, `boot_fsm.c:671`), and fewer than two slips (any ACK passes for
  the one of REBOOT, `worker.py:504`). The first half, `VerifiedStays`, has no
  exception.
- `AppReturns`, `HostNotNeeded`, `Settles`: no torn metadata frame.
- `HostNotNeeded`: fewer than two failed operations (after two failed promotions
  in a row `boot_task_init` sets the flag to 1, with B still whole), and not on a
  board whose very first save failed (its record then never gets the magic).
- `GraceLostByRestart`: MOTOR's settle window is cut only by an over-voltage
  shutdown and restart that the policy did not see. `AuxLossLatchesAlone`: the
  policy is late only when it found another output latched. `DischargeIsFull`: a
  discharge that a power-up ended shortens the next. `OnlyRetriesAreSeeded`: a
  cold start with a seed is a retry.
- `BusIsReleased`, `QueueIsSent`: unless `tx_busy` is stuck (`Stuck`).
  `OnlyOnceUnlessTorn`, `AllIsParsed`: unless an error interrupt moved the FIFO's
  indices inside `kfifo_get`. `CutOnlyWhenJoined`: a frame is cut only when its
  send found an earlier transfer under way. `HiddenOnlyAtWrap`: a due timer
  waits behind the head only around the wrap of the clock. `LogKept`: until a
  record was queued in part or an interrupt logged inside `kfifo_put`.
- `OwnAnswers`: after a fault, up to `Patience` requests in a row may fail or get
  another one's answer.

Each exception is the code's own behaviour, and where a comment promises more it
is under [Findings and observations](#findings-and-observations).

## Bounds

- `RingStorage`: two sectors is the minimum the code accepts and makes every
  collection hit the sector of the previous frame; two slots give a sector
  head and a last slot, the only positions the code treats differently, and
  `RSStrict` and `RSWipe` have a middle one besides: a half-erased sector whose
  middle frame is blank is what hides the newest one from a scan, and with two
  slots that cannot happen. `rs_is_sector_empty` probes the first slot only in
  `RSStrict`, the first two in `RSWipe` (`Sampled`), less than the code does.
  `RSWipe` needs four versions: a sector must be full when its wipe fails, so
  that the next save collects an erased frame (`GcNoCopy`). Two values, symmetric where no temporal
  property is checked. `MaxVersion` allows several trips around the area. More sectors,
  slots and values are covered by the proofs for the invariants named there.
- `BootFsm`: two blocks of two units: a first and a last block, a first unit
  and a tail. Timeouts of 1 and 2 ticks keep their order. `BlockMod` 4 makes
  block sums collide.
- `BootLink`: three blocks of three units, so there are a first, a middle and a
  last block, and a block has a first, a middle and a tail unit. Two slips are what
  the shortest deception needs (a lost and a repeated frame); three slips and two
  stalls put a block in another's place, in a file of three blocks. Sums
  do not collide in the passing run: the finding `BootLinkZeroUnit` is what a collision does.
- `BootLoader`, `CtuBoot`: partitions of two units and files of different
  lengths, so that a file can leave the end of the other one behind; the
  values of units are chosen so that only a file has a file's sum. Sums that do
  collide would break `RunsWhole` on the code as in the model.
- Failures: one or two flash failures (`MaxFaults`), any number of power
  failures. `CtuBoot` needs two to reach the promotion that fails after its
  resumption failed.
- Clocks are counters that stop one above the value that still matters.
- `RingStorage` inside `MainLoop`: two sectors of two frames, two driver errors
  besides power failures, versions up to 4: what a failed unit leaves on an F4
  (the AND of both frames) meets a collection, a restart and a second failure.
- `CtuMasterPower`, `CtuSlavePower`, `MasterPrecharge`: all times are 1 to 4 ticks,
  in the order of the real ones, so that each can expire inside or outside
  another; the policies run every second tick instead of every tenth (the E1
  master's runs in every tick, `FAULT_POLICY_PERIOD_MS` is 1). Voltages lie on
  each side of every threshold. One low-side switch stands for all: they have
  the same machine and do not look at one another.
- `CtuCommands`: eight requests, one fault (a cut request or a slow board), a
  parser that hands out at most two frames in a call instead of four, and the
  length that a `z` gives scaled down with it (12 bytes, longer than a request and
  shorter than two; in the code 127). `Patience` is 5, the least that holds here: with
  4 the run fails. The bound that is proved for all instances, `Recovery` of
  `CommandProofs`, is 33 for these constants.
- `SwTimer`: one timer of each priority, one of which ends; seven values of the
  clock with periods of 1 and 2, the smallest ring in which "past" and "future"
  differ on both sides of the wrap. An iteration of the main loop lasts at most
  one tick: with longer ones NORMAL timers due in every iteration starve LOW
  ones, because one queued timer is served per iteration.
- `Rs485Send`: five frames and a queue of two (full, and refused). `UartReceive`: a
  ring of 4, chunks of 2, indices modulo 8 (they wrap once; the code's 2^32 is a
  multiple of the size as well), one error. `LogFlash`: three units to a record
  and eight to the queue, not a multiple, as 98 and 1024 are not; six lines, a
  failing save's own included.


## Fairness

- `BootFsm`: weak fairness of `TickBusy` - the timer callback runs whatever the
  host sends.
- `BootLink`: weak fairness of the tool's thread, of frame delivery and of the
  node's loop; strong fairness of `HostRecursionLimit`, which stands for the
  bounded recursion in `_wait_ack`: every pass costs one level, so it cannot be
  avoided for ever.
- `BootLoader`, `CtuBoot`: weak fairness of the board's own steps. Hosts, users
  and the power supply are under no obligation; `AppReturns` and `Settles`
  speak of a board that is left alone from some time on
  (`<>[][SystemNext]_vars`), `SilenceEndsSession` likewise of a silent host.
- Power boards: weak fairness of a tick with some input - the timer task runs,
  whatever the ADC and the pins say. `BoardsPowerUp` is about the time after
  supplies, loads and the host have become quiet; before it anything may happen.
- `SwTimer`: weak fairness of the main loop and of the clock. `Rs485Send`,
  `UartReceive`: of the main loop, of the end of a transfer, of the receive
  interrupts; the line goes idle in the end. Errors are under no obligation.
  `LogFlash`: of the main loop and of the pause between two saves; a save may
  fail as often as the bound on lines lets it log that.
- `MCMainLoop` has one fairness condition per rank for all its parts, because only
  actions of the part that was chosen are ever enabled.
- `CtuCommands` has no liveness property: `OwnAnswers` bounds what a fault costs,
  which is stronger than recovering some day.
- `RingStorage` has no liveness property: each of its operations is a loop with
  a fixed bound in the C code.

## Proofs

All are checked by TLAPS from the modules' assumptions on their constants (the
named `ASSUME`s, which say that counts are positive, sets are sets of the right
kind, markers are no values), which TLC evaluates in the runs.

**`RingStorageProofs!TypeInvariant`** - `Spec => []TypeOK` for every geometry,
on any flash, with wipes and driver errors. `TypeOK` is not inductive: that
`offset` stays within `1 .. NSlots + 1` needs the fact that a frame is only
written when it fits, and that a save in progress has a value. `Typing` adds
both.

**`RingStorageProofs!LogInvariant`, `WarmIsCold`, `NothingHidden`** - for
every number of sectors and slots and any number of power failures, under
`Conditions`: at least two frames to a sector (`srv_log_flash.c` asserts it at
compile time), no error of the driver itself, no wipe. The invariant is
`LogInv`. `WarmEqualsCold` says that the remembered frame has the highest
version; that does not survive a step on its own, for two reasons. A power
failure forgets the RAM, so the invariant must speak of the flash alone
(`Settled`: either nothing was ever committed or some frame is `Newest` -
whole, reachable by a scan, and outranking every other frame, damaged and
hidden ones included). And garbage collection makes a second frame with the
same version: `CopiesOnly` says that two frames with one version are an
original and the copy at the head of the next sector, and `TargetOutranked`
that the sector about to be erased holds nothing the scan would prefer.
`CopyProgress` and `WriteProgress` say what is in the slot under the pen. The
proof has one lemma per action; for `PowerFail`, one per thing that can be cut.

`CutEraseFacts` says what an erase leaves of a sector whoever ended it, and is used for
the power failure as for the failing driver.

**`RingStorageProofs!SavedInSoundSession`, `SavedIsAlwaysFound`** - for any
geometry, flash and sampling of the emptiness probe, with driver errors, wipes and
power failures in any order, and without `Conditions`. `LogInv` is lost as soon as
the driver fails: a commit word that was programmed but not acknowledged leaves a
frame newer than the remembered one. What survives is weaker (`Leads`): no frame
but the one in the slot under the pen is newer than the remembered frame, and that
one by at most one version, since the next save either is refused there or writes
over it with the same version. `Copied` and `Written` say what the slot holds after
each unit, and a save whose last unit is accepted is therefore the newest of all.
The induction over wipes failed where the model was not general enough: the property
stated before (a save is found unless a wipe failed) held with two frames to a
sector and fails with three, because power that fails inside a sector erase may
leave the newest frame behind a blank slot. The history variable `sound` names that
case; `~AllowWipe => sound` is part of the invariant `SoundInv`.

**`BootFsmProofs!TypeCorrect`, `BlankAhead`, `CommitsAreVerified`** - for any
block and partition size, any set of messages, any number of flash failures.
The invariant `FsmInv` adds `SessionSettled` to types and `AheadBlank`: the
counters that a session in each state has settled (a block being received lies
inside the announced size; in VERIFY_PENDING everything was received; in
REBOOT_PENDING the flash has the announced sum). Without it a repeated START or
a late DATA could move the counters under the erased region.
`CommitsAreVerified` follows because only `Reboot` changes metadata and only in
REBOOT_PENDING.

**`RingStorageProofs!SavesAreDurable`, `VersionsNameValues`, `SavedIsFound`**
- under the same `Conditions`, `RingStorage` implements `DurableValue`: what a
restart would load changes at one instant between the call and the return of a
save, or not at all, and an OK means that it has. The invariant `RefInv` adds to
`LogInv` that undamaged frames with one version carry one value (`ValuesAgree`),
that a save in progress has a value and no result yet, and `SavedIsRecovered`
itself. `Recovered` chooses, as the scan does, the first of the frames with the
highest version; that there is a first one follows from the well-founded order
of the places, and that it does not matter which one it is from `ValuesAgree`:
the value of any `Newest` frame is what a scan loads. Every action is then one of
five steps of the register (`AbstractStep`): the commit word of a new frame is the
instant of the replacement, power failures inside it included; garbage
collection, restarts and everything else stutter.

**`BootProofs!RunsWhole`, `CommittedStaysWhole`, `LoaderTypesKept`** - for
partitions and files of any size, any number of files, of failed flash operations
and of power failures, with one and with two partitions. They stand on
`FirmwareAssumption`, which the code cannot check: the tool announces the sums of
its files, the board is delivered with one of them or with none, and a sum that
matches what the units of a partition may be - units of files in their places,
blank and torn ones - belongs to that file. (Where additive sums collide a board
does run something else.) The invariant `LoaderInv` contains `FsmInv`, whose
lemmas are used again, and adds what links the engine to the board around it:
`Apart`, a session writes another partition than the recorded one - until the
commit, after which `Finished` holds: metadata now name the partition just
written, so the engine must stay idle until the reset, and does because the host
sends nothing but a CANCEL before it has its answer; `Announced`, the sum that
VERIFY compares is a file's; `MetaNamed`, so is the recorded one; `Promoting`, what
is copied so far equals B and the rest of A is blank - the copy is not checked
again before the jump, so this is all that makes A whole. One lemma
(`MessageUnrecorded`) says what a board sees of every engine step but the commit; an
erase and a write that fail half-way leave only units that are blank, old or the
file's (`MixedRow`).

**`BootProofs!LinkTypesKept`, `LinkBlankAhead`, `VerifiedFirmwareStays`,
`OnlyTheFileIsRecorded`** - one upgrade over the bus, for any firmware, sizes of
block and partition and contents of the flash before, any number of lost and
repeated frames, of stalls and of flash failures. The invariant `LinkInv` contains
`FsmInv` again, now with the tool's frames (`HostFrames`) in place of any host. What
the engine cannot know is the rest. `Agreed`: what the session was told of size and
sum is the file's. `InOrderOfSteps`: a START on the bus stands before everything else
(`StartsFirst`), and once METADATA was accepted there is none left - the tool sends
METADATA only after an ACK of START, and a queue keeps its order however often it
repeats a frame. Without it nothing would rule out a late START that erases a
verified firmware, and `StaysVerified` (from VERIFY on, and for every ACK of VERIFY
that is still under way, the partition has the announced sum) would not survive
`NodeReceive`. `VerifiedStays` is the first half of `DoneMeansCommitted`;
`RecordsTheFile` says that the node records nothing but this file. These theorems do
not say that the blocks *are* the file, and assume nothing of sums.

**`BootProofs!VerifiedIsTheFile`, `BlocksArriveWhole`** - the two halves of
`BlocksAreTheHosts`, for any file, sizes of block and partition, old contents of the
flash, and any number of slips, stalls and flash failures. Sums may collide, and they do
in `BootLinkZeroUnit`, so a hypothesis names what comparing them leaves to chance. It is
about single states and says nothing of the order of frames, losses or repetitions:

- `BlockSumTells`: a filled block buffer whose sum matches the DATA_END at the head of
  the bus is the block which that frame ends;
- `FileSumTells`: if every block in flash is *some* block of the file, its own or an
  earlier one, and the sum of all is that of the file, then every block is its own;
- `TailsTell`, a condition on the file alone: no block has the sum of its own last unit.
  A repeated DATA_END finds nothing in the buffer of the next block but what it fills in
  itself; an all-zero block breaks this (`BootLinkZeroUnit`).

`VerifiedIsTheFile` needs only the first two and holds with any mixture of stalls and
slips. Its invariant `BlocksInv` allows for a node that has run ahead of the tool, as it
may after a stall (`AlwaysTheHosts` does not hold then): every
block in flash is an earlier one of the file or its own (`WholeBlocks`), the tool is never
ahead of the node (`NeverAhead`: no answer to a request to open a block, no end of a block
and no position of the tool names a later block than the node's), and nothing of a block is
on the bus before METADATA was accepted (`Before`). What this leaves open is decided by
the sum of the whole file.

`BlocksArriveWhole` adds `LockStep`: without a stall, or without a slip, the node and the
tool are at the same block. That alone is not inductive: it depends on which requests
to open a block, which answers to them and which ends of blocks can be on the bus at the
same time. `Filling` and `Asking` list them for a tool that sends a block and for one that
waits for it to be opened; `Together` and `EndsBelong` say that DATA_ENDs on the bus are
repetitions of one, behind each other, and belong to the block that is open or to the one
just closed, whose repetitions then meet an empty buffer. One lemma per handler again;
`Blockwards` says what a step of the tool may do to the bus.

**`CtuBootProofs!OnlyWholeFirmwareRuns`, `DownloadsAreSafe`, `CommitsAreTheHosts`,
`CtuTypes`** - for partitions and files of any size, any number of files, failed flash
operations, power failures and lost answers; `DownloadsAreSafe` under `~Again`, the
condition whose absence `CtuSecondDownload` shows to matter. They stand on a
`FirmwareAssumption` like that of `BootLoader`: a sum that matches what the units of a
partition may be belongs to that file. The session adds up the units as they arrive,
the boot decision sums what the flash holds; that the two agree
(`SessionIsTheHosts`) needs what a sum over a range of units is, and `SumProofs`
proves that from the definition in `Functions`: the recursion over
subsets has a solution (`SumsExist`), any two agree (`SumsAgree`), and one more unit
adds its value whichever element `CHOOSE` takes first (`SumsAdd`), each by the
smallest cardinality that would fail. The invariant `CtuInv` adds where the records
come from (`RecordsNameFiles`), that the bootloader never has the record of a commit in
hand while it waits for commands (`BootMarks`: a save on learning its number would
commit it again), that a start has the record in RAM until it has
decided (`StartKnowsRecord`: the save of the changed flag may fail without harm,
since size and sum stay), and `AppIsRecorded`: `NextStartRuns` alone does not
survive a session, because START erases B; it does while a session is open only
with a record that A matches, and that is what `Again` takes away.

**`CtuBootProofs!RepairsItself`** - `HostNotNeeded`, under `~Again`, for partitions
and files of any size: a board with a recorded firmware does not wait for the host in
its bootloader. `HostInv` says, mode by mode, what the way from the reset to the
application still has in hand (`OnTheWay`) and what the next start finds
(`Repairable`): B is whole behind flag 2, A behind flag 0, or B once more if an
operation of the flash has failed. That last case is why failures have to be counted:
a promotion that fails leaves a broken A under a record that says nothing of it, B is
left to rebuild it from, and the second failure in a row sends the board to its
bootloader. What the property excepts never heals (`FineBefore`), so each step needs
to be looked at only while less than two operations have failed.

**`PowerProofs!MasterKeepsRails`** - `MasterRails` for any voltages,
windows and rates. The sequencer starts MOTOR by itself in every powered tick
in which a request is on record, so that MOTOR is off is not inductive: `Stopped`
says that a stop on record has also withdrawn the request, `Sequence` which rails
each state allows. One lemma per handler says what it keeps (`Obeys`).

**`PowerProofs!SlaveRecords`, `SlaveAuxLoss`, `SlaveSettles`** - for any
set of low-side switches, any windows, any order of ticks, requests, resets and
trips. `SlaveInv` is the types (the counters stay below the thresholds at which
the code acts), `RecordsAgree`, and two facts that tie counters to time: `Aged`
(an output has been driven for at least as long as its machine has counted) and
`Counted` (the policy has counted every step of a loss it could see).

**`PowerProofs!SupplySafe`, `FaultTripsStay`, `WindowsHold`, `BoardsTypes`** - the E1
master board for any thresholds and times, and the three boards with the command
service side by side. A tick of the E1 master is a chain of three records (soft
start, sequence, policy), and the invariant is stated for a record so that it can be
carried along the chain: `Soft` (what each state of the soft start says of the
converter, the counter and the seed), `Places` (where the sequence is while the soft
start runs, rests or is done, and that MOTOR is on only behind it), `Brakes`, and,
about the history, `Counted` (starts are paid for by retries), `Seeded`, and
`BrakeAccounted` (the count of the discharge against the ticks of the brake). Entry
callbacks run a tick after their state is visible, so the invariant between ticks
(`Safe`) is not the one inside a tick (`SafeIn`).

**`CommandProofs!ExecutedInOrder`, `UndisturbedAnswers`, `CommandTypes`** - the `InOrder`
part of `CommandsKept`, the `Undisturbed` part of `OwnAnswers` and the types,
for any commands, any values of bytes, any remains of a
cut frame, any sizes of reads and any bound of the parse loop. `Orders` says that
the bytes that wait on the line and in the FIFO stand in the order in which they were
sent and that none belongs to an executed request; the parser drops and searches and
hands out frames by taking them from the front, so every round keeps it (`ParseKeeps`).
How often it goes round is a recursive function; that it has a solution is proved
from the set of numbers of rounds for which there is one (`RoundsExist`). Without a
fault the two ends take turns (`TakingTurns`): whatever the sizes of the reads, the
parser holds the first bytes of the one request under way (`Begun`), hands it out in
the round that follows its last byte and is then empty (`FedFits`), so that the next
answer is that request's own.

**`CommandProofs!FailuresEnd`, `CommandsAreKept`** - the rest of `CommandsKept`: after a
fault at most `Recovery` requests in a row fail, and `CommandsKept` holds for every
`Patience` of at least `Recovery`. Assumed is `MaxParse >= 2`, two rounds of the parse
loop to a feed (`SRV_COM_MST_MAX_PARSE_PER_FEED` is 4). What a fault leaves behind is of three
kinds: frames that have begun but are no whole request (`Left` counts them, on
the line and in the parser), bytes that the longest frame the parser may wait for
still lacks (`Short`), and answers to requests that the host has given up
(`Answers`). With `Longest` the most that a length byte can make the parser wait for and
`MostShort` the number of requests that make up for as many bytes, `Recovery` is
`3 * MostShort + 2 * (Longest + MaxFaults + 1) + 1`. Neither `failed <= Recovery` nor
the sum of `failed` and the weight of what is left (`Cost`) is inductive: a request
adds a beginning of its own, and whether that is paid for depends on where the
request is. `Recovers` tells these cases apart: no request is open (`Rested`); the open
one may be lost, and that is accounted for (`Paid`); it waits whole behind other
beginnings (`Unpaid`, and then nothing is lacking); or its answer is the next that the
host reads (`Own`). `Room` bounds what can pile up: a beginning on the line needs a fault
or the open request, and what is left and the answers share one limit. A feed deals with at
least two beginnings or leaves a parser that waits or is empty (`FedFollows`, from what one round
does, `ParseFollows`), which is where `MaxParse` enters. The bound is safe, not sharp:
every beginning is counted as if it cost two failures.

**`LoopProofs!SendKeepsFrames`** - `FramesKept` for any number of frames and
any depth of the queue, with an interrupt at every point. `SendInv` adds what the
main loop still knows after each point at which it may be interrupted:
`MadeIsFrame`, and `DriveKept` (when a send found no transfer, DE is still up and
nobody else has started one; when the flush found none, the queue is not empty).

**`LoopProofs!BytesStay`** - `BytesKept` for any size of the ring, any wrap of the
indices that is a multiple of it, any errors. The indices of a FIFO wrap, so the
invariant speaks of the numbers behind them: there are an `i` and an `o` with
`in = i % Width` and `out = o % Width` (`InKept`, `OutKept`), the last `Size` bytes of
the line stand at their places of the ring, and what was copied but not yet
counted out begins at `o`.

**`LoopProofs!LinesKept`, `StoredStays`** - a record that is not cut stays in
the queue, whole and in order, until it is saved, for any sizes of record and
queue: `Queue` finds the unit number `k` of all units ever logged at its place of the
ring by division (`Place`). `StoredKept` adds the parameters of the E1 power board,
for which the module instantiates `RingStorageProofs` and cites `SoundInv`.

**`LoopProofs!NoTimerLost`** - `TimersKept` for any timers, priorities, periods,
repetitions and width of the clock. `sw_timer_tick` takes a timer out of its list,
calls it back and puts it in again, and the callback may stop and start any timer, its
own included: `Kept(s, away)` says what lists, flags and counts are while the timers
`away` are in the hands of the caller, each operation keeps it, and between the steps
nobody is away.

**`LoopProofs!LoopInvariant`, `LoopTypes`, `LoopKeeps`** - the parts together: a step
of one is a stutter of the others.

Only model-checked: that the sums of the instances tell blocks and files apart
(`SumsTell`, `BootLinkSums.cfg`; it does not hold for every file); that fewer failures
than `Recovery` are enough where the bytes are those of `PowerBoards.cfg`; every liveness
property, the second half of `DoneMeansCommitted` among them (the prover does not
handle fairness). Recursive functions over numbers and sums over sets are
within reach, by way of the set of arguments for which a solution exists; operators
that are declared `RECURSIVE` and library theorems that take an operator are not.
`BootFsm` treats the sum as an unknown function of the partition, which
is all `CommitVerified` needs, and `CtuBootProofs` proves what it uses of sums.

## Findings and observations

With a run:

1. **One torn write ends all saving** (`RSTornWrite`). `rs_scan_for_latest_frame`
   resumes at the slot behind the latest complete frame
   (`ring_storage.c:345`) although the header of a frame whose save was cut may
   stand there; on F1, G0 and G4 every later save then fails.
   `srv_log_flash.c:15` promises that a power failure costs at most the record
   being written. In a bootloader it means a flag that is never cleared again.
2. **A block can be shifted by a unit** (`BootLinkZeroUnit`). An
   out-of-sequence DATA clears the length of the block but neither the expected
   number nor the buffer, and no DATA_START is demanded (`boot_fsm.c:475-482`,
   against the comment at `:479`). A block that begins with a zero unit then
   passes its additive sum one unit out of place.
3. **Two downloads without a power cycle leave a board without a bootable
   firmware** (`CtuSecondDownload`). The second START erases B
   (`boot_session.c:99`) while metadata describe the firmware in B; A is whole
   but no longer matches, against `srv_boot_ctrl.h:20` and
   `boot_485_ymodem.md:46`.

4. **A full queue corrupts the flash log for good** (`LogFull`). `kfifo_put` puts in
   what fits (`kfifo.c:72`): the eleventh record of 98 bytes is cut to 44, and
   every record saved after it begins inside one line and ends in the next, until
   the board restarts, against `srv_log_flash.c:476` (a full queue drops the new
   record).

Seen while modelling, and stated as properties that fail when they are put into
the configuration named (the runs check the weaker form that the code keeps):

| property | configuration | what happens |
|---|---|---|
| `GraceKept` | `PowerBoards.cfg` | CTU master: an over-voltage shutdown and restart between two looks of the policy leaves the times of the previous cycle, and MOTOR is tripped without its settle window (`app_fault_policy.c:147-149`) |
| `AuxLossLatches` | `PowerBoards.cfg` | CTU slave: any latched output suspends the AUX policy (`app_fault_policy.c:57`, against `app_fault_policy.h:10`) |
| `ColdStartsAtZero` | `PowerBoards.cfg` | E1 master: a cold retry ramps from the seed of an earlier warm start (`srv_pwr_ctrl.c:633`, against `:147`) |
| `NothingLeftOver` | `PowerBoards.cfg` | whole requests wait in the parser until the next bytes come (`com_task.c:149`, against `srv_com_mst.c:190`) |
| `HeadTellsAll` | `SwTimerWrap.cfg` | around the wrap of the clock a due timer waits behind a head that is not due (`sw_timer.c:178`, against `:94`) |
| `NoneIsCut` | `MainLoop.cfg` | the end of an earlier frame takes DE down after the next send has raised it (`dev_rs485.c:130`, against `:129`) |
| `OnlyOnce` | `MainLoop.cfg` | an error interrupt resets the FIFO inside `kfifo_get`, and bytes are parsed twice (`drv_uart.c:482`, against `:72`) |
| `AlwaysTheHosts` | `BootLinkFaults.cfg` | the tool stalls for longer than the node's block timeout, finds its NACK only later (`worker.py:252-277`), and with a repeated ACK of DATA_START in front of it sends one block twice; the node takes the second for the next block. VERIFY then refuses the firmware |
| `UpgradeEnds` | `BootLinkBeacons.cfg` | a beacon restarts the tool's wait for a block (`worker.py:218`, `252-277`), and a node that fell back to IDLE beacons five times a second (`upgrade_protocol.md:256`): the tool waits for ever |

Seen while modelling, without a configuration:

- Log lines of interrupts are a second producer of a FIFO that
  `srv_log_flash.c:17` describes as single-producer; and a save that fails logs an
  error line, which is a record again (`srv_log_flash.c:247-250`).
- Command service: every byte refreshes the idle timer of a download session
  (`com_task.c:154-172`), so an abandoned session never ends while a host goes on
  polling, and nothing is answered.
- The idle timeout of the parser can never expire: `protocol_parser_feed` resets it
  (`protocol_parser.c:215`) right before every parse, against `com_task.c:14`. A
  fragment can then swallow up to 127 bytes, about 21 requests, which are
  executed late.
- Command 0x06 answers OK even if the session could not be opened.
- E1 master: a trip that no button caused is never acknowledged
  (`app_fault_policy.c:68`; `app_fault_policy_reset` has no caller). It is checked
  as what the code does (`FaultTripIsFinal`); the comment at
  `tasks/power_task.c:41` gives the policy every tenth tick, the constant under it
  every one.

- An erase that fails inside a wipe leaves RAM and flash at odds
  (`ring_storage.c:1061`): the next save reports success and is not found
  (an exception of `SavedWhileSound`).
- Power that fails inside a sector erase of a wipe may leave the newest frame behind
  a blank slot (`ring_storage.c:283` ends the scan there): the next start resumes from
  an older frame in front of it, the next save fills the blank slot with a lower
  version, reports success, and from then on every start loads the old value (the
  other exception of `SavedWhileSound`; three frames to a sector are needed). Found
  by the attempt to prove that only failed erases matter.
- A START queued behind REBOOT is handled before the reset and erases the
  partition just committed (`boot_task.c:371-392`); the tool does not do that.
- With `BOOT_SINGLE_PARTITION` START erases the only firmware (`boot_task.c:284`
  against `boot_protocol_spec.md:20`).
- REBOOT acknowledges even when its metadata save failed (`boot_fsm.c:671`).
- `block_active` survives a failed block write (`boot_fsm.c:559`), so the
  watchdog of the next session answers for a block nobody opened.
- After a lost ACK of the last DATA_END the documented resynchronisation is
  refused with INVALID_STATE (`boot_fsm.c:617`, `upgrade_protocol.md:269`).
- A session that starts and is cancelled within one pass of the callback is not
  noticed by `boot_check_rollback` (`boot_task.c:511`).
- A scan accepts a half-erased frame whose data CRC is wrong
  (`ring_storage.c:298`, against the comment at `:24`); the load then fails
  instead of falling back.
- Versions are compared as signed 32-bit differences (`ring_storage.c:305`); flash
  endurance keeps real ones far below the wrap.
- The block watchdog is 1000 ms in `boot_fsm.h:65-68` and 2000 ms in the protocol
  document.
- In the CTU bootloader, END is acknowledged before the commit is tried
  (`boot_proto.c:172-175`): a tool reports success of a commit whose save failed.
- With flag 2 stored and a torn metadata frame behind it, every start of the CTU
  bootloader promotes, cannot record that, and resets, against `boot_task.c:432`
  (the exception of `Settles`).

## Not modelled

CRC-32, CRC-16 and frame bytes of the upgrade protocols: a frame arrives whole or
not at all, a header is valid or not. Addressing of several RS485 boards and the
number of a board (of learning it, the save of the metadata is modelled). The jump itself, clocks, watchdog, CAN bus-off recovery. In the
components that are modelled: `ring_storage_register` with several keys of
different sizes; the streamed dump and the clearing of the flash log (the commands
that call them are compiled out); `uart` deinit and recovery (no caller at run
time); what each command of the CTU boards reads or sets, beyond the power
requests and resets; the E1 master's unused `request_power_off`.

The components of the table
[above](#components-that-are-not-modelled): GUIs, vendor code, generated code,
HAL, RTT, filters and control algorithms, indication (LEDs, buzzer), ADC
conversion, CAN sampling, the hand controllers, the H7 flash driver, which no
product uses. Most of the lines of the repository are register headers and HAL
sources of the chip vendor, copied into each project; nothing in them is this
program's, and a small share of all lines is what the models can stand for.

### Simplifications inside what is modelled

| definition | the code | why the properties do not need it |
|---|---|---|
| `RingStorage!Visible` | ends a sector's scan at the first word of all ones where it looks for a header (`ring_storage.c:222`, `283`) and steps by the write granularity behind a header without a commit word (`:300`), so that the scan may end inside an unfinished frame; the model steps over it whole | nothing is ever written behind a frame that a save left unfinished. Behind one that a cut erase left half there may be another, which the code then misses for good; in the model the scan misses it when the slot in front is blank (`Reached` is false), which is worse, since the next save can fill that slot and uncover what is behind |
| `BootFsm!Data` and the other handlers | refuse frames that are too short (`boot_fsm.c:312-316`, `406-410`, `436-441`) with a NACK and no change; a short DATA that fills the buffer (`:501-509`) | the first are answered and leave the session as it was; in the second only the last frame of a block is shorter, and that is its DATA_END (`Tailed`). The sequence number, 8 bits wide in the code, is a number: a block has less than 256 frames |
| `BootFsm!WrittenTo` | a unit whose programming was interrupted may hold neither old nor new content | `BootFsm` and `BootLink` have no power failures; `BootLoader` has such units (`Torn`) |
| `CtuBoot!EndRefused` | a transfer that is complete for `boot_proto.c` may be refused by `session_end` (`boot_session.c:149`) | the two counts agree whenever blocks are accepted in order (`SessionIsTheHosts`, proved), so that branch is not reached |
| `CtuBoot!LearnId` | only the first command to a board without a number | it may come again and again in the model, which allows more |
| `CtuCommands!Ask` | a request that the PC writes while an answer is merely delayed in its own buffers does not collide | a collision is the worse case, counted as a fault |
| `CtuCommands!Intact` | compares a CRC | a frame is intact when it consists of the bytes of one request; two halves of requests with equal content are refused here, and a CRC that passes by chance is left out |
| `Rs485Send!Check` | `HAL_UART_Transmit_DMA` may fail (`drv_uart.c:250-252`, `301-304`) | on an idle handle with a buffer it does not |
| `Rs485Send!Depth` | `DRV_UART_TX_QUEUE_DEPTH` is 8 frames of 72 bytes; `msg_fifo_init` rounds 576 bytes down to 512, so 7 fit | proved for every depth |
| `UartReceive!ErrorIsr` | `drv_uart_rx_start` may fail after an error (`drv_uart.c:483`) and reception then stays off | on a stopped handle it does not |

The flash log of `LogFlash` is started by one board only: the call is commented
out in the shared `public_layer/task/log_task.c:128` and made in
`E1_Hand_G474/tasks/app_main.c:43`.

## Plan

1. *Done*: `RingStorage`, `DurableValue`, their invariants and the refinement;
   `BootFsm`, `BootLoader` and `CtuBoot` with their proofs; `BootLink`; the
   three power boards, the command service and its client, timers, serial line and
   flash log, with the proofs of their safety properties.
2. *Proofs next*. A queue as the abstract specification of `UartReceive`
   without errors, refined for every size of the ring; a sharp form of the bound of
   `OwnAnswers`, which counts a beginning as one failure where it can cost only one.
3. *Models next*. The poller of the host SDK over `CtuCommands` (its schedule and
   back-off); a second board on the RS485 line; the efuse machine of
   `G0_hand_ctrl_sample` and the motor bus of `E1_Hand_G474`.
