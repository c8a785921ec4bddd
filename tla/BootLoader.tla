----------------------------- MODULE BootLoader -----------------------------
(***************************************************************************)
(* The bootloader around its upgrade engine: the decision at reset, the    *)
(* promotion of partition B into A (where every application is linked),    *)
(* the polling callback with its reset and rollback timers, the running    *)
(* application that asks for an upgrade, and power failures between and    *)
(* inside all of these.  Sources: public_layer/task/boot_task.c,           *)
(* public_layer/service/boot/boot_flash.c and                              *)
(* E1_Master_Power_Manage/service/srv_boot_ctrl.c.                         *)
(*                                                                         *)
(* Blocks are single units here (NFrames = 1): BootLink shows that a block *)
(* arrives whole and in place, so the host offers the unit of one of its   *)
(* files that belongs at the block the engine expects.  The queue between  *)
(* the CAN interrupt and the callback needs no variable: the callback      *)
(* handles any number of frames before it ends.                            *)
(***************************************************************************)
EXTENDS BootFsm, Sequences

CONSTANTS
    Builds,           \* the builds that are looked at: TRUE for a single partition,
                      \* as on the G474 and G0B1 boards
    Files,            \* firmware images: sequences of units
    Vectors,          \* first units that hold a legal vector table
    Torn,             \* what a unit reads as when its programming was cut
    TornSaves,        \* whether a power failure can cut a metadata save
    RollbackDelay,    \* BOOT_ROLLBACK_DELAY_MS, in callbacks
    IdleRollback      \* BOOT_IDLE_ROLLBACK_MS, in callbacks

ASSUME LoaderAssumption ==
    /\ Builds \subseteq BOOLEAN /\ TornSaves \in BOOLEAN
    /\ NFrames = 1
    /\ \A f \in Files : f \in Seq(Nat) /\ Len(f) \in 1 .. NBlocks
    /\ Torn \in Nat /\ Vectors \subseteq Nat
    /\ RollbackDelay \in Nat /\ IdleRollback \in Nat

(* The recorded size and sum are a file's; a row begins with a file.       *)
Names(m, f) == m.size = Len(f) /\ m.sum = SumFunction(f)
Begins(row, f) == \A u \in 0 .. Len(f) - 1 : row[u] = f[u + 1]

(* What the units of a partition may be: no host sends a unit of a file to *)
(* a place that is another unit's (BootLink).                              *)
UnitsAt(u) == {Blank, Torn} \cup {f[u + 1] : f \in {g \in Files : u < Len(g)}}
RowsOfFiles ==
    {row \in [Units -> UNION {UnitsAt(u) : u \in Units}] :
        \A u \in Units : row[u] \in UnitsAt(u)}

(* The tool announces the sums of its files; the board comes with nothing  *)
(* recorded or with one of them.  And a sum tells the files apart, and     *)
(* from what interrupted operations leave: where additive 32-bit sums      *)
(* collide, the code cannot know.                                          *)
ASSUME FirmwareAssumption ==
    /\ \A m \in Messages : m.cmd = "METADATA" => \E f \in Files : m.sum = SumFunction(f)
    /\ \A p \in Partitions : FirstImage[p] \in RowsOfFiles
    /\ \A m \in FirstMeta :
         m.size > 0 => \E f \in Files : Names(m, f) /\ Begins(FirstImage[m.part], f)
    /\ \A row \in RowsOfFiles, size \in 1 .. NBlocks, f \in Files :
         FirmwareSum(row, size) = SumFunction(f) => size = Len(f) /\ Begins(row, f)

VARIABLES
    single,  \* BOOT_SINGLE_PARTITION: the build does not change
    mode,    \* what the processor runs
    copied,  \* units that the promotion has copied so far
    roll,    \* the statics of boot_check_rollback: [started, armed, age, idleDone]
    sick     \* a torn frame stands where the next metadata save must go

loaderVars == <<vars, single, mode, copied, roll, sick>>

Modes == {"decide", "erase", "copy", "enter", "boot", "app"}
Roll0 == [started |-> FALSE, armed |-> FALSE, age |-> 0, idleDone |-> FALSE]

Engine == <<st, ctx, target, resp>>
Stored0 == <<flash, meta, faults, sick>>

LoaderInit ==
    /\ Init /\ target = "A"
    /\ single \in Builds
    /\ mode = "decide"
    /\ copied = 0
    /\ roll = Roll0
    /\ sick = FALSE

(* Variant for checking the checks: the engine outlives a reset.           *)
RestartWarm ==
    /\ mode' = "decide"
    /\ target' = "A" /\ copied' = 0 /\ roll' = Roll0
    /\ UNCHANGED <<st, ctx, resp>>

(* A reset, wanted or not: everything but the flash is lost.               *)
Restart ==
    /\ mode' = "decide"
    /\ st' = "IDLE" /\ ctx' = Fresh /\ resp' = Silent /\ target' = "A"
    /\ copied' = 0 /\ roll' = Roll0

(* boot_flash_write_metadata on the ring storage; RSTornWrite shows why a  *)
(* torn frame makes every later save fail.                                 *)
Store(new) ==
    /\ IF sick THEN UNCHANGED meta /\ Sound ELSE SaveMeta(new)
    /\ UNCHANGED sick

-----------------------------------------------------------------------------
(* boot_task_try_boot_app                                                  *)

RunPartition == IF single THEN "A" ELSE meta.part

(* Variant: the length of the firmware is enough.                          *)
SumUnchecked(p) == meta.size > 0

SumMatches(p) == meta.size > 0 /\ FirmwareSum(flash[p], meta.size) = meta.sum
VectorsLegal(p) == flash[p][0] \in Vectors

Decide ==
    /\ mode = "decide"
    /\ mode' = IF meta.flag # 0 \/ ~SumMatches(RunPartition) THEN "enter"
               ELSE IF RunPartition = "B" THEN "erase"
               ELSE IF VectorsLegal("A") THEN "app"
               ELSE "enter"
    /\ UNCHANGED <<Engine, Stored0, copied, roll>>

(* Variant: A is not erased first.                                         *)
PromoteUnerased ==
    /\ mode = "erase" /\ mode' = "copy"
    /\ UNCHANGED <<Engine, Stored0, copied, roll>>

(* boot_flash_promote_to_a: the erase of A, the copies, then the record.   *)
PromoteErase ==
    /\ mode = "erase"
    /\ \/ flash' = [flash EXCEPT !["A"] = BlankRow] /\ mode' = "copy" /\ Sound
       \/ flash' \in {flash, [flash EXCEPT !["A"] = BlankRow]} /\ mode' = "enter" /\ Faulty
    /\ UNCHANGED <<Engine, meta, sick, copied, roll>>

Copied == [flash EXCEPT !["A"] = Programmed(@, copied, [f \in Frames |-> flash["B"][copied]])]

PromoteCopy ==
    /\ mode = "copy" /\ copied < meta.size
    /\ \/ flash' = Copied /\ copied' = copied + 1 /\ UNCHANGED mode /\ Sound
       \/ UNCHANGED <<flash, copied>> /\ mode' = "enter" /\ Faulty
    /\ UNCHANGED <<Engine, meta, sick, roll>>

(* The result of the save is ignored.                                      *)
PromoteRecord ==
    /\ mode = "copy" /\ copied = meta.size
    /\ Store([meta EXCEPT !.part = "A"])
    /\ mode' = IF VectorsLegal("A") THEN "app" ELSE "enter"
    /\ UNCHANGED <<Engine, flash, copied, roll>>

(* boot_task_init: with an application recorded, the other partition is    *)
(* the upgrade's.                                                          *)
(* Variant: the recorded partition is the upgrade's.                       *)
SamePartition == meta.part

UpgradePartition ==
    IF single \/ meta.size = 0 \/ meta.part = "B" THEN "A" ELSE "B"

EnterBoot ==
    /\ mode = "enter"
    /\ mode' = "boot"
    /\ target' = UpgradePartition
    /\ copied' = 0
    /\ UNCHANGED <<st, ctx, resp, Stored0, roll>>

-----------------------------------------------------------------------------
(* boot_timer_cb: the frames first, then the tick, the reset that a REBOOT *)
(* asked for, and boot_check_rollback.                                     *)

(* The host knows from the answers which block is next, and its next frame *)
(* comes after the callback that answered the last one.  Only the user's   *)
(* CANCEL may be queued behind another frame.                              *)
Fits(m) ==
    m.cmd = "DATA_END" => \E f \in Files : ctx.block < Len(f) /\ m.unit = f[ctx.block + 1]

Answered == resp.kind \notin {"ACK", "NACK"}
InTurn(m) == m.cmd = "CANCEL" \/ Answered

Receive(m) ==
    /\ mode = "boot" /\ Fits(m) /\ InTurn(m)
    /\ IF sick /\ st = "REBOOT_PENDING" /\ m.cmd = "REBOOT"
       THEN Rebooted(m) /\ UNCHANGED meta /\ Sound
       ELSE ProcessMsg(m)
    /\ UNCHANGED <<mode, copied, roll, sick>>

CallbackResets ==
    /\ mode = "boot" /\ ctx.reset
    /\ Restart
    /\ UNCHANGED Stored0

CallbackInSession ==
    /\ mode = "boot" /\ ~ctx.reset
    /\ Tick /\ st' # "IDLE"
    /\ roll' = [Roll0 EXCEPT !.started = TRUE]
    /\ UNCHANGED <<mode, copied, sick>>

RollbackDue == roll.armed /\ roll.age >= RollbackDelay
IdleDue == ~roll.started /\ ~roll.idleDone /\ roll.age >= IdleRollback

(* boot_partition_is_valid *)
Recoverable ==
    /\ single => meta.part = "A"
    /\ SumMatches(RunPartition) /\ VectorsLegal(RunPartition)

CallbackIdles ==
    /\ mode = "boot" /\ ~ctx.reset
    /\ Tick /\ st' = "IDLE"
    /\ ~RollbackDue
    /\ IdleDue => ~Recoverable
    /\ roll' = IF roll.started /\ ~roll.armed THEN [roll EXCEPT !.armed = TRUE, !.age = 0]
               ELSE IF roll.armed THEN [roll EXCEPT !.age = Older(@, RollbackDelay)]
               ELSE [roll EXCEPT !.age = Older(@, IdleRollback),
                                 !.idleDone = @ \/ IdleDue]
    /\ UNCHANGED <<mode, copied, sick>>

(* Variant: the flag of the upgrade stays set.                             *)
FlagKept == meta

FlagCleared == [meta EXCEPT !.flag = 0]

(* boot_rollback after a session, boot_rollback_to_prev without one: the   *)
(* result of the save is ignored, the reset comes in any case.             *)
CallbackRollsBack ==
    /\ mode = "boot" /\ ~ctx.reset /\ st = "IDLE"
    /\ RollbackDue \/ (IdleDue /\ Recoverable)
    /\ Store(FlagCleared)
    /\ Restart
    /\ UNCHANGED flash

Callback == CallbackResets \/ CallbackInSession \/ CallbackIdles \/ CallbackRollsBack

-----------------------------------------------------------------------------
(* srv_boot_ctrl_request_boot: no reset unless the flag is saved.          *)
AppRequest ==
    /\ mode = "app" /\ ~sick
    /\ SaveMeta([meta EXCEPT !.flag = 1])
    /\ IF meta' = meta THEN UNCHANGED <<mode, copied, roll, Engine>> ELSE Restart
    /\ UNCHANGED <<flash, sick>>

PowerFail ==
    /\ mode # "decide"
    /\ Restart
    /\ UNCHANGED Stored0

(* The supply fails while a partition is erased: any part of it is blank.  *)
Erasing(p) ==
    \/ mode = "erase" /\ p = "A"
    \/ mode = "boot" /\ st = "IDLE" /\ p = target /\ Answered

PowerFailErase ==
    /\ \E p \in Partitions, S \in SUBSET Units :
        /\ Erasing(p)
        /\ flash' = [flash EXCEPT ![p] = [u \in Units |-> IF u \in S THEN Blank ELSE @[u]]]
    /\ Restart
    /\ UNCHANGED <<meta, faults, sick>>

(* The supply fails while a unit is programmed.                            *)
Programming(p, u) ==
    \/ mode = "copy" /\ p = "A" /\ u = copied
    \/ mode = "boot" /\ st = "DATA_TRANSFER" /\ p = target /\ u = ctx.block

PowerFailProgram ==
    /\ \E p \in Partitions, u \in Units :
        /\ Programming(p, u) /\ flash[p][u] = Blank
        /\ flash' = [flash EXCEPT ![p][u] = Torn]
    /\ Restart
    /\ UNCHANGED <<meta, faults, sick>>

(* The supply fails while boot_flash_init saves the count of starts.       *)
PowerFailSave ==
    /\ TornSaves /\ mode = "decide"
    /\ sick' = TRUE
    /\ UNCHANGED <<vars, mode, copied, roll>>

SystemNext ==
    /\ UNCHANGED single
    /\ Decide \/ PromoteErase \/ PromoteCopy \/ PromoteRecord \/ EnterBoot \/ Callback

LoaderNext ==
    \/ SystemNext
    \/ /\ UNCHANGED single
       /\ \/ \E m \in Messages : Receive(m)
          \/ AppRequest
          \/ PowerFail \/ PowerFailErase \/ PowerFailProgram \/ PowerFailSave

(* Startup code runs to its end and the polling timer fires.               *)
LoaderSpec ==
    LoaderInit /\ [][LoaderNext]_loaderVars /\ WF_loaderVars(SystemNext)

-----------------------------------------------------------------------------
LoaderTypeOK ==
    /\ TypeOK
    /\ mode \in Modes
    /\ copied \in 0 .. NBlocks
    /\ roll \in [started : BOOLEAN, armed : BOOLEAN,
                 age : 0 .. RollbackDelay + IdleRollback + 1, idleDone : BOOLEAN]
    /\ {sick, single} \subseteq BOOLEAN
    /\ mode # "boot" => st = "IDLE"

Holds(p, f) == Names(meta, f) /\ Begins(flash[p], f)

(* What runs is one of the firmware files, whole, and the one that the     *)
(* metadata names: no order of sessions, cancels, timeouts, flash failures *)
(* and power failures leads to the jump into half a firmware.              *)
RunsWhatIsRecorded == mode = "app" => \E f \in Files : Holds("A", f)

(* upgrade_protocol.md:21, boot_protocol_spec.md:20: the partition that    *)
(* the metadata names stays whole until another one is committed.  (The    *)
(* single-partition build overwrites what it runs and does not promise it.)*)
CommittedIntact == ~single /\ meta.size > 0 => \E f \in Files : Holds(meta.part, f)

(* upgrade_protocol.md:257: a board whose recorded firmware is whole comes *)
(* back to it, once the host is silent and the supply holds.  A torn       *)
(* metadata save is excepted: boot_rollback cannot clear the flag any more *)
(* and ignores that, so the board restarts into the bootloader for ever.   *)
AppReturns ==
    <>[][SystemNext]_loaderVars /\ <>[](Recoverable /\ ~sick) => []<>(mode = "app")
=============================================================================
