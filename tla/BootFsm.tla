------------------------------ MODULE BootFsm ------------------------------
(***************************************************************************)
(* The CAN bootloader's upgrade engine: the five-state machine of          *)
(* public_layer/service/boot/boot_fsm.c with the flash callbacks that      *)
(* public_layer/task/boot_task.c plugs into it.                            *)
(*                                                                         *)
(* One message of the host is one action (boot_fsm_process_msg), and so is *)
(* one call of boot_fsm_tick.  The host here sends any member of Messages  *)
(* at any moment; BootLink.tla puts the real host and a bus in its place,  *)
(* BootLoader.tla the reset, boot decision and rollback around it.         *)
(*                                                                         *)
(* Data: a DATA frame's payload is one unit, a natural number that stands  *)
(* for the sum of its bytes; a block is NFrames units, the last of which   *)
(* travels in DATA_END (1024 = 170 * 6 + 4 bytes: the tail unit is shorter *)
(* than the others, so no DATA frame fits in its place).  A partition is a *)
(* row of units.  Time: one Tick is a step of the main loop; the two time  *)
(* outs keep their order (block watchdog before session).                  *)
(***************************************************************************)
EXTENDS Naturals, FiniteSets, Functions

CONSTANTS
    NBlocks,         \* blocks of a partition
    NFrames,         \* units of a block
    BlockMod,        \* the block checksum is kept modulo this (uint16_t)
    Blank,           \* what an erased unit reads as
    BlockTimeout,    \* BOOT_BLOCK_TIMEOUT_MS, in ticks
    SessionTimeout,  \* BOOT_FSM_TIMEOUT_MS, in ticks
    Messages,        \* the frames the host may send
    FirstMeta,       \* metadata the bootloader may find at start
    FirstImage,      \* what the partitions hold at start: [Partitions -> rows]
    MaxFaults        \* bound: flash operations that may fail

Partitions == {"A", "B"}
Units == 0 .. NBlocks * NFrames - 1
Frames == 0 .. NFrames - 1
Rows == [Units -> Nat]
States == {"IDLE", "START", "DATA_TRANSFER", "VERIFY_PENDING", "REBOOT_PENDING"}

Contexts ==
    [size : Nat, sum : Nat, seq : Nat, block : 0 .. NBlocks,
     acc : 0 .. NFrames, buf : [Frames -> Nat], active : BOOLEAN,
     blockAge : 0 .. BlockTimeout + 1, idleAge : 0 .. SessionTimeout + 1,
     reset : BOOLEAN]

Metas == [part : Partitions, flag : {0, 1}, size : Nat, sum : Nat]

(* Every command of the host, parsed.  A START whose format or hardware id *)
(* is wrong has fits = FALSE; frame8 says that it asks for 8-byte frames.  *)
Wire ==
    [cmd : {"START"}, size : Nat, fits : BOOLEAN, frame8 : BOOLEAN]
        \cup [cmd : {"METADATA"}, sum : Nat]
        \cup [cmd : {"DATA_START"}, block : Nat]
        \cup [cmd : {"DATA"}, seq : Nat, unit : Nat]
        \cup [cmd : {"DATA_END"}, sum : Nat, unit : Nat]
        \cup [cmd : {"VERIFY", "REBOOT", "CANCEL"}]

ASSUME SizesAssumption ==
    /\ NBlocks \in Nat \ {0} /\ NFrames \in Nat \ {0}
    /\ BlockMod \in Nat \ {0} /\ Blank \in Nat
    /\ BlockTimeout \in Nat /\ SessionTimeout \in Nat
    /\ MaxFaults \in Nat
ASSUME InputsAssumption ==
    /\ Messages \subseteq Wire
    /\ FirstMeta \subseteq Metas
    /\ FirstImage \in [Partitions -> Rows]

VARIABLES
    st,       \* the state machine's state
    ctx,      \* boot_fsm_context_t
    target,   \* s_target_partition, fixed when the bootloader starts
    flash,    \* the two application partitions
    meta,     \* the metadata record in its ring storage
    resp,     \* the response the step produced, or Silent
    faults    \* flash operations that failed so far

vars == <<st, ctx, target, flash, meta, resp, faults>>

-----------------------------------------------------------------------------

Silent == [kind |-> "none"]
Beacon == [kind |-> "BEACON"]
Ack(c) == [kind |-> "ACK", cmd |-> c]
AckAt(c, i) == [kind |-> "ACK", cmd |-> c, block |-> i]
Nack(c, e) == [kind |-> "NACK", cmd |-> c, code |-> e]
NackAt(c, e, i) == [kind |-> "NACK", cmd |-> c, code |-> e, block |-> i]

NoData == [f \in Frames |-> 0]
BlankRow == [u \in Units |-> Blank]

(* total_received is always block * BLOCK_SIZE: they advance and reset     *)
(* together.                                                               *)
Received(c) == c.block * NFrames

BlockSum(buf) == SumFunction(buf) % BlockMod
FirmwareSum(row, size) == SumFunctionOnSet(row, Units \cap 0 .. size - 1)

(* Programming can only finish what an erase left blank.                   *)
UnitsOf(b) == {u \in Units : u \div NFrames = b}
Programmed(row, b, buf) ==
    [u \in Units |->
        IF u \in UnitsOf(b) /\ row[u] = Blank THEN buf[u % NFrames] ELSE row[u]]
Matches(row, b, buf) == \A u \in UnitsOf(b) : row[u] = buf[u % NFrames]

Faulty == faults < MaxFaults /\ faults' = faults + 1
Sound == UNCHANGED faults

Reset0(c) == [c EXCEPT !.acc = 0, !.seq = 0, !.block = 0, !.buf = NoData]
Fresh ==
    [size |-> 0, sum |-> 0, seq |-> 0, block |-> 0, acc |-> 0, buf |-> NoData,
     active |-> FALSE, blockAge |-> 0, idleAge |-> 0, reset |-> FALSE]

Init ==
    /\ st = "IDLE"
    /\ ctx = Fresh
    /\ meta \in FirstMeta
    /\ target \in Partitions
    /\ flash = FirstImage
    /\ resp = Silent
    /\ faults = 0

-----------------------------------------------------------------------------
(* boot_fsm_process_msg: c is the context with its activity time refreshed *)

Heard == [ctx EXCEPT !.idleAge = 0]
Keep == UNCHANGED <<target, flash, meta>> /\ Sound
(* The handler answers r, stays in or moves to s, and leaves context c.    *)
Answer(s, c, r) == st' = s /\ ctx' = c /\ resp' = r

Cancel(m) ==
    /\ m.cmd = "CANCEL"
    /\ Answer("IDLE", [Reset0(Heard) EXCEPT !.active = FALSE], Ack("CANCEL"))
    /\ Keep

(* handler_idle *)
IdleIgnore(m) ==
    /\ st = "IDLE" /\ m.cmd \notin {"START", "CANCEL"}
    /\ Answer("IDLE", Heard, Silent)
    /\ Keep

StartError(m) ==
    CASE ~m.frame8 -> "FRAME_SIZE"
      [] m.frame8 /\ ~m.fits -> "HW_MISMATCH"
      [] m.frame8 /\ m.fits /\ m.size = 0 -> "INVALID_FRAME"
      [] OTHER -> "FW_TOO_BIG"
Offer(m) == m.fits /\ m.size > 0 /\ m.size <= NBlocks * NFrames

IdleReject(m) ==
    /\ st = "IDLE" /\ m.cmd = "START"
    /\ ~(m.frame8 /\ Offer(m))
    /\ Answer("IDLE", Heard, Nack("START", StartError(m)))
    /\ Keep

Negotiated(m) == [Reset0(Heard) EXCEPT !.size = m.size]

IdleStart(m) ==
    /\ st = "IDLE" /\ m.cmd = "START" /\ m.frame8 /\ Offer(m)
    /\ flash' = [flash EXCEPT ![target] = BlankRow]
    /\ Answer("START", Negotiated(m), Ack("START"))
    /\ UNCHANGED <<target, meta>> /\ Sound

(* An erase that fails has wiped the partition up to some page.            *)
WipedTo(n) == [u \in Units |-> IF u < n THEN Blank ELSE flash[target][u]]
IdleEraseFails(m) ==
    /\ st = "IDLE" /\ m.cmd = "START" /\ m.frame8 /\ Offer(m)
    /\ \E n \in 0 .. NBlocks * NFrames : flash' = [flash EXCEPT ![target] = WipedTo(n)]
    /\ Answer("IDLE", Negotiated(m), Nack("START", "FLASH_ERASE_ERR"))
    /\ UNCHANGED <<target, meta>> /\ Faulty

(* Variant: a session can be renegotiated at any time.                     *)
RenegotiateAnytime(m) ==
    /\ st # "IDLE" /\ m.cmd = "START" /\ Offer(m)
    /\ Answer(st, [Heard EXCEPT !.size = m.size], Ack("START"))
    /\ Keep

(* handler_start: a second START renegotiates without another erase.       *)
StartAgain(m) ==
    /\ st = "START" /\ m.cmd = "START"
    /\ IF Offer(m) THEN Answer("START", Negotiated(m), Ack("START"))
                   ELSE Answer("START", Heard, Silent)
    /\ Keep

StartUnexpected(m) ==
    /\ st = "START" /\ m.cmd \notin {"START", "METADATA", "CANCEL"}
    /\ Answer("START", Heard, Nack(m.cmd, "INVALID_STATE"))
    /\ Keep

Metadata(m) ==
    /\ st = "START" /\ m.cmd = "METADATA"
    /\ Answer("DATA_TRANSFER", [Heard EXCEPT !.sum = m.sum], Ack("METADATA"))
    /\ Keep

-----------------------------------------------------------------------------
(* handler_data_transfer *)

DataStart(m) ==
    /\ st = "DATA_TRANSFER" /\ m.cmd = "DATA_START"
    /\ m.block = ctx.block
    /\ Answer(st, [Heard EXCEPT !.acc = 0, !.seq = 0, !.buf = NoData,
                                !.active = TRUE, !.blockAge = 0],
              AckAt("DATA_START", ctx.block))
    /\ Keep

DataStartElsewhere(m) ==
    /\ st = "DATA_TRANSFER" /\ m.cmd = "DATA_START"
    /\ m.block # ctx.block
    /\ Answer(st, Heard, NackAt("DATA_START", "BLOCK_INDEX_MISMATCH", ctx.block))
    /\ Keep

(* Variant for checking the checks: any order of the frames will do.       *)
AnyOrder(m) == TRUE

InOrder(m) == m.seq = ctx.seq

(* A frame out of sequence drops the block's data and its watchdog, but    *)
(* leaves the expected sequence number as it is.                           *)
DataOutOfOrder(m) ==
    /\ st = "DATA_TRANSFER" /\ m.cmd = "DATA"
    /\ ~InOrder(m)
    /\ Answer(st, [Heard EXCEPT !.acc = 0, !.active = FALSE],
              NackAt("DATA", "INVALID_FRAME", ctx.block))
    /\ Keep

(* A frame in sequence is stored if it fits, counted whether it fits or    *)
(* not.  It never fills the buffer (lines 502-509 need a shorter frame).   *)
(* Variant: the space test is missing.                                     *)
StoredUnchecked(c, u) == [c EXCEPT !.buf = [@ EXCEPT ![c.acc] = u], !.acc = @ + 1]

Stored(c, u) ==
    IF c.acc < NFrames - 1
    THEN [c EXCEPT !.buf = [@ EXCEPT ![c.acc] = u], !.acc = @ + 1]
    ELSE c

Data(m) ==
    /\ st = "DATA_TRANSFER" /\ m.cmd = "DATA"
    /\ InOrder(m)
    /\ Answer(st, [Stored(Heard, m.unit) EXCEPT !.seq = @ + 1,
                                                !.active = TRUE, !.blockAge = 0],
              Silent)
    /\ Keep

(* DATA_END: the tail goes where the accumulated data stops, and the sum   *)
(* is taken over the whole buffer.                                         *)
Filled(m) == [ctx.buf EXCEPT ![ctx.acc] = m.unit]
Tailed(m) == [Heard EXCEPT !.buf = Filled(m), !.acc = @ + 1]
BlockEnds(m) == st = "DATA_TRANSFER" /\ m.cmd = "DATA_END"
SumHolds(m) == BlockSum(Filled(m)) = m.sum

BlockBad(m) ==
    /\ BlockEnds(m) /\ ~SumHolds(m)
    /\ Answer(st, [Tailed(m) EXCEPT !.acc = 0], Nack("DATA_END", "BLOCK_CHECKSUM"))
    /\ Keep

Written(m) == Programmed(flash[target], ctx.block, Filled(m))

(* A write that fails has programmed the block up to some unit.            *)
WrittenTo(m, n) ==
    [u \in Units |-> IF u % NFrames < n THEN Written(m)[u] ELSE flash[target][u]]

(* Variant: the engine stays in the session for another try.               *)
BlockWriteRetries(m) ==
    /\ BlockEnds(m) /\ SumHolds(m)
    /\ \E n \in 0 .. NFrames : flash' = [flash EXCEPT ![target] = WrittenTo(m, n)]
    /\ Answer(st, [Heard EXCEPT !.acc = 0], Nack("DATA_END", "FLASH_WRITE_ERR"))
    /\ UNCHANGED <<target, meta>> /\ Faulty

BlockWriteFails(m) ==
    /\ BlockEnds(m) /\ SumHolds(m)
    /\ \E n \in 0 .. NFrames : flash' = [flash EXCEPT ![target] = WrittenTo(m, n)]
    /\ Answer("IDLE", Tailed(m), Nack("DATA_END", "FLASH_WRITE_ERR"))
    /\ UNCHANGED <<target, meta>> /\ Faulty

(* The read-back differs: the units were not blank, or the flash is faulty *)
(* (it then kept what it held before).                                     *)
Lands(m) == Matches(Written(m), ctx.block, Filled(m))

BlockMismatch(m) ==
    /\ BlockEnds(m) /\ SumHolds(m)
    /\ flash' = IF Lands(m) THEN flash ELSE [flash EXCEPT ![target] = Written(m)]
    /\ Answer("IDLE", Tailed(m), Nack("DATA_END", "FLASH_VERIFY_ERR"))
    /\ UNCHANGED <<target, meta>>
    /\ IF Lands(m) THEN Faulty ELSE Sound

NextBlock ==
    [Heard EXCEPT !.block = @ + 1, !.acc = 0, !.seq = 0,
                  !.active = FALSE, !.buf = NoData]

BlockCommit(m) ==
    /\ BlockEnds(m) /\ SumHolds(m)
    /\ Lands(m)
    /\ flash' = [flash EXCEPT ![target] = Written(m)]
    /\ Answer(IF Received(NextBlock) >= ctx.size THEN "VERIFY_PENDING" ELSE st,
              NextBlock, Ack("DATA_END"))
    /\ UNCHANGED <<target, meta>> /\ Sound

DataUnexpected(m) ==
    /\ st = "DATA_TRANSFER"
    /\ m.cmd \in {"START", "METADATA", "VERIFY", "REBOOT"}
    /\ Answer(st, Heard, Nack(m.cmd, "INVALID_STATE"))
    /\ Keep

-----------------------------------------------------------------------------
(* handler_verify_pending, handler_reboot_pending *)

FlashSum(c) == FirmwareSum(flash[target], c.size)

VerifyUnexpected(m) ==
    /\ st = "VERIFY_PENDING" /\ m.cmd \notin {"VERIFY", "CANCEL"}
    /\ Answer(st, Heard, Nack(m.cmd, "INVALID_STATE"))
    /\ Keep

VerifyPass(m) ==
    /\ st = "VERIFY_PENDING" /\ m.cmd = "VERIFY"
    /\ FlashSum(ctx) = ctx.sum
    /\ Answer("REBOOT_PENDING", Heard, Ack("VERIFY"))
    /\ Keep

VerifyFail(m) ==
    /\ st = "VERIFY_PENDING" /\ m.cmd = "VERIFY"
    /\ FlashSum(ctx) # ctx.sum
    /\ Answer("IDLE", Heard, Nack("VERIFY", "CHECKSUM_ERR"))
    /\ Keep

RebootUnexpected(m) ==
    /\ st = "REBOOT_PENDING" /\ m.cmd \notin {"REBOOT", "CANCEL"}
    /\ Answer(st, Heard, Nack(m.cmd, "INVALID_STATE"))
    /\ Keep

(* boot_flash_write_metadata: the record is replaced, or the save fails.   *)
SaveMeta(new) ==
    \/ meta' = new /\ Sound
    \/ UNCHANGED meta /\ Faulty

(* Variant: the new firmware is recorded for the old partition.            *)
OldPartition == [part |-> meta.part, flag |-> 0, size |-> ctx.size, sum |-> ctx.sum]

NewMeta == [part |-> target, flag |-> 0, size |-> ctx.size, sum |-> ctx.sum]

Rebooted(m) ==
    /\ st = "REBOOT_PENDING" /\ m.cmd = "REBOOT"
    /\ Answer("IDLE", [Heard EXCEPT !.reset = TRUE], Ack("REBOOT"))
    /\ UNCHANGED <<target, flash>>

(* The result of set_flag_cb is ignored: a save that fails is acknowledged *)
(* and reset all the same.                                                 *)
Reboot(m) == Rebooted(m) /\ SaveMeta(NewMeta)

ProcessMsg(m) ==
    \/ Cancel(m)
    \/ IdleIgnore(m) \/ IdleReject(m) \/ IdleStart(m) \/ IdleEraseFails(m)
    \/ StartAgain(m) \/ StartUnexpected(m) \/ Metadata(m)
    \/ DataStart(m) \/ DataStartElsewhere(m) \/ Data(m) \/ DataOutOfOrder(m)
    \/ BlockBad(m) \/ BlockWriteFails(m) \/ BlockMismatch(m) \/ BlockCommit(m)
    \/ DataUnexpected(m)
    \/ VerifyUnexpected(m) \/ VerifyPass(m) \/ VerifyFail(m)
    \/ RebootUnexpected(m) \/ Reboot(m)

-----------------------------------------------------------------------------
(* boot_fsm_tick.                                                          *)

(* The ages grow up to the value that the comparisons still tell apart.    *)
Older(age, limit) == IF age > limit THEN age ELSE age + 1

(* Variant: the session ages only while a block is open.                   *)
AgedWithBlock ==
    IF ctx.active THEN [ctx EXCEPT !.blockAge = Older(@, BlockTimeout),
                                   !.idleAge = Older(@, SessionTimeout)]
                  ELSE ctx

Aged == [ctx EXCEPT !.blockAge = IF ctx.active THEN Older(@, BlockTimeout) ELSE @,
                    !.idleAge = Older(@, SessionTimeout)]

(* An idle machine refreshes its activity and sends a beacon every         *)
(* BOOT_BEACON_PERIOD_MS; the period itself is left out.                   *)
TickIdle ==
    /\ st = "IDLE"
    /\ \E r \in {Silent, Beacon} : Answer("IDLE", [Aged EXCEPT !.idleAge = 0], r)
    /\ Keep

BlockLate == st = "DATA_TRANSFER" /\ ctx.active /\ Aged.blockAge > BlockTimeout
Dropped(c) == [c EXCEPT !.acc = 0, !.seq = 0, !.active = FALSE]

TickBusy ==
    /\ st # "IDLE"
    /\ LET c == IF BlockLate THEN Dropped(Aged) ELSE Aged
           r == IF BlockLate THEN NackAt("DATA_END", "TIMEOUT", ctx.block) ELSE Silent
       IN  IF Aged.idleAge > SessionTimeout
           THEN Answer("IDLE", [c EXCEPT !.idleAge = 0], r)
           ELSE Answer(st, c, r)
    /\ Keep

Tick == TickIdle \/ TickBusy

Next == (\E m \in Messages : ProcessMsg(m)) \/ Tick

(* The timer callback runs whatever the host does.                         *)
Spec == Init /\ [][Next]_vars /\ WF_vars(TickBusy)

-----------------------------------------------------------------------------
TypeOK ==
    /\ st \in States
    /\ ctx \in Contexts
    /\ target \in Partitions
    /\ flash \in [Partitions -> Rows]
    /\ meta \in Metas
    /\ resp.kind \in {"none", "BEACON", "ACK", "NACK"}
    /\ faults \in 0 .. MaxFaults

(* While a session receives blocks, everything from the next block on is   *)
(* blank: no order of START, CANCEL, timeouts, retries and failed writes   *)
(* leads to a block being programmed over old data.  An erase happens only *)
(* in handler_idle; a repeated START renegotiates without one.             *)
AheadBlank ==
    st \in {"START", "DATA_TRANSFER"} =>
        \A u \in Units : u >= Received(ctx) => flash[target][u] = Blank

(* What a session has settled by the time it is in each of its states.     *)
SessionSettled ==
    /\ st \in {"START", "DATA_TRANSFER"} => ctx.acc < NFrames
    /\ st = "START" => ctx.block = 0
    /\ st # "IDLE" => ctx.size \in 1 .. NBlocks * NFrames
    /\ st \in {"START", "DATA_TRANSFER"} => Received(ctx) < ctx.size
    /\ st \in {"VERIFY_PENDING", "REBOOT_PENDING"} => ctx.size <= Received(ctx)
    /\ st = "REBOOT_PENDING" => FlashSum(ctx) = ctx.sum

FsmInv == TypeOK /\ AheadBlank /\ SessionSettled

(* The metadata changes only to name a partition whose contents have the   *)
(* size and the sum it records, whatever the host sent between VERIFY and  *)
(* REBOOT and before them.                                                 *)
CommitVerified ==
    [][meta' # meta =>
        /\ FirmwareSum(flash'[meta'.part], meta'.size) = meta'.sum
        /\ meta'.size \in 1 .. NBlocks * NFrames
        /\ meta'.size <= Received(ctx)]_vars

(* A session whose host falls silent ends: block watchdog or not, the      *)
(* machine is back in IDLE, where the rollback countdown can run.          *)
SilenceEndsSession == <>[][Tick]_vars => []<>(st = "IDLE")
=============================================================================
