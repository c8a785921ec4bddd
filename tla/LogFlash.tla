------------------------------ MODULE LogFlash ------------------------------
(***************************************************************************)
(* The flash log of E1_Hand_G474 (srv_log_flash.c over kfifo.c): a warning *)
(* or an error becomes a record of fixed length, is put into a FIFO of     *)
(* bytes, and the main loop saves the record at its head as one value of   *)
(* ring_storage, with a pause between two saves.                           *)
(*                                                                         *)
(* The main loop logs and interrupts log (log.c, drv_uart.c), and the FIFO *)
(* has no lock.  What ring_storage does is RingStorage; here a save        *)
(* succeeds or fails, and one that fails is logged too.  A record is       *)
(* RecordSize units, a unit the number of its line and its place in it.    *)
(* The indices of the FIFO do not wrap here (UartReceive has the wrap).    *)
(***************************************************************************)
EXTENDS Naturals, Sequences

CONSTANTS
    QueueSize,    \* SRV_LOG_FLASH_PENDING_BUFFER_SIZE
    RecordSize,   \* SRV_LOG_FLASH_RECORD_SIZE
    MaxLines      \* lines logged in a behaviour

ASSUME LogAssumption ==
    /\ RecordSize \in Nat \ {0} /\ MaxLines \in Nat
    /\ QueueSize \in Nat /\ QueueSize >= RecordSize

VARIABLES
    pendingBuf,            \* s_pending_buf
    pendingIn, pendingOut, \* the indices of s_pending
    lines,                 \* lines logged so far
    doing,                 \* the main loop: "idle", "put" inside kfifo_put, "save"
    put,                   \* what its kfifo_put has copied: the length and "in" before
    record,                \* s_record
    due,                   \* SRV_LOG_FLASH_FLUSH_MIN_MS have passed since the last save
    logged,                \* lines that were queued in full, in order
    saved,                 \* records saved, in order
    short,                 \* a record was queued in part
    nested                 \* an interrupt has logged inside the main loop's kfifo_put

pending == <<pendingBuf, pendingIn, pendingOut>>
log == <<logged, short, nested>>
logVars == <<pending, lines, doing, put, record, due, log, saved>>

NoPut == [len |-> 0, from |-> 0]
(* A place of the queue that was never written.                            *)
Blank == <<0, 0>>
Record(n) == [i \in 1 .. RecordSize |-> <<n, i>>]
Unit(k) == pendingBuf[k % QueueSize]
(* The FIFO's content, and its record at the head.                         *)
Waiting == pendingIn - pendingOut
Content(len) == [i \in 1 .. len |-> Unit(pendingOut + i - 1)]

LogInit ==
    /\ pendingBuf = [k \in 0 .. QueueSize - 1 |-> Blank]
    /\ pendingIn = 0 /\ pendingOut = 0
    /\ lines = 0 /\ doing = "idle" /\ put = NoPut /\ record = <<>> /\ due = TRUE
    /\ logged = <<>> /\ short = FALSE /\ nested = FALSE /\ saved = <<>>

-----------------------------------------------------------------------------
(* Variant: the room is not looked at.                                     *)
AllFits == RecordSize
(* kfifo_put: how much of a record goes in.  More than the queue can hold  *)
(* leaves room without end: the difference is unsigned.                    *)
Fitting ==
    IF Waiting > QueueSize \/ Waiting + RecordSize <= QueueSize THEN RecordSize
    ELSE QueueSize - Waiting

(* srv_log_flash_sink: the copy that kfifo_put makes of a new line.        *)
Offset(k) == 1 + ((k + QueueSize - (pendingIn % QueueSize)) % QueueSize)
Copy(len) ==
    /\ lines < MaxLines /\ lines' = lines + 1
    /\ pendingBuf' = [k \in DOMAIN pendingBuf |->
         IF Offset(k) <= len THEN <<lines', Offset(k)>> ELSE pendingBuf[k]]
Queued(len) ==
    /\ logged' = IF len = RecordSize THEN Append(logged, lines') ELSE logged
    /\ short' = (short \/ len \in 1 .. RecordSize - 1)

(* A line of the main loop: it is copied, then "in" is moved.              *)
PutBegin ==
    /\ doing' = "put" /\ put' = [len |-> Fitting, from |-> pendingIn]
    /\ Copy(Fitting) /\ Queued(Fitting)
    /\ UNCHANGED <<pendingIn, pendingOut, nested, saved>>
Line == doing = "idle" /\ PutBegin /\ UNCHANGED <<record, due>>
(* fifo->in += len, which an interrupt may come into.                      *)
PutEnd ==
    /\ doing = "put" /\ doing' = "idle" /\ put' = NoPut
    /\ pendingIn' \in {pendingIn + put.len, put.from + put.len}
    /\ UNCHANGED <<pendingBuf, pendingOut, lines, record, due, log, saved>>

(* A line of an interrupt, drv_uart_error_cb for one, at any point.        *)
LineInterrupt ==
    /\ Copy(Fitting) /\ Queued(Fitting) /\ pendingIn' = pendingIn + Fitting
    /\ nested' = (nested \/ doing = "put")
    /\ UNCHANGED <<pendingOut, doing, put, record, due, saved>>

-----------------------------------------------------------------------------
(* Variant: an empty queue or a full one, nothing between.                 *)
PeekFull == Waiting >= QueueSize
(* A whole record is there.                                                *)
PeekWhole == Waiting >= RecordSize
(* srv_log_flash_step, up to the save: the head is copied and stays.       *)
Step ==
    /\ doing = "idle" /\ due /\ PeekWhole
    /\ doing' = "save" /\ record' = Content(RecordSize)
    /\ UNCHANGED <<pending, lines, put, due, log, saved>>

(* The save succeeds: the head is taken out.                               *)
SaveOk ==
    /\ doing = "save" /\ doing' = "idle"
    /\ saved' = Append(saved, record) /\ due' = FALSE
    /\ pendingOut' = pendingOut + RecordSize
    /\ UNCHANGED <<pendingBuf, pendingIn, lines, put, record, log>>
(* Variant: a record that cannot be saved is dropped.                      *)
SaveDrops ==
    /\ doing = "save" /\ doing' = "idle" /\ pendingOut' = pendingOut + RecordSize
    /\ UNCHANGED <<pendingBuf, pendingIn, lines, put, record, due, log, saved>>
(* The save fails: the head stays, and the main loop logs an error line.   *)
SaveFails == doing = "save" /\ PutBegin /\ UNCHANGED <<record, due>>

(* The pause between two saves ends.                                       *)
Elapse ==
    /\ ~due /\ due' = TRUE
    /\ UNCHANGED <<pending, lines, doing, put, record, log, saved>>

LogLoop == PutEnd \/ Step \/ SaveOk \/ SaveFails
LogNext == Line \/ LineInterrupt \/ LogLoop \/ Elapse
(* The main loop runs on, and time passes.                                 *)
LogFairness == WF_logVars(LogLoop) /\ WF_logVars(Elapse)
LogSpec == LogInit /\ [][LogNext]_logVars /\ LogFairness

-----------------------------------------------------------------------------
(* Type invariant of the flash log.                                        *)
LogTypeOK ==
    /\ DOMAIN pendingBuf = 0 .. QueueSize - 1
    /\ {Unit(k) : k \in DOMAIN pendingBuf}
         \subseteq {Blank} \cup ((1 .. lines) \X (1 .. RecordSize))
    /\ {pendingIn, pendingOut} \subseteq Nat /\ pendingOut <= pendingIn
    /\ lines \in 0 .. MaxLines
    /\ doing \in {"idle", "put", "save"} /\ due \in BOOLEAN
    /\ {short, nested} \subseteq BOOLEAN

(* What the main loop's kfifo_put has accepted, and not yet shown.         *)
Shown ==
    SubSeq(logged, 1,
           Len(logged) - IF doing = "put" /\ put.len = RecordSize THEN 1 ELSE 0)
UnitOf(k) == <<Shown[1 + (k \div RecordSize)], 1 + (k % RecordSize)>>

(* The log in flash and the queue together are the accepted lines, whole,  *)
(* each once and in order, whatever saves failed and were tried again,     *)
(* until a record is queued in part or an interrupt logs inside kfifo_put. *)
LogKept ==
    ~short /\ ~nested =>
        /\ Len(saved) <= Len(Shown)
        /\ \A n \in DOMAIN saved : saved[n] = Record(Shown[n])
        /\ pendingIn = RecordSize * Len(Shown)
        /\ pendingOut = RecordSize * Len(saved)
        /\ \A k \in pendingOut .. pendingIn - 1 : Unit(k) = UnitOf(k)

(* A full queue drops the new line and keeps what it holds                 *)
(* (srv_log_flash.c:476, srv_log_flash.h:108): every record that is saved  *)
(* is one of the lines, as long as no interrupt logs inside kfifo_put.     *)
FullQueueDropsNew ==
    ~nested => \A n \in DOMAIN saved : \E k \in 1 .. lines : saved[n] = Record(k)

(* The queue is emptied down to less than a record, again and again.       *)
LogDrains == []<>(Waiting < RecordSize)
=============================================================================
