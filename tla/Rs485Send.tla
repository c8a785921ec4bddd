----------------------------- MODULE Rs485Send -----------------------------
(***************************************************************************)
(* Sending on the half-duplex RS485 bus of the CTU boards (dev_rs485.c     *)
(* over drv_uart.c): the main loop sends and flushes, the interrupt at the *)
(* end of a transfer releases the direction pin DE.  They share DE,        *)
(* tx_busy, the state of the HAL handle and the queue, and nothing locks.  *)
(*                                                                         *)
(* The board answers requests that it has received: while DE is high the   *)
(* transceiver receives nothing.  A frame is a number; the settle delays   *)
(* and the wait for the last bit are left out; starting a transfer on an   *)
(* idle handle does not fail.                                              *)
(***************************************************************************)
EXTENDS Naturals, Sequences

CONSTANTS
    MaxFrames,   \* requests in a behaviour
    Depth,       \* frames in the queue: DRV_UART_TX_QUEUE_DEPTH of 72 bytes are
                 \* asked for (8), msg_fifo_init rounds down to 512 bytes (7)
    SlowIsr      \* another interrupt can outlast a whole transfer

ASSUME SendAssumption ==
    MaxFrames \in Nat \ {0} /\ Depth \in Nat \ {0} /\ SlowIsr \in BOOLEAN

Frames == 1 .. MaxFrames
None == 0
Places == {"loop", "check", "push", "mark", "flush", "markFlush", "recheck"}

VARIABLES
    at,        \* where the main loop is
    heard,     \* requests received
    made,      \* answers made: the number of the last one
    de,        \* the direction pin
    busy,      \* tx_busy
    dma,       \* the frame being transferred (the handle is not READY), or None
    buffer,    \* the frame in tx_dma_buf
    queue,     \* tx_fifo
    accepted,  \* frames for which dev_rs485_send says OK, in order
    started,   \* frames given to the DMA, in order
    cut,       \* frames whose transfer began with DE low
    joined     \* frames whose send found an earlier transfer under way

uart == <<de, busy, dma, buffer, queue>>
history == <<accepted, started, cut, joined>>
sendVars == <<at, heard, made, uart, history>>

SendInit ==
    /\ at = "loop" /\ heard = 0 /\ made = 0
    /\ de = FALSE /\ busy = FALSE /\ dma = None /\ buffer = None /\ queue = <<>>
    /\ accepted = <<>> /\ started = <<>> /\ cut = {} /\ joined = {}

(* drv_uart_is_tx_busy.                                                    *)
TxBusy == busy \/ dma # None

(* External: a request comes in.                                           *)
Hear ==
    /\ heard < MaxFrames /\ ~de
    /\ heard' = heard + 1
    /\ UNCHANGED <<at, made, uart, history>>

(* Variant: DE is left to the flush.                                       *)
SendLow ==
    /\ at = "loop" /\ made < heard
    /\ at' = "check" /\ made' = made + 1
    /\ joined' = IF dma = None THEN joined ELSE joined \cup {made'}
    /\ UNCHANGED <<heard, de, busy, dma, buffer, queue, accepted, started, cut>>
(* dev_rs485_send, up to its look at the state of the transfer.            *)
SendHigh ==
    /\ at = "loop" /\ made < heard
    /\ at' = "check" /\ made' = made + 1 /\ de' = TRUE
    /\ joined' = IF dma = None THEN joined ELSE joined \cup {made'}
    /\ UNCHANGED <<heard, busy, dma, buffer, queue, accepted, started, cut>>

(* The frame is copied and the transfer begins.                            *)
Transfer(f) ==
    /\ buffer' = f /\ dma' = f /\ started' = Append(started, f)
    /\ cut' = IF de THEN cut ELSE cut \cup {f}

(* Variant: the queue is overtaken.                                        *)
CheckHandle ==
    /\ at = "check"
    /\ IF ~TxBusy
       THEN /\ at' = "mark" /\ Transfer(made)
            /\ accepted' = Append(accepted, made)
       ELSE at' = "push" /\ UNCHANGED <<dma, buffer, started, cut, accepted>>
    /\ UNCHANGED <<heard, made, de, busy, queue, joined>>
(* drv_uart_send: its test, and the transfer of an idle handle.            *)
Check ==
    /\ at = "check"
    /\ IF ~TxBusy /\ queue = <<>>
       THEN /\ at' = "mark" /\ Transfer(made)
            /\ accepted' = Append(accepted, made)
       ELSE at' = "push" /\ UNCHANGED <<dma, buffer, started, cut, accepted>>
    /\ UNCHANGED <<heard, made, de, busy, queue, joined>>

(* tx_busy = true, after the transfer has begun.                           *)
Mark ==
    /\ at \in {"mark", "markFlush"}
    /\ at' = (IF at = "mark" THEN "loop" ELSE "recheck") /\ busy' = TRUE
    /\ UNCHANGED <<heard, made, de, dma, buffer, queue, history>>

(* Variant for checking the checks: the queue is believed to have room.    *)
PushAlways ==
    /\ at = "push" /\ at' = "loop"
    /\ queue' = Append(queue, made) /\ accepted' = Append(accepted, made)
    /\ UNCHANGED <<heard, made, de, busy, dma, buffer, started, cut, joined>>
(* The frame is queued, or dropped when the queue is full.                 *)
Push ==
    /\ at = "push" /\ at' = "loop"
    /\ IF Len(queue) < Depth
       THEN queue' = Append(queue, made) /\ accepted' = Append(accepted, made)
       ELSE UNCHANGED <<queue, accepted>>
    /\ UNCHANGED <<heard, made, de, busy, dma, buffer, started, cut, joined>>

(* Variant: a queued frame counts as busy.                                 *)
FlushWaitsQueued == TxBusy \/ queue # <<>>
FlushWaits == TxBusy
(* dev_rs485_tx_flush: its first test, drv_uart_tx_flush, its second test. *)
Flush ==
    /\ at = "loop" /\ queue # <<>>
    /\ IF FlushWaits THEN at' = "recheck" /\ UNCHANGED de
                 ELSE at' = "flush" /\ de' = TRUE
    /\ UNCHANGED <<heard, made, busy, dma, buffer, queue, history>>
FlushStart ==
    /\ at = "flush" /\ at' = "markFlush"
    /\ Transfer(Head(queue)) /\ queue' = Tail(queue)
    /\ UNCHANGED <<heard, made, de, busy, accepted, joined>>
Recheck ==
    /\ at = "recheck" /\ at' = "loop"
    /\ de' = (de /\ ~(queue # <<>> /\ ~TxBusy))
    /\ UNCHANGED <<heard, made, busy, dma, buffer, queue, history>>

(* Variant: the hook looks before the handle is marked free.               *)
CompleteLate ==
    /\ dma # None /\ (at \in {"mark", "markFlush"} => SlowIsr)
    /\ dma' = None /\ busy' = FALSE
    /\ UNCHANGED <<at, heard, made, de, buffer, queue, history>>
(* The interrupt at the end of a transfer, with rs485_tx_cplt_hook.  It    *)
(* comes between the start and its mark only when it could be held up.     *)
Complete ==
    /\ dma # None /\ (at \in {"mark", "markFlush"} => SlowIsr)
    /\ dma' = None /\ busy' = FALSE
    /\ de' = (de /\ queue # <<>>)
    /\ UNCHANGED <<at, heard, made, buffer, queue, history>>

(* The part of the receive error interrupt that concerns sending.          *)
ReceiveError ==
    /\ ~de /\ dma = None /\ busy' = FALSE
    /\ UNCHANGED <<at, heard, made, de, dma, buffer, queue, history>>

MainLoop ==
    SendHigh \/ Check \/ Mark \/ Push \/ Flush \/ FlushStart \/ Recheck
SendNext == Hear \/ MainLoop \/ Complete \/ ReceiveError
(* The main loop runs, and a transfer ends.                                *)
SendFairness == WF_sendVars(MainLoop) /\ WF_sendVars(Complete)
SendSpec == SendInit /\ [][SendNext]_sendVars /\ SendFairness

-----------------------------------------------------------------------------
(* Type invariant of the sender.                                           *)
SendTypeOK ==
    /\ at \in Places /\ heard \in 0 .. MaxFrames /\ made \in 0 .. heard
    /\ {de, busy} \subseteq BOOLEAN /\ {dma, buffer} \subseteq Frames \cup {None}
    /\ {queue, accepted, started} \subseteq Seq(Frames) /\ Len(queue) <= Depth
    /\ {cut, joined} \subseteq SUBSET Frames

(* Every frame that was accepted is transferred, once, in the order of the *)
(* calls, whichever way it took, and the buffer that is being transferred  *)
(* is not written.                                                         *)
NothingLost ==
    /\ accepted = started \o queue
    /\ dma # None => buffer = dma

(* A frame that was accepted goes out on the bus (dev_rs485.c:129: DE is   *)
(* raised for it before the transfer).                                     *)
NoneIsCut == cut = {}
(* What the code keeps of it: a frame is transferred with DE low only when *)
(* its send raised DE while an earlier frame was still being transferred,  *)
(* whose end then took DE down again.                                      *)
CutOnlyWhenJoined == cut \subseteq joined

(* Both.                                                                   *)
FramesKept == NothingLost /\ CutOnlyWhenJoined

(* tx_busy is left set although nothing is transferred: the transfer ended *)
(* before it was marked.                                                   *)
Stuck == busy /\ dma = None

(* The board does not hold the bus: DE goes low again and everything that  *)
(* was accepted is transferred, unless tx_busy is stuck.                   *)
BusIsReleased == []<>(~de \/ Stuck)
QueueIsSent == []<>(queue = <<>> \/ Stuck)
=============================================================================
