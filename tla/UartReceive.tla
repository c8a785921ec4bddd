---------------------------- MODULE UartReceive ----------------------------
(***************************************************************************)
(* Receiving on the CTU boards: the DMA writes a ring that is at the same  *)
(* time the buffer of a kfifo (kfifo.c, drv_uart.c).  The receive          *)
(* interrupt moves the FIFO's "in" up to the DMA, the main loop takes      *)
(* bytes out (com_task_service), and the error interrupt resets the FIFO   *)
(* and starts the DMA at the beginning of the ring.  KFIFO_LOCK is empty   *)
(* on these boards.                                                        *)
(*                                                                         *)
(* "in" and "out" run through Width values (2^32 in the code) and wrap;    *)
(* their difference is the number of bytes in the FIFO.  A byte is the     *)
(* number it was sent with.  The line may outrun the main loop; the        *)
(* receive interrupt comes before the DMA has gone round the ring.         *)
(***************************************************************************)
EXTENDS Naturals, Sequences

CONSTANTS
    Size,        \* DRV_UART_RX_BUF_SIZE, a power of 2
    Width,       \* values of in and out, a multiple of Size
    Chunk,       \* COM_READ_BUF_SIZE
    MaxBytes,    \* bytes in a behaviour
    MaxErrors    \* error interrupts in a behaviour

ASSUME ReceiveAssumption ==
    /\ Size \in Nat \ {0} /\ \E k \in 2 .. Width : Width = k * Size
    /\ Chunk \in 1 .. Size /\ MaxBytes \in Nat /\ MaxErrors \in Nat

VARIABLES
    ring,     \* rx_buf
    hand,     \* where the DMA writes next
    sent,     \* bytes the line has carried
    event,    \* a receive interrupt is pending (IDLE, or the end of the ring)
    in, out,  \* the indices of rx_fifo
    errors,   \* error interrupts so far
    since,    \* bytes that the line had carried at the last of them
    torn,     \* an interrupt has moved "out" inside kfifo_get
    overrun,  \* the DMA has written over a byte that was still in the FIFO
    place,    \* "idle", "read", or "advance" inside kfifo_get
    todo,     \* n of com_task_service
    got,      \* what kfifo_get has copied
    from,     \* "out" when it did
    last,     \* the newest byte given to the parser
    twice,    \* a byte was given to it that it, or a later one, had before
    skipped   \* a byte was not given to it

fifo == <<in, out>>
line == <<ring, hand, sent, event>>
faults == <<errors, since, torn, overrun>>
reader == <<place, todo, got, from>>
parser == <<last, twice, skipped>>
receiveVars == <<line, fifo, faults, reader, parser>>

ReceiveInit ==
    /\ ring = [i \in 0 .. Size - 1 |-> 0] /\ hand = 0 /\ sent = 0 /\ event = FALSE
    /\ in = 0 /\ out = 0 /\ errors = 0 /\ since = 0 /\ torn = FALSE /\ overrun = FALSE
    /\ place = "idle" /\ todo = 0 /\ got = <<>> /\ from = 0
    /\ last = 0 /\ twice = FALSE /\ skipped = FALSE

Wrap(n) == n % Width
(* kfifo_len.                                                              *)
Held == Wrap(in + Width - out)
Least(a, b) == IF a < b THEN a ELSE b
Most(a, b) == IF a > b THEN a ELSE b

-----------------------------------------------------------------------------
(* Bytes that the DMA has written since the last receive interrupt.        *)
Moved == (hand + Size - (in % Size)) % Size

(* External: the line carries a byte, and the DMA writes it.               *)
Byte ==
    /\ sent < MaxBytes /\ Moved < Size - 1
    /\ sent' = sent + 1
    /\ ring' = [ring EXCEPT ![hand] = sent']
    /\ hand' = (hand + 1) % Size
    /\ event' = (event \/ hand' = 0)
    /\ overrun' = (overrun \/ Held + Moved >= Size)
    /\ UNCHANGED <<fifo, errors, since, torn, reader, parser>>
(* External: the line goes idle.                                           *)
LineIdle ==
    /\ Moved > 0 /\ ~event /\ event' = TRUE
    /\ UNCHANGED <<ring, hand, sent, fifo, faults, reader, parser>>

(* drv_uart_rx_event_cb: kfifo_move_in by n.                               *)
MoveBy(n) ==
    /\ event /\ event' = FALSE
    /\ in' = Wrap(in + n)
    /\ out' = IF n > 0 /\ Wrap(in' + Width - out) > Size
              THEN Wrap(in' + Width - Size) ELSE out
    /\ torn' = (torn \/ (place = "advance" /\ out' # out))
    /\ UNCHANGED <<ring, hand, sent, errors, since, overrun, reader, parser>>
(* Variant: a ring that was passed is not noticed.                         *)
MoveInStraight == MoveBy(IF hand >= in % Size THEN hand - (in % Size) ELSE 0)
(* Variant: the FIFO is not kept within the ring.                          *)
MoveInFreely ==
    /\ event /\ event' = FALSE
    /\ in' = Wrap(in + Moved)
    /\ UNCHANGED <<out, ring, hand, sent, faults, reader, parser>>
MoveIn == MoveBy(Moved)

(* drv_uart_error_cb: kfifo_reset, and the DMA starts again.               *)
Error ==
    /\ errors < MaxErrors /\ errors' = errors + 1
    /\ in' = 0 /\ out' = 0 /\ hand' = 0
    /\ since' = sent
    /\ torn' = (torn \/ place = "advance")
    /\ UNCHANGED <<ring, sent, event, overrun, reader, parser>>

(* com_task_service: what is there, and its loop, with kfifo_get in two    *)
(* steps: the bytes are copied, then "out" is moved.  The compiler may     *)
(* have read "out" before the interrupt that changed it.                   *)
Service ==
    /\ place = "idle" /\ Held > 0
    /\ place' = "read" /\ todo' = Held
    /\ UNCHANGED <<line, fifo, faults, got, from, parser>>

(* Variant: the size of the buffer is not looked at.                       *)
CopiedWhole == Least(todo, Held)
Copied == Least(Least(todo, Chunk), Held)
Read ==
    LET n == Copied IN
    /\ place = "read"
    /\ IF n = 0 THEN place' = "idle" /\ UNCHANGED <<got, from>>
       ELSE /\ place' = "advance" /\ from' = out
            /\ got' = [i \in 1 .. n |-> ring[(out + i - 1) % Size]]
    /\ UNCHANGED <<line, fifo, faults, todo, parser>>
(* Variant: whatever has come meanwhile is taken as read.                  *)
AllOut == {in}
(* fifo->out += len                                                        *)
ByLen == {Wrap(base + Len(got)) : base \in {out, from}}
Advance ==
    /\ place = "advance" /\ place' = "read"
    /\ out' \in ByLen
    /\ todo' = todo - Len(got) /\ got' = <<>> /\ UNCHANGED from
    /\ last' = Most(last, got[Len(got)])
    /\ twice' = (twice \/ \E i \in 1 .. Len(got) :
                             got[i] <= IF i = 1 THEN last ELSE got[i - 1])
    /\ skipped' = (skipped \/ \E i \in 1 .. Len(got) :
                                 got[i] > 1 + IF i = 1 THEN last ELSE got[i - 1])
    /\ UNCHANGED <<line, in, faults>>

Reading == Service \/ Read \/ Advance
ReceiveNext == Byte \/ LineIdle \/ MoveIn \/ Error \/ Reading
(* The interrupts are served and the main loop runs.                       *)
ReceiveFairness ==
    WF_receiveVars(LineIdle) /\ WF_receiveVars(MoveIn) /\ WF_receiveVars(Reading)
ReceiveSpec == ReceiveInit /\ [][ReceiveNext]_receiveVars /\ ReceiveFairness

-----------------------------------------------------------------------------
(* Type invariant of the receiver.                                         *)
ReceiveTypeOK ==
    /\ ring \in [0 .. Size - 1 -> 0 .. MaxBytes] /\ hand \in 0 .. Size - 1
    /\ {sent, since, last} \subseteq 0 .. MaxBytes
    /\ {in, out, from} \subseteq 0 .. Width - 1
    /\ {event, torn, overrun, twice, skipped} \subseteq BOOLEAN
    /\ errors \in 0 .. MaxErrors /\ place \in {"idle", "read", "advance"}
    /\ todo \in 0 .. Width - 1 /\ Len(got) <= Chunk

(* The main loop and the interrupts share the FIFO without a lock because  *)
(* one only moves "out" and the others only "in" (drv_uart.c:72): no byte  *)
(* is given to the parser a second time.                                   *)
OnlyOnce == ~twice
(* What the code keeps of it: the FIFO never holds more than the ring, and *)
(* bytes are parsed once and in order, unless an interrupt moved both      *)
(* indices between the copying and the move of "out", or the line outran   *)
(* the main loop by a whole ring.                                          *)
OnlyOnceUnlessTorn == ~torn => Held <= Size /\ (overrun \/ ~twice)

(* Without an error or an overrun no byte is skipped, over the end of the  *)
(* ring and over the wrap of both indices.                                 *)
NoneSkipped == errors = 0 /\ ~overrun => ~skipped

(* Both.                                                                   *)
BytesKept == OnlyOnceUnlessTorn /\ NoneSkipped

(* Everything that the line has carried is parsed or was given up in an    *)
(* error, also after an overrun, unless the FIFO is torn.                  *)
AllIsParsed == []<>(Most(last, since) = sent \/ torn)
=============================================================================
