---------------------------- MODULE BootFsmProofs ----------------------------
(***************************************************************************)
(* The upgrade engine's invariant for partitions and blocks of every size, *)
(* every set of messages and any number of flash failures: FsmInv of       *)
(* BootFsm is inductive, so no order of frames, timeouts and failed flash  *)
(* operations programs a block over old data (AheadBlank) or records a     *)
(* firmware whose sum does not hold (CommitVerified).                      *)
(***************************************************************************)
EXTENDS BootFsm, TLAPS

LEMMA Products ==
    ASSUME NEW a \in Nat, NEW b \in Nat, NEW n \in Nat \ {0}
    PROVE  /\ a * n \in Nat
           /\ a * n < b * n => a < b
           /\ (a + 1) * n = a * n + n
  OBVIOUS

(* A unit beyond block b is not one of its units.                          *)
LEMMA BeyondBlock ==
    ASSUME NEW u \in Nat, NEW b \in Nat, NEW n \in Nat \ {0}, u >= (b + 1) * n
    PROVE  u \div n # b
  OBVIOUS

LEMMA WireFields ==
    ASSUME NEW m \in Wire
    PROVE  /\ m.cmd = "START" => m.size \in Nat
           /\ m.cmd = "METADATA" => m.sum \in Nat
           /\ m.cmd \in {"DATA", "DATA_END"} => m.unit \in Nat
  BY DEF Wire

LEMMA OnTheWire == \A m \in Messages : m \in Wire
  BY InputsAssumption
-----------------------------------------------------------------------------
(* The contexts that the handlers build are contexts.                      *)

LEMMA ZeroTypes ==
    /\ 0 \in 0 .. NFrames /\ 0 \in 0 .. NBlocks /\ 0 \in Nat
    /\ 0 \in 0 .. BlockTimeout + 1 /\ 0 \in 0 .. SessionTimeout + 1
    /\ NoData \in [Frames -> Nat] /\ FALSE \in BOOLEAN /\ TRUE \in BOOLEAN
  BY SizesAssumption DEF NoData

LEMMA FreshType == Fresh \in Contexts
  BY ZeroTypes, Zenon DEF Contexts, Fresh

LEMMA HeardType ==
    ASSUME TypeOK
    PROVE  /\ Heard \in Contexts
           /\ Heard.size = ctx.size /\ Heard.sum = ctx.sum /\ Heard.block = ctx.block
           /\ Heard.acc = ctx.acc /\ Heard.seq = ctx.seq
  <1>1. Heard \in Contexts  BY ZeroTypes, Zenon DEF TypeOK, Contexts, Heard
  <1>2. QED  BY <1>1 DEF TypeOK, Contexts, Heard

LEMMA ResetType ==
    ASSUME NEW c \in Contexts
    PROVE  /\ Reset0(c) \in Contexts
           /\ Reset0(c).size = c.size /\ Reset0(c).block = 0 /\ Reset0(c).acc = 0
  <1>1. Reset0(c) \in Contexts  BY ZeroTypes, Zenon DEF Contexts, Reset0
  <1>2. QED  BY <1>1, Zenon DEF Contexts, Reset0

LEMMA StoredType ==
    ASSUME NEW c \in Contexts, NEW u \in Nat
    PROVE  /\ Stored(c, u) \in Contexts
           /\ Stored(c, u).size = c.size /\ Stored(c, u).sum = c.sum
           /\ Stored(c, u).block = c.block /\ Stored(c, u).seq = c.seq
           /\ c.acc < NFrames => Stored(c, u).acc < NFrames
  <1>1. CASE c.acc < NFrames - 1
    <2>1. c.acc + 1 \in 0 .. NFrames  BY <1>1, SizesAssumption DEF Contexts
    <2>2. [c.buf EXCEPT ![c.acc] = u] \in [Frames -> Nat]
      BY <1>1 DEF Contexts, Frames
    <2>3. Stored(c, u)
            = [c EXCEPT !.buf = [c.buf EXCEPT ![c.acc] = u], !.acc = c.acc + 1]
      BY <1>1 DEF Stored
    <2>4. Stored(c, u) \in Contexts  BY <2>1, <2>2, <2>3, Zenon DEF Contexts
    <2>5. QED  BY <1>1, <2>3, <2>4, SizesAssumption DEF Contexts
  <1>2. CASE ~(c.acc < NFrames - 1)
    BY <1>2 DEF Stored
  <1>3. QED  BY <1>1, <1>2

LEMMA OlderType ==
    ASSUME NEW limit \in Nat, NEW age \in 0 .. limit + 1
    PROVE  Older(age, limit) \in 0 .. limit + 1
  BY DEF Older

LEMMA AgedType ==
    ASSUME TypeOK
    PROVE  /\ Aged \in Contexts
           /\ Aged.size = ctx.size /\ Aged.sum = ctx.sum /\ Aged.block = ctx.block
           /\ Aged.acc = ctx.acc
  <1>1. ctx \in Contexts  BY DEF TypeOK
  <1>2. /\ Older(ctx.blockAge, BlockTimeout) \in 0 .. BlockTimeout + 1
        /\ Older(ctx.idleAge, SessionTimeout) \in 0 .. SessionTimeout + 1
    BY <1>1, OlderType, SizesAssumption DEF Contexts
  <1>3. (IF ctx.active THEN Older(ctx.blockAge, BlockTimeout) ELSE ctx.blockAge)
            \in 0 .. BlockTimeout + 1
    BY <1>1, <1>2, Zenon DEF Contexts
  <1>4. Aged \in Contexts  BY <1>1, <1>2, <1>3, Zenon DEF Contexts, Aged
  <1>5. QED  BY <1>1, <1>4 DEF Contexts, Aged

LEMMA DroppedType ==
    ASSUME NEW c \in Contexts
    PROVE  /\ Dropped(c) \in Contexts
           /\ Dropped(c).size = c.size /\ Dropped(c).sum = c.sum
           /\ Dropped(c).block = c.block /\ Dropped(c).acc = 0
  <1>1. Dropped(c) \in Contexts  BY ZeroTypes, Zenon DEF Contexts, Dropped
  <1>2. QED  BY <1>1 DEF Contexts, Dropped

LEMMA TailedType ==
    ASSUME TypeOK, NEW m, m.unit \in Nat, ctx.acc < NFrames
    PROVE  /\ Filled(m) \in [Frames -> Nat]
           /\ Tailed(m) \in Contexts
           /\ Tailed(m).size = ctx.size /\ Tailed(m).sum = ctx.sum
           /\ Tailed(m).block = ctx.block
  <1>1. ctx \in Contexts  BY DEF TypeOK
  <1>2. ctx.acc + 1 \in 0 .. NFrames  BY <1>1, SizesAssumption DEF Contexts
  <1>3. Filled(m) \in [Frames -> Nat]  BY <1>1 DEF Contexts, Filled, Frames
  <1>4. Tailed(m) = [Heard EXCEPT !.buf = Filled(m), !.acc = ctx.acc + 1]
    BY HeardType DEF Tailed
  <1>5. Tailed(m) \in Contexts
    BY <1>2, <1>3, <1>4, HeardType, Zenon DEF Contexts
  <1>6. QED  BY <1>3, <1>4, <1>5, HeardType DEF Contexts

LEMMA NextBlockType ==
    ASSUME TypeOK, ctx.block < NBlocks
    PROVE  /\ NextBlock \in Contexts
           /\ NextBlock.size = ctx.size /\ NextBlock.sum = ctx.sum
           /\ NextBlock.block = ctx.block + 1 /\ NextBlock.acc = 0
  <1>1. ctx.block + 1 \in 0 .. NBlocks  BY SizesAssumption DEF TypeOK, Contexts
  <1>2. NextBlock = [Heard EXCEPT !.block = ctx.block + 1, !.acc = 0, !.seq = 0,
                                  !.active = FALSE, !.buf = NoData]
    BY HeardType DEF NextBlock
  <1>3. NextBlock \in Contexts
    BY <1>1, <1>2, HeardType, ZeroTypes, Zenon DEF Contexts
  <1>4. QED  BY <1>2, <1>3, HeardType DEF Contexts

LEMMA BlankRowType == BlankRow \in Rows
  BY SizesAssumption DEF BlankRow, Rows

(* Programming a block leaves rows rows, and the units beyond it alone.    *)
LEMMA ProgrammedType ==
    ASSUME NEW row \in Rows, NEW b \in Nat, NEW buf \in [Frames -> Nat]
    PROVE  /\ Programmed(row, b, buf) \in Rows
           /\ \A u \in Units :
                u >= (b + 1) * NFrames => Programmed(row, b, buf)[u] = row[u]
  <1>1. \A u \in Units : u % NFrames \in Frames
    BY SizesAssumption DEF Units, Frames
  <1>2. Programmed(row, b, buf) \in Rows
    BY <1>1 DEF Programmed, Rows
  <1>3. ASSUME NEW u \in Units, u >= (b + 1) * NFrames
        PROVE  Programmed(row, b, buf)[u] = row[u]
    <2>1. u \in Nat  BY DEF Units
    <2>2. u \notin UnitsOf(b)  BY <1>3, <2>1, BeyondBlock, SizesAssumption DEF UnitsOf
    <2>3. QED  BY <2>2 DEF Programmed
  <1>4. QED  BY <1>2, <1>3
-----------------------------------------------------------------------------
(* Three shapes of step: the session ends, the session goes on as it was,  *)
(* and the rest.                                                           *)

Kinds == {"none", "BEACON", "ACK", "NACK"}
Typed(s, c, r) == s \in States /\ c \in Contexts /\ r.kind \in Kinds

LEMMA EndStep ==
    ASSUME FsmInv, NEW c, NEW r, Typed("IDLE", c, r), Answer("IDLE", c, r),
           target' = target, flash' \in [Partitions -> Rows], meta' \in Metas,
           faults' \in 0 .. MaxFaults
    PROVE  FsmInv'
  BY DEF FsmInv, TypeOK, AheadBlank, SessionSettled, Answer, Typed, Kinds

LEMMA KeepTypes ==
    ASSUME TypeOK, Keep
    PROVE  /\ target' = target /\ flash' = flash /\ meta' = meta
           /\ flash' \in [Partitions -> Rows] /\ meta' \in Metas
           /\ faults' \in 0 .. MaxFaults
  BY DEF TypeOK, Keep, Sound

LEMMA SameSessionStep ==
    ASSUME FsmInv, Keep, NEW c, NEW r, Typed(st, c, r), Answer(st, c, r),
           c.size = ctx.size, c.sum = ctx.sum, c.block = ctx.block,
           ctx.acc < NFrames => c.acc < NFrames
    PROVE  FsmInv'
  <1>1. TypeOK'
    BY KeepTypes DEF FsmInv, TypeOK, Answer, Typed, Kinds
  <1>2. Received(ctx') = Received(ctx)  BY DEF Received, Answer
  <1>3. AheadBlank'
    BY <1>2, KeepTypes DEF FsmInv, AheadBlank, Answer
  <1>4. FlashSum(ctx)' = FlashSum(ctx)
    BY KeepTypes DEF FsmInv, FlashSum, Answer
  <1>5. SessionSettled'
    BY <1>2, <1>4 DEF FsmInv, SessionSettled, Answer
  <1>6. QED  BY <1>1, <1>3, <1>5 DEF FsmInv

LEMMA ResponseKinds ==
    /\ Silent.kind \in Kinds /\ Beacon.kind \in Kinds
    /\ \A a, e, i : /\ Ack(a).kind \in Kinds /\ AckAt(a, i).kind \in Kinds
                    /\ Nack(a, e).kind \in Kinds /\ NackAt(a, e, i).kind \in Kinds
  BY DEF Kinds, Silent, Beacon, Ack, AckAt, Nack, NackAt

-----------------------------------------------------------------------------
(* Steps that end a session or find none.                                  *)

LEMMA CancelStep ==
    ASSUME FsmInv, NEW m \in Wire, Cancel(m)
    PROVE  FsmInv'
  <1> DEFINE c == [Reset0(Heard) EXCEPT !.active = FALSE]
  <1>1. TypeOK /\ Heard \in Contexts /\ Reset0(Heard) \in Contexts
    BY HeardType, ResetType DEF FsmInv
  <1>2. c \in Contexts  BY <1>1, Zenon DEF Contexts
  <1>3. Typed("IDLE", c, Ack("CANCEL"))
    BY <1>2, ResponseKinds DEF Typed, States
  <1>4. QED  BY <1>1, <1>3, KeepTypes, EndStep DEF Cancel

LEMMA IdleStep ==
    ASSUME FsmInv, NEW m \in Wire, IdleIgnore(m) \/ IdleReject(m)
    PROVE  FsmInv'
  <1>1. TypeOK /\ Heard \in Contexts  BY HeardType DEF FsmInv
  <1>2. Typed("IDLE", Heard, Silent) /\ Typed("IDLE", Heard, Nack("START", StartError(m)))
    BY <1>1, ResponseKinds DEF Typed, States
  <1>3. QED  BY <1>1, <1>2, KeepTypes, EndStep DEF IdleIgnore, IdleReject
LEMMA EraseFailsStep ==
    ASSUME FsmInv, NEW m \in Wire, IdleEraseFails(m)
    PROVE  FsmInv'
  <1>1. m.size \in Nat  BY WireFields DEF IdleEraseFails
  <1>2. Negotiated(m) \in Contexts
    BY <1>1, HeardType, ResetType, Zenon DEF FsmInv, Negotiated, Contexts
  <1>3. Typed("IDLE", Negotiated(m), Nack("START", "FLASH_ERASE_ERR"))
    BY <1>2, ResponseKinds DEF Typed, States
  <1>4. flash' \in [Partitions -> Rows]
    <2>1. flash[target] \in Rows /\ Blank \in Nat
      BY SizesAssumption DEF FsmInv, TypeOK
    <2>2. \A n : WipedTo(n) \in Rows
      BY <2>1 DEF WipedTo, Rows
    <2>3. QED  BY <2>2 DEF IdleEraseFails, FsmInv, TypeOK
  <1>5. faults' \in 0 .. MaxFaults
    BY SizesAssumption DEF IdleEraseFails, Faulty, FsmInv, TypeOK
  <1>6. QED
    BY <1>3, <1>4, <1>5, EndStep DEF IdleEraseFails, FsmInv, TypeOK

(* The block just sent is typed, and so is the row it is programmed into.  *)
LEMMA BlockTypes ==
    ASSUME FsmInv, NEW m \in Wire, BlockEnds(m)
    PROVE  /\ m.unit \in Nat /\ ctx.acc < NFrames /\ ctx.block < NBlocks
           /\ Filled(m) \in [Frames -> Nat] /\ Tailed(m) \in Contexts
           /\ Tailed(m).size = ctx.size /\ Tailed(m).sum = ctx.sum
           /\ Tailed(m).block = ctx.block
           /\ Written(m) \in Rows
           /\ [flash EXCEPT ![target] = Written(m)] \in [Partitions -> Rows]
  <1>1. TypeOK /\ st = "DATA_TRANSFER" /\ m.cmd = "DATA_END"
    BY DEF FsmInv, BlockEnds
  <1>2. m.unit \in Nat  BY <1>1, WireFields
  <1>3. ctx.acc < NFrames  BY <1>1 DEF FsmInv, SessionSettled
  <1>4. ctx.block < NBlocks
    <2>1. /\ ctx.block \in Nat /\ ctx.size \in 1 .. NBlocks * NFrames
          /\ ctx.block * NFrames < ctx.size
      BY <1>1 DEF FsmInv, SessionSettled, TypeOK, Contexts, Received
    <2>2. ctx.block * NFrames < NBlocks * NFrames
      BY <2>1, Products, SizesAssumption
    <2>3. QED  BY <2>1, <2>2, Products, SizesAssumption
  <1>5. Written(m) \in Rows
    BY <1>1, <1>2, <1>3, TailedType, ProgrammedType DEF Written, TypeOK, Contexts
  <1>6. QED
    BY <1>1, <1>2, <1>3, <1>4, <1>5, TailedType DEF TypeOK

LEMMA BlockFailsStep ==
    ASSUME FsmInv, NEW m \in Wire, BlockWriteFails(m) \/ BlockMismatch(m)
    PROVE  FsmInv'
  <1>1. BlockEnds(m)  BY DEF BlockWriteFails, BlockMismatch
  <1>2. /\ Typed("IDLE", Tailed(m), Nack("DATA_END", "FLASH_WRITE_ERR"))
        /\ Typed("IDLE", Tailed(m), Nack("DATA_END", "FLASH_VERIFY_ERR"))
    BY <1>1, BlockTypes, ResponseKinds DEF Typed, States
  <1>3. flash' \in [Partitions -> Rows]
    <2>1. flash[target] \in Rows /\ Written(m) \in Rows
      BY <1>1, BlockTypes DEF FsmInv, TypeOK
    <2>2. \A n : WrittenTo(m, n) \in Rows
      BY <2>1 DEF WrittenTo, Rows
    <2>3. QED  BY <1>1, <2>2, BlockTypes DEF BlockWriteFails, BlockMismatch, FsmInv, TypeOK
  <1>4. faults' \in 0 .. MaxFaults
    BY SizesAssumption DEF BlockWriteFails, BlockMismatch, Faulty, Sound, FsmInv, TypeOK
  <1>5. target' = target /\ meta' \in Metas
    BY DEF BlockWriteFails, BlockMismatch, FsmInv, TypeOK
  <1>6. QED
    BY <1>2, <1>3, <1>4, <1>5, EndStep DEF BlockWriteFails, BlockMismatch

LEMMA VerifyFailStep ==
    ASSUME FsmInv, NEW m \in Wire, VerifyFail(m)
    PROVE  FsmInv'
  <1>1. TypeOK /\ Typed("IDLE", Heard, Nack("VERIFY", "CHECKSUM_ERR"))
    BY HeardType, ResponseKinds DEF FsmInv, Typed, States
  <1>2. QED  BY <1>1, KeepTypes, EndStep DEF VerifyFail

(* The record that a REBOOT writes is one that metadata can hold.          *)
LEMMA NewMetaType ==
    ASSUME TypeOK
    PROVE  NewMeta \in Metas
  BY DEF TypeOK, Contexts, NewMeta, Metas

LEMMA RebootStep ==
    ASSUME FsmInv, NEW m \in Wire, Reboot(m)
    PROVE  FsmInv'
  <1> DEFINE c == [Heard EXCEPT !.reset = TRUE]
  <1>1. TypeOK /\ Heard \in Contexts  BY HeardType DEF FsmInv
  <1>2. c \in Contexts  BY <1>1, Zenon DEF Contexts
  <1>3. Typed("IDLE", c, Ack("REBOOT"))
    BY <1>2, ResponseKinds DEF Typed, States
  <1>4. meta' \in Metas /\ faults' \in 0 .. MaxFaults
    BY <1>1, NewMetaType, SizesAssumption DEF Reboot, SaveMeta, Sound, Faulty, TypeOK
  <1>5. QED
    BY <1>1, <1>3, <1>4, EndStep DEF Reboot, Rebooted, TypeOK
-----------------------------------------------------------------------------
(* Steps within a state.                                                   *)

LEMMA RefusalStep ==
    ASSUME FsmInv, Keep, NEW r, r.kind \in Kinds, Answer(st, Heard, r)
    PROVE  FsmInv'
  <1>1. Typed(st, Heard, r)
    BY HeardType DEF FsmInv, TypeOK, Typed
  <1>2. QED  BY <1>1, HeardType, SameSessionStep DEF FsmInv

LEMMA DataStartStep ==
    ASSUME FsmInv, NEW m \in Wire, DataStart(m)
    PROVE  FsmInv'
  <1> DEFINE c == [Heard EXCEPT !.acc = 0, !.seq = 0, !.buf = NoData,
                                !.active = TRUE, !.blockAge = 0]
  <1>1. TypeOK /\ Heard \in Contexts  BY HeardType DEF FsmInv
  <1>2. c \in Contexts  BY <1>1, ZeroTypes, Zenon DEF Contexts
  <1>3. c.size = ctx.size /\ c.sum = ctx.sum /\ c.block = ctx.block /\ c.acc = 0
    BY <1>1, HeardType DEF Contexts
  <1>4. Typed(st, c, AckAt("DATA_START", ctx.block))
    BY <1>1, <1>2, ResponseKinds DEF Typed, TypeOK
  <1>5. 0 < NFrames  BY SizesAssumption
  <1> HIDE DEF c
  <1>6. Answer(st, c, AckAt("DATA_START", ctx.block)) /\ Keep  BY DEF DataStart, c
  <1>7. QED  BY <1>3, <1>4, <1>5, <1>6, SameSessionStep

LEMMA DataOutOfOrderStep ==
    ASSUME FsmInv, NEW m \in Wire, DataOutOfOrder(m)
    PROVE  FsmInv'
  <1> DEFINE c == [Heard EXCEPT !.acc = 0, !.active = FALSE]
  <1>1. TypeOK /\ Heard \in Contexts  BY HeardType DEF FsmInv
  <1>2. c \in Contexts  BY <1>1, ZeroTypes, Zenon DEF Contexts
  <1>3. c.size = ctx.size /\ c.sum = ctx.sum /\ c.block = ctx.block /\ c.acc = 0
    BY <1>1, HeardType DEF Contexts
  <1>4. Typed(st, c, NackAt("DATA", "INVALID_FRAME", ctx.block))
    BY <1>1, <1>2, ResponseKinds DEF Typed, TypeOK
  <1>5. 0 < NFrames  BY SizesAssumption
  <1> HIDE DEF c
  <1>6. Answer(st, c, NackAt("DATA", "INVALID_FRAME", ctx.block)) /\ Keep
    BY DEF DataOutOfOrder, c
  <1>7. QED  BY <1>3, <1>4, <1>5, <1>6, SameSessionStep

LEMMA DataStep ==
    ASSUME FsmInv, NEW m \in Wire, Data(m)
    PROVE  FsmInv'
  <1> DEFINE d == Stored(Heard, m.unit)
             c == [d EXCEPT !.seq = d.seq + 1, !.active = TRUE, !.blockAge = 0]
  <1>1. TypeOK /\ Heard \in Contexts  BY HeardType DEF FsmInv
  <1>2. m.unit \in Nat  BY WireFields DEF Data
  <1>3. /\ d \in Contexts /\ d.size = ctx.size /\ d.sum = ctx.sum
        /\ d.block = ctx.block /\ (ctx.acc < NFrames => d.acc < NFrames)
    BY <1>1, <1>2, HeardType, StoredType
  <1> HIDE DEF d
  <1>4. d.seq + 1 \in Nat  BY <1>3 DEF Contexts
  <1>5. c \in Contexts  BY <1>3, <1>4, ZeroTypes, Zenon DEF Contexts
  <1>6. c.size = d.size /\ c.sum = d.sum /\ c.block = d.block /\ c.acc = d.acc
    BY <1>3 DEF Contexts
  <1>7. Typed(st, c, Silent)  BY <1>1, <1>5, ResponseKinds DEF Typed, TypeOK
  <1>8. Answer(st, c, Silent) /\ Keep  BY DEF Data, d
  <1> HIDE DEF c
  <1>9. QED  BY <1>3, <1>6, <1>7, <1>8, SameSessionStep

LEMMA BlockBadStep ==
    ASSUME FsmInv, NEW m \in Wire, BlockBad(m)
    PROVE  FsmInv'
  <1> DEFINE c == [Tailed(m) EXCEPT !.acc = 0]
  <1>1. BlockEnds(m)  BY DEF BlockBad
  <1>2. c \in Contexts  BY <1>1, BlockTypes, ZeroTypes, Zenon DEF Contexts
  <1>3. c.size = ctx.size /\ c.sum = ctx.sum /\ c.block = ctx.block /\ c.acc = 0
    BY <1>1, BlockTypes DEF Contexts
  <1>4. Typed(st, c, Nack("DATA_END", "BLOCK_CHECKSUM"))
    BY <1>2, ResponseKinds DEF Typed, FsmInv, TypeOK
  <1>5. 0 < NFrames  BY SizesAssumption
  <1>6. Answer(st, c, Nack("DATA_END", "BLOCK_CHECKSUM")) /\ Keep  BY DEF BlockBad
  <1> HIDE DEF c
  <1>7. QED  BY <1>3, <1>4, <1>5, <1>6, SameSessionStep
-----------------------------------------------------------------------------
(* Steps from one state of a session to the next.                          *)

LEMMA NegotiatedType ==
    ASSUME TypeOK, NEW m \in Wire, m.cmd = "START", Offer(m)
    PROVE  /\ Negotiated(m) \in Contexts
           /\ Negotiated(m).size \in 1 .. NBlocks * NFrames
           /\ Negotiated(m).block = 0 /\ Negotiated(m).acc = 0
           /\ Received(Negotiated(m)) = 0
  <1>1. m.size \in 1 .. NBlocks * NFrames
    BY WireFields, Products, SizesAssumption DEF Offer
  <1>2. m.size \in Nat  BY WireFields
  <1>3. Reset0(Heard) \in Contexts /\ Reset0(Heard).block = 0 /\ Reset0(Heard).acc = 0
    BY HeardType, ResetType
  <1>4. Negotiated(m) \in Contexts  BY <1>2, <1>3, Zenon DEF Negotiated, Contexts
  <1>5. /\ Negotiated(m).size = m.size
        /\ Negotiated(m).block = 0 /\ Negotiated(m).acc = 0
    BY <1>3 DEF Negotiated, Contexts
  <1>6. Received(Negotiated(m)) = 0  BY <1>5, SizesAssumption DEF Received
  <1>7. QED  BY <1>1, <1>4, <1>5, <1>6

LEMMA IdleStartStep ==
    ASSUME FsmInv, NEW m \in Wire, IdleStart(m)
    PROVE  FsmInv'
  <1> DEFINE c == Negotiated(m)
  <1>1. /\ TypeOK /\ m.cmd = "START" /\ Offer(m)
        /\ st' = "START" /\ ctx' = c /\ resp' = Ack("START")
        /\ flash' = [flash EXCEPT ![target] = BlankRow]
        /\ target' = target /\ meta' = meta /\ faults' = faults
    BY DEF FsmInv, IdleStart, Answer, Sound
  <1>2. /\ c \in Contexts /\ c.size \in 1 .. NBlocks * NFrames
        /\ c.block = 0 /\ c.acc = 0 /\ Received(c) = 0
    BY <1>1, NegotiatedType
  <1> HIDE DEF c
  <1>3. TypeOK'
    BY <1>1, <1>2, ResponseKinds, BlankRowType DEF TypeOK, States, Kinds
  <1>4. AheadBlank'
    BY <1>1 DEF TypeOK, AheadBlank, BlankRow
  <1>5. SessionSettled'
    BY <1>1, <1>2, SizesAssumption DEF SessionSettled
  <1>6. QED  BY <1>3, <1>4, <1>5 DEF FsmInv

LEMMA StartAgainStep ==
    ASSUME FsmInv, NEW m \in Wire, StartAgain(m)
    PROVE  FsmInv'
  <1> DEFINE c == Negotiated(m)
  <1>1. CASE Offer(m)
    <2>1. /\ TypeOK /\ Keep /\ st = "START" /\ m.cmd = "START"
          /\ st' = "START" /\ ctx' = c /\ resp' = Ack("START")
      BY <1>1 DEF FsmInv, StartAgain, Answer
    <2>2. /\ c \in Contexts /\ c.size \in 1 .. NBlocks * NFrames
          /\ c.block = 0 /\ c.acc = 0 /\ Received(c) = 0
      BY <1>1, <2>1, NegotiatedType
    <2> HIDE DEF c
    <2>3. TypeOK'
      BY <2>1, <2>2, ResponseKinds, KeepTypes DEF TypeOK, States, Kinds
    <2>4. Received(ctx) = 0
      BY <2>1, SizesAssumption DEF FsmInv, SessionSettled, Received
    <2>5. AheadBlank'
      BY <2>1, <2>2, <2>4, KeepTypes DEF FsmInv, AheadBlank
    <2>6. SessionSettled'
      BY <2>1, <2>2, SizesAssumption DEF SessionSettled
    <2>7. QED  BY <2>3, <2>5, <2>6 DEF FsmInv
  <1>2. CASE ~Offer(m)
    <2>1. Keep /\ Answer(st, Heard, Silent)  BY <1>2 DEF StartAgain
    <2>2. QED  BY <2>1, ResponseKinds, RefusalStep
  <1>3. QED  BY <1>1, <1>2

LEMMA MetadataStep ==
    ASSUME FsmInv, NEW m \in Wire, Metadata(m)
    PROVE  FsmInv'
  <1> DEFINE c == [Heard EXCEPT !.sum = m.sum]
  <1>1. /\ TypeOK /\ Keep /\ st = "START" /\ m.sum \in Nat
        /\ st' = "DATA_TRANSFER" /\ ctx' = c /\ resp' = Ack("METADATA")
    BY WireFields DEF FsmInv, Metadata, Answer
  <1>2. c \in Contexts  BY <1>1, HeardType, Zenon DEF Contexts
  <1>3. c.size = ctx.size /\ c.block = ctx.block /\ c.acc = ctx.acc
    BY <1>1, HeardType DEF Contexts
  <1>4. Received(c) = Received(ctx)  BY <1>3 DEF Received
  <1> HIDE DEF c
  <1>5. TypeOK'
    BY <1>1, <1>2, ResponseKinds, KeepTypes DEF TypeOK, States, Kinds
  <1>6. AheadBlank'
    BY <1>1, <1>4, KeepTypes DEF FsmInv, AheadBlank
  <1>7. SessionSettled'
    BY <1>1, <1>3, <1>4 DEF FsmInv, SessionSettled
  <1>8. QED  BY <1>5, <1>6, <1>7 DEF FsmInv

(* A block that lands is programmed into blank units and leaves those      *)
(* beyond it blank.                                                        *)
LEMMA BlockCommitStep ==
    ASSUME FsmInv, NEW m \in Wire, BlockCommit(m)
    PROVE  FsmInv'
  <1> DEFINE c == NextBlock
             r == Ack("DATA_END")
             s == IF Received(c) >= ctx.size THEN "VERIFY_PENDING" ELSE st
  <1>1. /\ BlockEnds(m) /\ TypeOK /\ st = "DATA_TRANSFER"
        /\ st' = s /\ ctx' = c /\ resp' = r
        /\ flash' = [flash EXCEPT ![target] = Written(m)]
        /\ target' = target /\ meta' = meta /\ faults' = faults
    BY DEF FsmInv, BlockCommit, BlockEnds, Answer, Sound
  <1>2. /\ c \in Contexts /\ c.size = ctx.size /\ c.block = ctx.block + 1
        /\ c.acc = 0
    BY <1>1, BlockTypes, NextBlockType
  <1>3. /\ ctx.size \in Nat /\ ctx.block \in Nat
        /\ Received(c) = (ctx.block + 1) * NFrames /\ Received(c) \in Nat
        /\ Received(c) >= Received(ctx)
    BY <1>1, <1>2, Products, SizesAssumption DEF TypeOK, Contexts, Received
  <1>4. s \in {"VERIFY_PENDING", "DATA_TRANSFER"}
        /\ (s = "VERIFY_PENDING" => ctx.size <= Received(c))
        /\ (s = "DATA_TRANSFER" => Received(c) < ctx.size)
    BY <1>1, <1>3
  <1> HIDE DEF c, s, r
  <1>5. TypeOK'
    BY <1>1, <1>2, <1>4, BlockTypes, ResponseKinds DEF TypeOK, States, Kinds, r
  <1>6. ASSUME NEW u \in Units, u >= Received(c)
        PROVE  Written(m)[u] = Blank
    <2>1. Written(m)[u] = flash[target][u]
      BY <1>1, <1>3, <1>6, BlockTypes, ProgrammedType DEF Written, TypeOK
    <2>2. u >= Received(ctx)
      BY <1>1, <1>3, <1>6, Products, SizesAssumption DEF Units, Received
    <2>3. QED  BY <1>1, <2>1, <2>2 DEF FsmInv, AheadBlank
  <1>7. flash'[target'] = Written(m)  BY <1>1 DEF TypeOK
  <1>8. AheadBlank'
    BY <1>1, <1>6, <1>7 DEF AheadBlank
  <1>9. SessionSettled'
    BY <1>1, <1>2, <1>3, <1>4, SizesAssumption DEF FsmInv, SessionSettled
  <1>10. QED  BY <1>5, <1>8, <1>9 DEF FsmInv

LEMMA VerifyPassStep ==
    ASSUME FsmInv, NEW m \in Wire, VerifyPass(m)
    PROVE  FsmInv'
  <1>1. /\ TypeOK /\ Keep /\ st = "VERIFY_PENDING" /\ FlashSum(ctx) = ctx.sum
        /\ st' = "REBOOT_PENDING" /\ ctx' = Heard /\ resp' = Ack("VERIFY")
    BY DEF FsmInv, VerifyPass, Answer
  <1>2. Received(Heard) = Received(ctx)  BY <1>1, HeardType DEF Received
  <1>3. TypeOK'
    BY <1>1, HeardType, ResponseKinds, KeepTypes DEF TypeOK, States, Kinds
  <1>4. AheadBlank'  BY <1>1 DEF AheadBlank
  <1>5. FlashSum(ctx)' = FlashSum(ctx)
    BY <1>1, HeardType, KeepTypes DEF FlashSum
  <1>6. SessionSettled'
    BY <1>1, <1>2, <1>5, HeardType DEF FsmInv, SessionSettled
  <1>7. QED  BY <1>3, <1>4, <1>6 DEF FsmInv
-----------------------------------------------------------------------------
(* boot_fsm_tick.                                                          *)

LEMMA TickIdleStep ==
    ASSUME FsmInv, TickIdle
    PROVE  FsmInv'
  <1> DEFINE c == [Aged EXCEPT !.idleAge = 0]
  <1>1. TypeOK /\ Keep  BY DEF FsmInv, TickIdle
  <1>2. c \in Contexts  BY <1>1, AgedType, ZeroTypes, Zenon DEF Contexts
  <1>3. PICK r \in {Silent, Beacon} : Answer("IDLE", c, r)  BY DEF TickIdle
  <1>4. Typed("IDLE", c, r)  BY <1>2, ResponseKinds DEF Typed, States
  <1> HIDE DEF c
  <1>5. QED  BY <1>1, <1>3, <1>4, KeepTypes, EndStep

LEMMA TickBusyStep ==
    ASSUME FsmInv, TickBusy
    PROVE  FsmInv'
  <1> DEFINE c == IF BlockLate THEN Dropped(Aged) ELSE Aged
             r == IF BlockLate THEN NackAt("DATA_END", "TIMEOUT", ctx.block) ELSE Silent
             d == [c EXCEPT !.idleAge = 0]
  <1>1. TypeOK /\ Keep  BY DEF FsmInv, TickBusy
  <1>2. /\ c \in Contexts /\ c.size = ctx.size /\ c.sum = ctx.sum
        /\ c.block = ctx.block /\ (ctx.acc < NFrames => c.acc < NFrames)
    BY <1>1, AgedType, DroppedType, SizesAssumption
  <1>3. r.kind \in Kinds  BY ResponseKinds
  <1>4. \/ Aged.idleAge > SessionTimeout /\ Answer("IDLE", d, r)
        \/ Answer(st, c, r)
    BY DEF TickBusy
  <1> HIDE DEF c, r
  <1>5. d \in Contexts  BY <1>2, ZeroTypes, Zenon DEF Contexts
  <1>6. Typed("IDLE", d, r) /\ Typed(st, c, r)
    BY <1>1, <1>2, <1>3, <1>5 DEF Typed, TypeOK, States
  <1>7. CASE Answer("IDLE", d, r)
    BY <1>1, <1>6, <1>7, KeepTypes, EndStep
  <1>8. CASE Answer(st, c, r)
    BY <1>1, <1>2, <1>6, <1>8, SameSessionStep
  <1>9. QED  BY <1>4, <1>7, <1>8

-----------------------------------------------------------------------------
LEMMA InitInv == ASSUME Init PROVE FsmInv
  <1>1. TypeOK
    BY FreshType, ResponseKinds, InputsAssumption, SizesAssumption
       DEF Init, TypeOK, States, Kinds
  <1>2. AheadBlank /\ SessionSettled  BY DEF Init, AheadBlank, SessionSettled
  <1>3. QED  BY <1>1, <1>2 DEF FsmInv

LEMMA MessageStep ==
    ASSUME FsmInv, NEW m \in Wire, ProcessMsg(m)
    PROVE  FsmInv'
  <1>1. CASE Cancel(m)  BY <1>1, CancelStep
  <1>2. CASE IdleIgnore(m) \/ IdleReject(m)  BY <1>2, IdleStep
  <1>3. CASE IdleStart(m)  BY <1>3, IdleStartStep
  <1>4. CASE IdleEraseFails(m)  BY <1>4, EraseFailsStep
  <1>5. CASE StartAgain(m)  BY <1>5, StartAgainStep
  <1>6. CASE StartUnexpected(m)
    BY <1>6, RefusalStep, ResponseKinds DEF StartUnexpected
  <1>7. CASE Metadata(m)  BY <1>7, MetadataStep
  <1>8. CASE DataStart(m)  BY <1>8, DataStartStep
  <1>9. CASE DataStartElsewhere(m)
    BY <1>9, RefusalStep, ResponseKinds DEF DataStartElsewhere
  <1>10. CASE Data(m)  BY <1>10, DataStep
  <1>11. CASE DataOutOfOrder(m)  BY <1>11, DataOutOfOrderStep
  <1>12. CASE BlockBad(m)  BY <1>12, BlockBadStep
  <1>13. CASE BlockWriteFails(m) \/ BlockMismatch(m)  BY <1>13, BlockFailsStep
  <1>14. CASE BlockCommit(m)  BY <1>14, BlockCommitStep
  <1>15. CASE DataUnexpected(m)
    BY <1>15, RefusalStep, ResponseKinds DEF DataUnexpected
  <1>16. CASE VerifyUnexpected(m)
    BY <1>16, RefusalStep, ResponseKinds DEF VerifyUnexpected
  <1>17. CASE VerifyPass(m)  BY <1>17, VerifyPassStep
  <1>18. CASE VerifyFail(m)  BY <1>18, VerifyFailStep
  <1>19. CASE RebootUnexpected(m)
    BY <1>19, RefusalStep, ResponseKinds DEF RebootUnexpected
  <1>20. CASE Reboot(m)  BY <1>20, RebootStep
  <1>21. QED
    BY <1>1, <1>2, <1>3, <1>4, <1>5, <1>6, <1>7, <1>8, <1>9, <1>10, <1>11,
       <1>12, <1>13, <1>14, <1>15, <1>16, <1>17, <1>18, <1>19, <1>20, Zenon
       DEF ProcessMsg

LEMMA NextInv ==
    ASSUME FsmInv, [Next]_vars
    PROVE  FsmInv'
  <1>1. CASE \E m \in Messages : ProcessMsg(m)
    BY <1>1, MessageStep, OnTheWire, Zenon
  <1>2. CASE TickIdle  BY <1>2, TickIdleStep
  <1>3. CASE TickBusy  BY <1>3, TickBusyStep
  <1>4. CASE UNCHANGED vars
    BY <1>4 DEF FsmInv, TypeOK, AheadBlank, SessionSettled, FlashSum, Received, vars
  <1>5. QED  BY <1>1, <1>2, <1>3, <1>4, Zenon DEF Next, Tick

(* The invariant of the upgrade engine holds for every size of partition   *)
(* and block, every set of frames and any number of failed flash           *)
(* operations.                                                             *)
THEOREM FsmInvariant == Spec => []FsmInv
  BY InitInv, NextInv, PTL DEF Spec

(* The engine's variables keep their types: above all, the accumulated     *)
(* units of a block never exceed its buffer.                               *)
THEOREM TypeCorrect == Spec => []TypeOK
  <1>1. FsmInv => TypeOK  BY DEF FsmInv
  <1>2. QED  BY <1>1, FsmInvariant, PTL

(* No block of a session is ever programmed over anything but blank units. *)
THEOREM BlankAhead == Spec => []AheadBlank
  <1>1. FsmInv => AheadBlank  BY DEF FsmInv
  <1>2. QED  BY <1>1, FsmInvariant, PTL

-----------------------------------------------------------------------------
(* Only a REBOOT in REBOOT_PENDING writes the metadata.                    *)
LEMMA OnlyRebootRecords ==
    ASSUME NEW m \in Wire, ProcessMsg(m), ~Reboot(m)
    PROVE  meta' = meta
  <1>1. CASE Cancel(m) \/ IdleIgnore(m) \/ IdleReject(m) \/ IdleStart(m)
              \/ IdleEraseFails(m) \/ StartUnexpected(m) \/ Metadata(m)
    BY <1>1 DEF Cancel, IdleIgnore, IdleReject, IdleStart, IdleEraseFails,
                StartUnexpected, Metadata, Keep
  <1>2. CASE StartAgain(m)  BY <1>2 DEF StartAgain, Keep
  <1>3. CASE DataStart(m) \/ DataStartElsewhere(m) \/ Data(m) \/ DataOutOfOrder(m)
              \/ DataUnexpected(m)
    BY <1>3 DEF DataStart, DataStartElsewhere, Data, DataOutOfOrder,
                DataUnexpected, Keep
  <1>4. CASE BlockBad(m) \/ BlockWriteFails(m) \/ BlockMismatch(m) \/ BlockCommit(m)
    BY <1>4 DEF BlockBad, BlockWriteFails, BlockMismatch, BlockCommit, Keep
  <1>5. CASE VerifyUnexpected(m) \/ VerifyPass(m) \/ VerifyFail(m) \/ RebootUnexpected(m)
    BY <1>5 DEF VerifyUnexpected, VerifyPass, VerifyFail, RebootUnexpected, Keep
  <1>6. QED  BY <1>1, <1>2, <1>3, <1>4, <1>5, Zenon DEF ProcessMsg

LEMMA TickRecordsNothing == Tick => meta' = meta
  BY DEF Tick, TickIdle, TickBusy, Keep

LEMMA RecordsByReboot ==
    ASSUME [Next]_vars, meta' # meta
    PROVE  \E m \in Wire : Reboot(m)
  <1>1. UNCHANGED vars => meta' = meta  BY DEF vars
  <1>2. \E m \in Messages : ProcessMsg(m)
    BY <1>1, TickRecordsNothing, Zenon DEF Next
  <1>3. QED  BY <1>2, OnlyRebootRecords, OnTheWire, Zenon

LEMMA RebootCommits ==
    ASSUME FsmInv, NEW m \in Wire, Reboot(m), meta' # meta
    PROVE  /\ FirmwareSum(flash'[meta'.part], meta'.size) = meta'.sum
           /\ meta'.size \in 1 .. NBlocks * NFrames
           /\ meta'.size <= Received(ctx)
  <1>1. /\ st = "REBOOT_PENDING" /\ flash' = flash /\ meta' = NewMeta
    BY DEF Reboot, Rebooted, SaveMeta
  <1>2. meta'.part = target /\ meta'.size = ctx.size /\ meta'.sum = ctx.sum
    BY <1>1 DEF NewMeta
  <1>3. FirmwareSum(flash[target], ctx.size) = ctx.sum
    BY <1>1 DEF FsmInv, SessionSettled, FlashSum
  <1>4. QED  BY <1>1, <1>2, <1>3 DEF FsmInv, SessionSettled

(* Whatever the host sends and whichever flash operations fail, the record *)
(* of a firmware is written only when the flash holds its size and sum.    *)
THEOREM CommitsAreVerified == Spec => CommitVerified
  <1>1. FsmInv /\ [Next]_vars =>
            [meta' # meta =>
                /\ FirmwareSum(flash'[meta'.part], meta'.size) = meta'.sum
                /\ meta'.size \in 1 .. NBlocks * NFrames
                /\ meta'.size <= Received(ctx)]_vars
    BY RecordsByReboot, RebootCommits, Zenon
  <1>2. QED  BY <1>1, FsmInvariant, PTL DEF Spec, CommitVerified
=============================================================================
