------------------------------ MODULE BootProofs ------------------------------
(***************************************************************************)
(* The CAN bootloader in its two surroundings: one upgrade over the bus,   *)
(* and the board that goes on running afterwards.                          *)
(*                                                                         *)
(* One upgrade over the bus, for a firmware, blocks and partitions of any  *)
(* size and any number of lost and repeated frames, stalls of the tool and *)
(* failed flash operations.  The engine keeps its own invariant, FsmInv of *)
(* BootFsm, because whatever is on the bus is a frame of the tool.  The    *)
(* rest of LinkInv follows what only the order of the frames ensures: once *)
(* METADATA was accepted no START is left on the bus, so nothing erases a  *)
(* firmware that has been verified.                                        *)
(*                                                                         *)
(* Whose block the node takes: BlocksInv and LockStep say which requests   *)
(* to open a block, answers to them and ends of blocks may be on the bus   *)
(* together.  What the sums of blocks and of the file leave to chance is a *)
(* hypothesis there, SumsTell of BootLink.                                 *)
(*                                                                         *)
(* The boards run only whole, recorded firmware, and with two partitions   *)
(* the recorded one stays whole: for partitions and files of any size, any *)
(* number of files, of flash failures and of power failures, torn metadata *)
(* saves included.                                                         *)
(*                                                                         *)
(* That the firmware which runs is whole follows from the sum that Decide  *)
(* checks, but for a promotion, which is only checked before it begins.    *)
(* That the recorded partition stays whole follows from Apart: a session   *)
(* writes another one.  Apart ends with the commit, when metadata name the *)
(* partition just written; from there to the reset the engine must not     *)
(* erase again (Finished).                                                 *)
(***************************************************************************)
EXTENDS BootLink, BootLoader, BootFsmProofs, SumProofs, SequenceTheorems

(* The upgrade over the bus.                                               *)

FileSum == SumFunction(Image)

(* The frames that _run_flash makes of the file. *)
Calls == {Command(c) : c \in {"VERIFY", "REBOOT", "CANCEL"}}
BlockFrames ==
    UNION {{DataStartFrame(b), DataEndFrame(b)} \cup {DataFrame(b, f) : f \in Frames} :
           b \in 0 .. Blocks - 1}
LaterFrames == {MetadataFrame} \cup BlockFrames \cup Calls
HostFrames == {StartFrame} \cup LaterFrames

(* What the node has been told of the file. *)
Accepted == {"DATA_TRANSFER", "VERIFY_PENDING", "REBOOT_PENDING"}
Agreed ==
    /\ st # "IDLE" => ctx.size = Size
    /\ st \in Accepted => ctx.sum = FileSum

(* START comes first on the bus, and is gone once METADATA was accepted. *)
NoStart(q) == \A i \in 1 .. Len(q) : q[i].cmd # "START"
StartsFirst(q) ==
    \A i, j \in 1 .. Len(q) : i < j /\ q[j].cmd = "START" => q[i].cmd = "START"
InOrderOfSteps ==
    /\ StartsFirst(toNode)
    /\ st \in Accepted => NoStart(toNode)
    /\ host.phase = "begin" =>
         /\ st = "IDLE" /\ toNode = <<>>
         /\ \A i \in 1 .. Len(toHost) : toHost[i] = Beacon

(* A verified firmware stays.  The tool knows of it once the ACK is on its *)
(* way; from then on the node waits for REBOOT, or has left the session.   *)
SaysVerified(r) == r.kind = "ACK" /\ r.cmd = "VERIFY"
Verified ==
    \/ st = "REBOOT_PENDING"
    \/ host.phase \in {"REBOOT", "done"}
    \/ \E i \in 1 .. Len(toHost) : SaysVerified(toHost[i])
StaysVerified ==
    Verified =>
        /\ st \in {"REBOOT_PENDING", "IDLE"}
        /\ NoStart(toNode)
        /\ FirmwareSum(flash[target], Size) = FileSum

LinkInv ==
    /\ LinkTypeOK /\ FsmInv
    /\ toNode \in Seq(HostFrames)
    /\ Agreed /\ InOrderOfSteps /\ StaysVerified

-----------------------------------------------------------------------------
(* The file and the frames that the tool makes of it.                      *)

LEMMA RoundUp ==
    ASSUME NEW s \in Nat \ {0}, NEW n \in Nat \ {0}
    PROVE  (s + n - 1) \div n \in Nat \ {0}
  OBVIOUS

LEMMA FileTypes ==
    /\ IsFiniteSet(DOMAIN Image) /\ Size \in 1 .. NBlocks * NFrames
    /\ Size \in Nat \ {0} /\ FileSum \in Nat /\ Blocks \in Nat \ {0}
  <1>1. PICK n \in 1 .. NBlocks * NFrames : DOMAIN Image = 0 .. n - 1
    BY ImageAssumption
  <1>2. NBlocks * NFrames \in Nat  BY Products, SizesAssumption
  <1>3. n \in Nat \ {0}  BY <1>1, <1>2
  <1>4. IsFiniteSet(0 .. n - 1) /\ Cardinality(0 .. n - 1) = n
    BY <1>3, FS_Interval
  <1>5. Size = n  BY <1>1, <1>4 DEF Size
  <1>6. IsFiniteSet(DOMAIN Image)  BY <1>1, <1>4
  <1>7. FileSum \in Nat
    BY <1>6, SumIsNat, ImageAssumption DEF FileSum, SumFunction
  <1>8. Blocks \in Nat \ {0}
    BY <1>3, <1>5, RoundUp, SizesAssumption DEF Blocks
  <1>9. QED  BY <1>1, <1>3, <1>5, <1>6, <1>7, <1>8

LEMMA BlockTypesOfFile ==
    ASSUME NEW b \in Nat
    PROVE  BlockOf(b) \in [Frames -> Nat] /\ BlockSum(BlockOf(b)) \in Nat
  <1>1. \A u : UnitAt(u) \in Nat  BY ImageAssumption DEF UnitAt
  <1>2. BlockOf(b) \in [Frames -> Nat]  BY <1>1 DEF BlockOf
  <1>3. IsFiniteSet(Frames)  BY FS_Interval, SizesAssumption DEF Frames
  <1>4. SumFunction(BlockOf(b)) \in Nat
    <2>1. DOMAIN BlockOf(b) = Frames /\ \A f \in Frames : BlockOf(b)[f] \in Nat
      BY <1>2
    <2>2. QED  BY <1>3, <2>1, SumIsNat DEF SumFunction
  <1>5. BlockSum(BlockOf(b)) \in Nat  BY <1>4, SizesAssumption DEF BlockSum
  <1>6. QED  BY <1>2, <1>5

LEMMA FramesOnWire == HostFrames \subseteq Wire
  <1>1. StartFrame \in Wire /\ MetadataFrame \in Wire
    BY FileTypes DEF StartFrame, MetadataFrame, FileSum, Wire
  <1>2. Calls \subseteq Wire  BY DEF Calls, Command, Wire
  <1>3. ASSUME NEW b \in 0 .. Blocks - 1
        PROVE  /\ DataStartFrame(b) \in Wire /\ DataEndFrame(b) \in Wire
               /\ \A f \in Frames : DataFrame(b, f) \in Wire
    <2>1. b \in Nat  BY FileTypes
    <2>2. NFrames - 1 \in Frames /\ Frames \subseteq Nat  BY SizesAssumption DEF Frames
    <2>3. DataStartFrame(b) \in Wire  BY <2>1 DEF DataStartFrame, Wire
    <2>4. DataEndFrame(b) \in Wire
      BY <2>1, <2>2, BlockTypesOfFile DEF DataEndFrame, Wire
    <2>5. \A f \in Frames : DataFrame(b, f) \in Wire
      BY <2>1, <2>2, BlockTypesOfFile DEF DataFrame, Wire
    <2>6. QED  BY <2>3, <2>4, <2>5
  <1>4. BlockFrames \subseteq Wire  BY <1>3 DEF BlockFrames
  <1>5. QED  BY <1>1, <1>2, <1>4 DEF HostFrames, LaterFrames

(* Only StartFrame announces a size, only MetadataFrame a sum. *)
LEMMA WhatFramesSay ==
    /\ \A m \in HostFrames : m.cmd = "START" => m = StartFrame
    /\ \A m \in HostFrames : m.cmd = "METADATA" => m = MetadataFrame
    /\ \A m \in LaterFrames : m.cmd # "START"
    /\ LaterFrames \subseteq HostFrames
    /\ StartFrame.size = Size /\ MetadataFrame.sum = FileSum
  <1>1. \A m \in LaterFrames : m.cmd # "START" /\ (m.cmd = "METADATA" => m = MetadataFrame)
    <2>1. \A m \in Calls : m.cmd \in {"VERIFY", "REBOOT", "CANCEL"}  BY DEF Calls, Command
    <2>2. \A m \in BlockFrames : m.cmd \in {"DATA_START", "DATA", "DATA_END"}
      BY DEF BlockFrames, DataStartFrame, DataEndFrame, DataFrame
    <2>3. MetadataFrame.cmd = "METADATA"  BY DEF MetadataFrame
    <2>4. QED  BY <2>1, <2>2, <2>3 DEF LaterFrames
  <1>2. StartFrame.cmd = "START" /\ StartFrame.size = Size /\ MetadataFrame.sum = FileSum
    BY DEF StartFrame, MetadataFrame, FileSum
  <1>3. QED  BY <1>1, <1>2 DEF HostFrames

-----------------------------------------------------------------------------
(* The bus.                                                                *)

(* A frame that is carried is the only one that may be new.                *)
LEMMA Carried ==
    ASSUME NEW S, NEW q \in Seq(S), NEW m \in S, NEW next, Carry(q, m, next)
    PROVE  /\ next \in Seq(S) /\ Len(next) >= Len(q)
           /\ \A i \in 1 .. Len(next) :
                IF i <= Len(q) THEN next[i] = q[i] ELSE next[i] = m
  <1> DEFINE Extends(n) ==
               /\ n \in Seq(S) /\ Len(n) >= Len(q)
               /\ \A i \in 1 .. Len(n) :
                    IF i <= Len(q) THEN n[i] = q[i] ELSE n[i] = m
  <1>1. next \in {q, Append(q, m), q \o <<m, m>>}  BY DEF Carry
  <1>2. Extends(q)  OBVIOUS
  <1>3. Extends(Append(q, m))  OBVIOUS
  <1>4. Extends(q \o <<m, m>>)
    <2>1. /\ q \o <<m, m>> \in Seq(S) /\ Len(q \o <<m, m>>) = Len(q) + 2
          /\ \A i \in 1 .. Len(q) + 2 :
               (q \o <<m, m>>)[i] = IF i <= Len(q) THEN q[i] ELSE m
      OBVIOUS
    <2> DEFINE n == q \o <<m, m>>
    <2> HIDE DEF n
    <2>2. /\ n \in Seq(S) /\ Len(n) = Len(q) + 2 /\ Len(q) \in Nat
          /\ \A i \in 1 .. Len(q) + 2 : n[i] = IF i <= Len(q) THEN q[i] ELSE m
      BY <2>1 DEF n
    <2>3. Extends(n)  BY <2>2
    <2>4. QED  BY <2>3 DEF n
  <1> HIDE DEF Extends
  <1>5. Extends(next)  BY <1>1, <1>2, <1>3, <1>4
  <1>6. QED  BY <1>5 DEF Extends

LEMMA SlipsBounded ==
    ASSUME slips \in 0 .. MaxSlips, NEW q, NEW m, NEW next, Carry(q, m, next)
    PROVE  slips' \in 0 .. MaxSlips
  BY LinkAssumption DEF Carry

(* A frame that the tool sends comes behind those already on the bus.      *)
LEMMA SentLast ==
    ASSUME toNode \in Seq(HostFrames), NEW m \in HostFrames, Send(m)
    PROVE  /\ toNode' \in Seq(HostFrames) /\ Len(toNode') >= Len(toNode)
           /\ \A i \in 1 .. Len(toNode') :
                IF i <= Len(toNode) THEN toNode'[i] = toNode[i] ELSE toNode'[i] = m
  BY Carried DEF Send

(* Every frame but START keeps START in front.                             *)
LEMMA SentInOrder ==
    ASSUME toNode \in Seq(HostFrames), NEW m \in LaterFrames, Send(m),
           StartsFirst(toNode)
    PROVE  /\ toNode' \in Seq(HostFrames) /\ StartsFirst(toNode')
           /\ NoStart(toNode) => NoStart(toNode')
  <1>1. m \in HostFrames /\ m.cmd # "START"  BY WhatFramesSay
  <1>2. /\ toNode' \in Seq(HostFrames) /\ Len(toNode') >= Len(toNode)
        /\ \A i \in 1 .. Len(toNode') :
             IF i <= Len(toNode) THEN toNode'[i] = toNode[i] ELSE toNode'[i] = m
    BY <1>1, SentLast
  <1>3. \A j \in 1 .. Len(toNode') : toNode'[j].cmd = "START" => j <= Len(toNode)
    BY <1>1, <1>2
  <1>4. StartsFirst(toNode')
    BY <1>2, <1>3 DEF StartsFirst
  <1>5. NoStart(toNode) => NoStart(toNode')
    BY <1>2, <1>3 DEF NoStart
  <1>6. QED  BY <1>2, <1>4, <1>5

LEMMA TailFacts ==
    ASSUME NEW S, NEW q \in Seq(S), q # <<>>
    PROVE  /\ Head(q) \in S /\ Head(q) = q[1] /\ 1 \in 1 .. Len(q)
           /\ Tail(q) \in Seq(S)
           /\ \A i \in 1 .. Len(Tail(q)) : Tail(q)[i] = q[i + 1] /\ i + 1 \in 1 .. Len(q)
  OBVIOUS

LEMMA TakenInOrder ==
    ASSUME NEW q \in Seq(HostFrames), q # <<>>, StartsFirst(q)
    PROVE  /\ StartsFirst(Tail(q))
           /\ NoStart(q) => NoStart(Tail(q)) /\ Head(q).cmd # "START"
           /\ Head(q).cmd # "START" => NoStart(Tail(q))
  <1>1. /\ Head(q) = q[1] /\ 1 \in 1 .. Len(q) /\ Len(Tail(q)) \in Nat /\ Len(q) \in Nat
        /\ \A i \in 1 .. Len(Tail(q)) : Tail(q)[i] = q[i + 1] /\ i + 1 \in 1 .. Len(q)
    BY TailFacts
  <1>2. StartsFirst(Tail(q))
    BY <1>1 DEF StartsFirst
  <1>3. NoStart(q) => NoStart(Tail(q)) /\ Head(q).cmd # "START"
    BY <1>1 DEF NoStart
  <1>4. Head(q).cmd # "START" => NoStart(Tail(q))
    BY <1>1 DEF StartsFirst, NoStart
  <1>5. QED  BY <1>2, <1>3, <1>4

-----------------------------------------------------------------------------
(* What the node says.                                                     *)

LEMMA ReplyTypes ==
    /\ Beacon \in Replies
    /\ \A c \in Commands \ {"DATA_START", "DATA"} : Ack(c) \in Replies
    /\ \A i \in 0 .. NBlocks : AckAt("DATA_START", i) \in Replies
    /\ \A c \in Commands, e \in Refusals : Nack(c, e) \in Replies
    /\ Nack("START", "INVALID_FRAME") \in Replies
    /\ \A c \in {"DATA_START", "DATA", "DATA_END"}, e \in ResyncCodes, i \in 0 .. NBlocks :
         NackAt(c, e, i) \in Replies
  BY DEF Beacon, Ack, AckAt, Nack, NackAt, Replies

LEMMA MessageReply ==
    ASSUME TypeOK, NEW m \in Wire, ProcessMsg(m)
    PROVE  resp' = Silent \/ resp' \in Replies
  <1>1. ctx.block \in 0 .. NBlocks  BY DEF TypeOK, Contexts
  <1>2. m.cmd \in Commands  BY DEF Wire, Commands
  <1>3. StartError(m) \in Refusals \cup {"INVALID_FRAME"}
    BY DEF StartError, Refusals
  <1>4. {"CANCEL", "START", "METADATA", "DATA_END", "VERIFY", "REBOOT"}
            \subseteq Commands \ {"DATA_START", "DATA"}
    BY DEF Commands
  <1>5. {"FLASH_ERASE_ERR", "INVALID_STATE", "BLOCK_CHECKSUM", "FLASH_WRITE_ERR",
         "FLASH_VERIFY_ERR", "CHECKSUM_ERR"} \subseteq Refusals
    BY DEF Refusals
  <1>6. CASE Cancel(m) \/ IdleIgnore(m) \/ IdleStart(m) \/ StartAgain(m) \/ Metadata(m)
    BY <1>4, <1>6, ReplyTypes
       DEF Cancel, IdleIgnore, IdleStart, StartAgain, Metadata, Answer
  <1>7. CASE IdleReject(m)
    BY <1>3, <1>4, <1>7, ReplyTypes DEF IdleReject, Answer
  <1>8. CASE IdleEraseFails(m) \/ StartUnexpected(m) \/ DataUnexpected(m)
             \/ VerifyUnexpected(m) \/ RebootUnexpected(m)
    BY <1>2, <1>4, <1>5, <1>8, ReplyTypes
       DEF IdleEraseFails, StartUnexpected, DataUnexpected, VerifyUnexpected,
           RebootUnexpected, Answer
  <1>9. CASE DataStart(m) \/ DataStartElsewhere(m) \/ Data(m) \/ DataOutOfOrder(m)
    BY <1>1, <1>9, ReplyTypes
       DEF DataStart, DataStartElsewhere, Data, DataOutOfOrder, ResyncCodes, Answer
  <1>10. CASE BlockBad(m) \/ BlockWriteFails(m) \/ BlockMismatch(m) \/ BlockCommit(m)
    BY <1>4, <1>5, <1>10, ReplyTypes
       DEF BlockBad, BlockWriteFails, BlockMismatch, BlockCommit, Answer
  <1>11. CASE VerifyPass(m) \/ VerifyFail(m) \/ Reboot(m)
    BY <1>4, <1>5, <1>11, ReplyTypes DEF VerifyPass, VerifyFail, Reboot, Rebooted, Answer
  <1>12. QED
    BY <1>6, <1>7, <1>8, <1>9, <1>10, <1>11, Zenon DEF ProcessMsg

LEMMA TickReply ==
    ASSUME TypeOK, Tick
    PROVE  (resp' = Silent \/ resp' \in Replies) /\ ~SaysVerified(resp')
  <1>1. ctx.block \in 0 .. NBlocks  BY DEF TypeOK, Contexts
  <1>2. resp' \in {Silent, Beacon, NackAt("DATA_END", "TIMEOUT", ctx.block)}
    BY DEF Tick, TickIdle, TickBusy, Answer
  <1>3. NackAt("DATA_END", "TIMEOUT", ctx.block) \in Replies
    BY <1>1, ReplyTypes DEF ResyncCodes
  <1>4. QED
    BY <1>2, <1>3, ReplyTypes DEF SaysVerified, Silent, Beacon, NackAt

-----------------------------------------------------------------------------
(* The engine's steps, seen from the session.                              *)

Waits == {"REBOOT_PENDING", "IDLE"}
(* What a frame of the tool does to the session.                           *)
Effect(m) ==
    /\ target' = target
    /\ Agreed'
    /\ st' \in Accepted => st \in Accepted \/ m.cmd = "METADATA"
    /\ SaysVerified(resp') => st' = "REBOOT_PENDING"
    /\ st \in Waits /\ m.cmd # "START" => st' \in Waits /\ flash' = flash

LEMMA EndEffect ==
    ASSUME NEW m, NEW c, NEW r, Answer("IDLE", c, r), ~SaysVerified(r), target' = target,
           st \in Waits /\ m.cmd # "START" => flash' = flash
    PROVE  Effect(m)
  BY DEF Effect, Answer, Agreed, Accepted, Waits

LEMMA StayEffect ==
    ASSUME Agreed, NEW m, NEW c, NEW r, Answer(st, c, r), ~SaysVerified(r),
           c.size = ctx.size, c.sum = ctx.sum, Keep
    PROVE  Effect(m)
  BY DEF Effect, Answer, Agreed, Keep

LEMMA OtherReplies ==
    /\ ~SaysVerified(Silent)
    /\ \A c : c # "VERIFY" => ~SaysVerified(Ack(c))
    /\ \A c, i : c # "VERIFY" => ~SaysVerified(AckAt(c, i))
    /\ \A c, e : ~SaysVerified(Nack(c, e))
    /\ \A c, e, i : ~SaysVerified(NackAt(c, e, i))
  BY DEF SaysVerified, Silent, Ack, AckAt, Nack, NackAt

LEMMA StartEffect ==
    ASSUME FsmInv, Agreed, NEW m \in HostFrames, IdleStart(m) \/ StartAgain(m) \/ Metadata(m)
    PROVE  Effect(m)
  <1>1. TypeOK /\ Heard \in Contexts /\ Heard.size = ctx.size /\ Heard.sum = ctx.sum
    BY HeardType DEF FsmInv
  <1>2. m.cmd = "START" => m.size = Size  BY WhatFramesSay
  <1>3. m.cmd = "METADATA" => m.sum = FileSum  BY WhatFramesSay
  <1>4. Negotiated(m).size = m.size
    <2>1. Reset0(Heard) \in Contexts  BY <1>1, ResetType
    <2>2. QED  BY <2>1 DEF Negotiated, Contexts
  <1>5. CASE IdleStart(m)
    BY <1>2, <1>4, <1>5, OtherReplies DEF IdleStart, Answer, Effect, Agreed, Accepted
  <1>6. CASE StartAgain(m) /\ Offer(m)
    BY <1>2, <1>4, <1>6, OtherReplies
       DEF StartAgain, Answer, Effect, Agreed, Accepted, Waits, Keep
  <1>7. CASE StartAgain(m) /\ ~Offer(m)
    BY <1>1, <1>7, StayEffect, OtherReplies DEF StartAgain, Answer
  <1>8. CASE Metadata(m)
    <2> DEFINE c == [Heard EXCEPT !.sum = m.sum]
    <2>1. c.size = ctx.size /\ c.sum = FileSum
      BY <1>1, <1>3, <1>8 DEF Contexts, Metadata
    <2> HIDE DEF c
    <2>2. Metadata(m) /\ st' = "DATA_TRANSFER" /\ ctx' = c /\ resp' = Ack("METADATA") /\ Keep
      BY <1>8 DEF Metadata, Answer, c
    <2>3. QED
      BY <2>1, <2>2, OtherReplies DEF Metadata, Effect, Agreed, Waits, Keep
  <1>9. QED  BY <1>5, <1>6, <1>7, <1>8

LEMMA DataEffect ==
    ASSUME FsmInv, Agreed, NEW m \in HostFrames,
           DataStart(m) \/ DataStartElsewhere(m) \/ Data(m) \/ DataOutOfOrder(m)
    PROVE  Effect(m)
  <1>1. TypeOK /\ Heard \in Contexts /\ Heard.size = ctx.size /\ Heard.sum = ctx.sum
    BY HeardType DEF FsmInv
  <1>2. CASE DataStart(m)
    <2> DEFINE c == [Heard EXCEPT !.acc = 0, !.seq = 0, !.buf = NoData,
                                  !.active = TRUE, !.blockAge = 0]
    <2>1. c.size = ctx.size /\ c.sum = ctx.sum  BY <1>1 DEF Contexts
    <2>2. Answer(st, c, AckAt("DATA_START", ctx.block)) /\ Keep  BY <1>2 DEF DataStart
    <2> HIDE DEF c
    <2>3. QED  BY <2>1, <2>2, StayEffect, OtherReplies
  <1>3. CASE DataStartElsewhere(m)
    BY <1>1, <1>3, StayEffect, OtherReplies DEF DataStartElsewhere
  <1>4. CASE Data(m)
    <2> DEFINE d == Stored(Heard, m.unit)
               c == [d EXCEPT !.seq = d.seq + 1, !.active = TRUE, !.blockAge = 0]
    <2>1. m.unit \in Nat  BY <1>4, FramesOnWire, WireFields DEF Data
    <2>2. d \in Contexts /\ d.size = ctx.size /\ d.sum = ctx.sum
      BY <1>1, <2>1, StoredType
    <2>3. Answer(st, c, Silent) /\ Keep  BY <1>4 DEF Data
    <2> HIDE DEF d
    <2>4. c.size = ctx.size /\ c.sum = ctx.sum  BY <2>2 DEF Contexts
    <2> HIDE DEF c
    <2>5. QED  BY <2>3, <2>4, StayEffect, OtherReplies
  <1>5. CASE DataOutOfOrder(m)
    <2> DEFINE c == [Heard EXCEPT !.acc = 0, !.active = FALSE]
    <2>1. c.size = ctx.size /\ c.sum = ctx.sum  BY <1>1 DEF Contexts
    <2>2. Answer(st, c, NackAt("DATA", "INVALID_FRAME", ctx.block)) /\ Keep
      BY <1>5 DEF DataOutOfOrder
    <2> HIDE DEF c
    <2>3. QED  BY <2>1, <2>2, StayEffect, OtherReplies
  <1>6. QED  BY <1>2, <1>3, <1>4, <1>5

LEMMA BlockEffect ==
    ASSUME FsmInv, Agreed, NEW m \in HostFrames,
           BlockBad(m) \/ BlockWriteFails(m) \/ BlockMismatch(m) \/ BlockCommit(m)
    PROVE  Effect(m)
  <1>1. /\ TypeOK /\ m \in Wire /\ BlockEnds(m) /\ st = "DATA_TRANSFER"
        /\ target' = target /\ st \notin Waits
    BY FramesOnWire DEF FsmInv, BlockBad, BlockWriteFails, BlockMismatch, BlockCommit,
                        BlockEnds, Waits, Keep
  <1>2. /\ Tailed(m) \in Contexts /\ Tailed(m).size = ctx.size /\ Tailed(m).sum = ctx.sum
        /\ ctx.block < NBlocks
    BY <1>1, BlockTypes
  <1>3. CASE BlockBad(m)
    <2> DEFINE c == [Tailed(m) EXCEPT !.acc = 0]
    <2>1. c.size = ctx.size /\ c.sum = ctx.sum  BY <1>2 DEF Contexts
    <2>2. Answer(st, c, Nack("DATA_END", "BLOCK_CHECKSUM")) /\ Keep  BY <1>3 DEF BlockBad
    <2> HIDE DEF c
    <2>3. QED  BY <2>1, <2>2, StayEffect, OtherReplies
  <1>4. CASE BlockWriteFails(m) \/ BlockMismatch(m)
    BY <1>1, <1>4, EndEffect, OtherReplies DEF BlockWriteFails, BlockMismatch
  <1>5. CASE BlockCommit(m)
    <2>1. NextBlock.size = ctx.size /\ NextBlock.sum = ctx.sum
      BY <1>1, <1>2, NextBlockType
    <2>2. /\ ctx' = NextBlock /\ resp' = Ack("DATA_END")
          /\ st' \in {"VERIFY_PENDING", "DATA_TRANSFER"}
      BY <1>1, <1>5 DEF BlockCommit, Answer
    <2>3. QED
      BY <1>1, <2>1, <2>2, OtherReplies DEF Effect, Agreed, Accepted
  <1>6. QED  BY <1>3, <1>4, <1>5

LEMMA EndingEffect ==
    ASSUME FsmInv, Agreed, NEW m \in HostFrames,
           VerifyPass(m) \/ VerifyFail(m) \/ Reboot(m)
    PROVE  Effect(m)
  <1>1. Heard.size = ctx.size /\ Heard.sum = ctx.sum  BY HeardType DEF FsmInv
  <1>2. CASE VerifyPass(m)
    <2>1. /\ st = "VERIFY_PENDING" /\ st' = "REBOOT_PENDING" /\ ctx' = Heard
          /\ target' = target
      BY <1>2 DEF VerifyPass, Answer, Keep
    <2>2. QED  BY <1>1, <2>1 DEF Effect, Agreed, Accepted, Waits
  <1>3. CASE VerifyFail(m)
    BY <1>3, EndEffect, OtherReplies DEF VerifyFail, Keep
  <1>4. CASE Reboot(m)
    BY <1>4, EndEffect, OtherReplies DEF Reboot, Rebooted
  <1>5. QED  BY <1>2, <1>3, <1>4

LEMMA MessageEffect ==
    ASSUME FsmInv, Agreed, NEW m \in HostFrames, ProcessMsg(m)
    PROVE  Effect(m)
  <1>1. Heard.size = ctx.size /\ Heard.sum = ctx.sum  BY HeardType DEF FsmInv
  <1>2. CASE Cancel(m) \/ IdleIgnore(m) \/ IdleReject(m) \/ IdleEraseFails(m)
    BY <1>2, EndEffect, OtherReplies
       DEF Cancel, IdleIgnore, IdleReject, IdleEraseFails, Keep
  <1>3. CASE IdleStart(m) \/ StartAgain(m) \/ Metadata(m)  BY <1>3, StartEffect
  <1>4. CASE StartUnexpected(m) \/ DataUnexpected(m) \/ VerifyUnexpected(m)
             \/ RebootUnexpected(m)
    <2>1. Answer(st, Heard, Nack(m.cmd, "INVALID_STATE")) /\ Keep
      BY <1>4 DEF StartUnexpected, DataUnexpected, VerifyUnexpected, RebootUnexpected
    <2>2. QED  BY <1>1, <2>1, StayEffect, OtherReplies
  <1>5. CASE DataStart(m) \/ DataStartElsewhere(m) \/ Data(m) \/ DataOutOfOrder(m)
    BY <1>5, DataEffect
  <1>6. CASE BlockBad(m) \/ BlockWriteFails(m) \/ BlockMismatch(m) \/ BlockCommit(m)
    BY <1>6, BlockEffect
  <1>7. CASE VerifyPass(m) \/ VerifyFail(m) \/ Reboot(m)  BY <1>7, EndingEffect
  <1>8. QED
    BY <1>2, <1>3, <1>4, <1>5, <1>6, <1>7, Zenon DEF ProcessMsg

LEMMA TickEffect ==
    ASSUME FsmInv, Agreed, Tick
    PROVE  /\ FsmInv' /\ target' = target /\ flash' = flash /\ meta' = meta
           /\ Agreed' /\ st' \in {st, "IDLE"}
           /\ st = "IDLE" => resp' \in {Silent, Beacon}
  <1>1. FsmInv'  BY TickIdleStep, TickBusyStep DEF Tick
  <1>2. TypeOK  BY DEF FsmInv
  <1>3. target' = target /\ flash' = flash /\ meta' = meta
    BY DEF Tick, TickIdle, TickBusy, Keep
  <1>4. st' \in {st, "IDLE"} /\ (st = "IDLE" => resp' \in {Silent, Beacon})
    BY DEF Tick, TickIdle, TickBusy, Answer
  <1>5. Agreed'
    <2>1. CASE st' = "IDLE"  BY <2>1 DEF Agreed, Accepted
    <2>2. CASE st' # "IDLE"
      <3>1. ctx' \in {Aged, Dropped(Aged)} /\ st' = st
        BY <1>4, <2>2 DEF Tick, TickIdle, TickBusy, Answer
      <3>2. ctx'.size = ctx.size /\ ctx'.sum = ctx.sum
        BY <1>2, <3>1, AgedType, DroppedType
      <3>3. QED  BY <3>1, <3>2 DEF Agreed
    <2>3. QED  BY <2>1, <2>2
  <1>6. QED  BY <1>1, <1>3, <1>4, <1>5

-----------------------------------------------------------------------------
(* The tool's steps.                                                       *)

Hosts ==
    [phase : Phases, block : 0 .. Blocks - 1, frame : 0 .. NFrames - 1,
     tries : 0 .. MaxRetries, quiet : {0, 1}, waited : 0 .. HostWait]

LEMMA LinkTypes ==
    LinkTypeOK <=> /\ TypeOK /\ host \in Hosts /\ gone \in BOOLEAN
                   /\ slips \in 0 .. MaxSlips /\ stalls \in 0 .. MaxStalls
                   /\ toNode \in Seq(Wire) /\ toHost \in Seq(Replies)
  BY DEF LinkTypeOK, Hosts

LEMMA ToolZeros ==
    /\ 0 \in 0 .. Blocks - 1 /\ 0 \in 0 .. NFrames - 1 /\ 0 \in 0 .. MaxRetries
    /\ 0 \in {0, 1} /\ 1 \in {0, 1} /\ 0 \in 0 .. HostWait
    /\ {"begin", "START", "METADATA", "DATA_START", "DATA", "POLL", "DATA_END",
        "VERIFY", "REBOOT", "done", "failed", "refused"} \subseteq Phases
  BY FileTypes, SizesAssumption, LinkAssumption DEF Phases, Ended

(* What the tool may send at any time.                                     *)
LEMMA ToolFrames ==
    /\ MetadataFrame \in LaterFrames
    /\ \A c \in {"VERIFY", "REBOOT", "CANCEL"} : Command(c) \in LaterFrames
    /\ \A b \in 0 .. Blocks - 1 :
         /\ DataStartFrame(b) \in LaterFrames /\ DataEndFrame(b) \in LaterFrames
         /\ \A f \in Frames : DataFrame(b, f) \in LaterFrames
  BY DEF LaterFrames, Calls, BlockFrames

(* Every step of the tool but the first.                                   *)
Reads ==
    \/ toHost' = toHost
    \/ toHost # <<>> /\ toHost' = Tail(toHost)
Sends == UNCHANGED <<toNode, slips>> \/ \E m \in LaterFrames : Send(m)
Moves ==
    /\ host' \in Hosts /\ host'.phase # "begin"
    /\ host'.phase \in {"REBOOT", "done"} => Verified
    /\ Sends
    /\ Reads
    /\ UNCHANGED <<vars, stalls, gone>>

Early == {"METADATA", "DATA_START", "DATA", "POLL", "DATA_END", "VERIFY", "failed", "refused"}

LEMMA ReplySays ==
    ASSUME toHost \in Seq(Replies), toHost # <<>>
    PROVE  /\ Reply \in Replies
           /\ Acks("VERIFY") => Verified
  <1>1. Reply \in Replies /\ Reply = toHost[1] /\ 1 \in 1 .. Len(toHost)
    BY TailFacts DEF Reply
  <1>2. Acks("VERIFY") => SaysVerified(toHost[1])  BY <1>1 DEF Acks, SaysVerified
  <1>3. QED  BY <1>1, <1>2 DEF Verified

LEMMA GoesTo ==
    ASSUME host \in Hosts, NEW b \in Nat, NEW tries \in 0 .. MaxRetries, GoTo(b, tries)
    PROVE  host' \in Hosts /\ host'.phase \in Early /\ Sends
  <1>1. CASE b < Blocks
    <2>1. b \in 0 .. Blocks - 1  BY <1>1, FileTypes
    <2>2. /\ host' = [host EXCEPT !.phase = "DATA_START", !.block = b,
                                  !.tries = tries, !.frame = 0, !.quiet = 0, !.waited = 0]
          /\ Send(DataStartFrame(b))
      BY <1>1 DEF GoTo
    <2>3. host' \in Hosts /\ host'.phase = "DATA_START"
      BY <2>1, <2>2, ToolZeros DEF Hosts
    <2>4. Sends  BY <2>1, <2>2, ToolFrames DEF Sends
    <2>5. QED  BY <2>3, <2>4 DEF Early
  <1>2. CASE ~(b < Blocks)
    <2>1. /\ host' = [host EXCEPT !.phase = "VERIFY", !.quiet = 0, !.waited = 0]
          /\ Send(Command("VERIFY"))
      BY <1>2 DEF GoTo
    <2>2. host' \in Hosts /\ host'.phase = "VERIFY"  BY <2>1, ToolZeros DEF Hosts
    <2>3. Sends  BY <2>1, ToolFrames DEF Sends
    <2>4. QED  BY <2>2, <2>3 DEF Early
  <1>3. QED  BY <1>1, <1>2

LEMMA Stops ==
    ASSUME host \in Hosts, NEW how \in Ended, Stop(how)
    PROVE  host' \in Hosts /\ host'.phase = how /\ Sends
  BY DEF Stop, Hosts, Phases, Sends

LEMMA Ignores ==
    ASSUME host \in Hosts, Ignore
    PROVE  host' \in Hosts /\ host'.phase = host.phase /\ Sends
  BY ToolZeros DEF Ignore, Hosts, Sends

LEMMA EarlyMoves ==
    ASSUME host' \in Hosts, host'.phase \in Early, Sends,
           Reads, UNCHANGED <<vars, stalls, gone>>
    PROVE  Moves
  BY DEF Moves, Early

LEMMA HandshakeMoves ==
    ASSUME LinkInv, NEW c \in {"START", "METADATA", "VERIFY"}, NEW next \in Phases,
           NEW frame \in LaterFrames, Handshake(c, next, frame), next # "begin",
           next \in {"REBOOT", "done"} => c = "VERIFY"
    PROVE  Moves
  <1>1. host \in Hosts /\ toHost \in Seq(Replies)  BY LinkTypes DEF LinkInv
  <1>2. /\ host.phase = c /\ toHost # <<>> /\ Reads
        /\ UNCHANGED <<vars, stalls, gone>>
    BY DEF Handshake, Waiting, Take, Reads, Node
  <1>3. CASE Acks(c)
    <2>1. /\ host' = [host EXCEPT !.phase = next, !.quiet = 0, !.waited = 0]
          /\ Send(frame)
      BY <1>3 DEF Handshake
    <2>2. host' \in Hosts /\ host'.phase = next  BY <1>1, <2>1, ToolZeros DEF Hosts
    <2>3. next \in {"REBOOT", "done"} => Verified  BY <1>1, <1>2, <1>3, ReplySays
    <2>4. Sends  BY <2>1 DEF Sends
    <2>5. QED  BY <1>2, <2>2, <2>3, <2>4 DEF Moves
  <1>4. CASE ~Acks(c)
    <2>1. /\ host' = [host EXCEPT !.quiet = 0, !.waited = 0]
          /\ UNCHANGED <<toNode, slips>>
      BY <1>4 DEF Handshake
    <2>2. host' \in Hosts /\ host'.phase = c
      BY <1>1, <1>2, <2>1, ToolZeros DEF Hosts
    <2>3. Sends  BY <2>1 DEF Sends
    <2>4. QED  BY <1>2, <2>2, <2>3 DEF Moves
  <1>5. QED  BY <1>3, <1>4

LEMMA HandshakesMove ==
    ASSUME LinkInv, HostStart \/ HostMetadata \/ HostVerify
    PROVE  Moves
  <1>1. CASE HostStart
    BY <1>1, HandshakeMoves, ToolFrames, ToolZeros DEF HostStart
  <1>2. CASE HostMetadata
    BY <1>2, HandshakeMoves, ToolFrames, ToolZeros DEF HostMetadata
  <1>3. CASE HostVerify
    BY <1>3, HandshakeMoves, ToolFrames, ToolZeros DEF HostVerify
  <1>4. QED  BY <1>1, <1>2, <1>3

(* A reply that makes the tool change its block names one.                 *)
LEMMA NamedBlock ==
    ASSUME NEW r \in Replies, r.kind = "NACK", r.code \in ResyncCodes,
           r.cmd \in {"DATA_START", "DATA_END"} \/ "block" \in DOMAIN r
    PROVE  r.block \in Nat
  <1>1. CASE r \in [kind : {"NACK"}, cmd : {"DATA_START", "DATA", "DATA_END"},
                    code : ResyncCodes, block : 0 .. NBlocks]
    BY <1>1, SizesAssumption
  <1>2. CASE r \in [kind : {"NACK"}, cmd : Commands, code : Refusals]
    BY <1>2 DEF Refusals, ResyncCodes
  <1>3. CASE r \in [kind : {"NACK"}, cmd : {"START"}, code : {"INVALID_FRAME"}]
    BY <1>3
  <1>4. QED  BY <1>1, <1>2, <1>3 DEF Replies

LEMMA DataStartMoves ==
    ASSUME LinkInv, HostDataStart
    PROVE  Moves
  <1>1. host \in Hosts /\ toHost \in Seq(Replies)  BY LinkTypes DEF LinkInv
  <1>2. /\ host.phase = "DATA_START" /\ toHost # <<>> /\ Reads
        /\ UNCHANGED <<vars, stalls, gone>>
    BY DEF HostDataStart, Waiting, Take, Reads, Node
  <1>3. Reply \in Replies  BY <1>1, <1>2, ReplySays
  <1>4. \/ /\ host' = [host EXCEPT !.phase = "DATA", !.quiet = 0, !.waited = 0]
           /\ UNCHANGED <<toNode, slips>>
        \/ Answers("DATA_START") /\ Reseek /\ GoTo(Reply.block, 0)
        \/ Stop("refused")
        \/ Ignore
    BY DEF HostDataStart
  <1>5. CASE /\ host' = [host EXCEPT !.phase = "DATA", !.quiet = 0, !.waited = 0]
             /\ UNCHANGED <<toNode, slips>>
    <2>1. host' \in Hosts /\ host'.phase = "DATA"  BY <1>1, <1>5, ToolZeros DEF Hosts
    <2>2. QED  BY <1>2, <1>5, <2>1, EarlyMoves DEF Early, Sends
  <1>6. CASE Answers("DATA_START") /\ Reseek /\ GoTo(Reply.block, 0)
    <2>1. Reply.block \in Nat  BY <1>3, <1>6, NamedBlock DEF Answers, Reseek
    <2>2. QED  BY <1>1, <1>2, <1>6, <2>1, GoesTo, EarlyMoves, ToolZeros
  <1>7. CASE Stop("refused")
    BY <1>1, <1>2, <1>7, Stops, EarlyMoves DEF Early, Ended
  <1>8. CASE Ignore
    BY <1>1, <1>2, <1>8, Ignores, EarlyMoves DEF Early
  <1>9. QED  BY <1>4, <1>5, <1>6, <1>7, <1>8

LEMMA DataMoves ==
    ASSUME LinkInv, HostData
    PROVE  Moves
  <1>1. host \in Hosts  BY LinkTypes DEF LinkInv
  <1>2. Reads /\ UNCHANGED <<vars, stalls, gone>>  BY DEF HostData, Node, Reads
  <1>3. host.frame \in 0 .. NFrames - 1 /\ host.block \in 0 .. Blocks - 1
    BY <1>1 DEF Hosts
  <1>4. CASE host.frame < NFrames - 1
    <2> DEFINE p == IF host.frame % PollEvery = PollEvery - 1 THEN "POLL" ELSE host.phase
    <2>1. /\ Send(DataFrame(host.block, host.frame))
          /\ host' = [host EXCEPT !.frame = host.frame + 1, !.phase = p]
          /\ host.phase = "DATA"
      BY <1>1, <1>4 DEF HostData, Hosts
    <2>2. p \in {"POLL", "DATA"}  BY <2>1
    <2> HIDE DEF p
    <2>3. host.frame + 1 \in 0 .. NFrames - 1  BY <1>3, <1>4, SizesAssumption
    <2>4. p \in Phases  BY <2>2, ToolZeros
    <2>5. host' \in Hosts /\ host'.phase = p  BY <1>1, <2>1, <2>3, <2>4 DEF Hosts
    <2>6. Sends  BY <1>3, <2>1, ToolFrames DEF Sends, Frames
    <2>7. QED  BY <1>2, <2>2, <2>5, <2>6, EarlyMoves DEF Early
  <1>5. CASE ~(host.frame < NFrames - 1)
    <2>1. Send(DataEndFrame(host.block)) /\ host' = [host EXCEPT !.phase = "DATA_END"]
      BY <1>5 DEF HostData
    <2>2. host' \in Hosts /\ host'.phase = "DATA_END"  BY <1>1, <2>1, ToolZeros DEF Hosts
    <2>3. Sends  BY <1>3, <2>1, ToolFrames DEF Sends
    <2>4. QED  BY <1>2, <2>2, <2>3, EarlyMoves DEF Early
  <1>6. QED  BY <1>4, <1>5

LEMMA PollMoves ==
    ASSUME LinkInv, HostPoll
    PROVE  Moves
  <1>1. host \in Hosts /\ toHost \in Seq(Replies)  BY LinkTypes DEF LinkInv
  <1>2. UNCHANGED <<vars, stalls, gone>>  BY DEF HostPoll, Node
  <1>3. CASE toHost = <<>>
    <2>1. /\ UNCHANGED <<toHost, toNode, slips>> /\ host' = [host EXCEPT !.phase = "DATA"]
      BY <1>3 DEF HostPoll
    <2>2. host' \in Hosts /\ host'.phase = "DATA"  BY <1>1, <2>1, ToolZeros DEF Hosts
    <2>3. QED  BY <1>2, <2>1, <2>2, EarlyMoves DEF Early, Sends, Reads
  <1>4. CASE toHost # <<>> /\ Reseek /\ "block" \in DOMAIN Reply
    <2>1. toHost' = Tail(toHost) /\ GoTo(Reply.block, 0)  BY <1>4 DEF HostPoll, Take
    <2>2. Reply.block \in Nat  BY <1>1, <1>4, ReplySays, NamedBlock DEF Reseek
    <2>3. QED  BY <1>1, <1>2, <1>4, <2>1, <2>2, GoesTo, EarlyMoves, ToolZeros DEF Reads
  <1>5. CASE toHost # <<>> /\ ~(Reseek /\ "block" \in DOMAIN Reply)
    <2>1. /\ toHost' = Tail(toHost) /\ UNCHANGED <<toNode, slips>>
          /\ host' = [host EXCEPT !.phase = "DATA", !.quiet = 0, !.waited = 0]
      BY <1>5 DEF HostPoll, Take
    <2>2. host' \in Hosts /\ host'.phase = "DATA"  BY <1>1, <2>1, ToolZeros DEF Hosts
    <2>3. QED  BY <1>2, <1>5, <2>1, <2>2, EarlyMoves DEF Early, Sends, Reads
  <1>6. QED  BY <1>3, <1>4, <1>5

LEMMA DataEndMoves ==
    ASSUME LinkInv, HostDataEnd
    PROVE  Moves
  <1>1. host \in Hosts /\ toHost \in Seq(Replies)  BY LinkTypes DEF LinkInv
  <1>2. /\ host.phase = "DATA_END" /\ toHost # <<>> /\ Reads
        /\ UNCHANGED <<vars, stalls, gone>>
    BY DEF HostDataEnd, Waiting, Take, Reads, Node
  <1>3. /\ Reply \in Replies /\ host.block \in Nat /\ host.block + 1 \in Nat
        /\ host.tries \in 0 .. MaxRetries
    BY <1>1, <1>2, ReplySays, FileTypes DEF Hosts
  <1>4. \/ GoTo(host.block + 1, 0)
        \/ Answers("DATA_END") /\ Reseek /\ GoTo(Reply.block, 0)
        \/ Stop("failed")
        \/ ~RetriesSpent /\ GoTo(host.block, host.tries + 1)
        \/ Stop("refused")
        \/ Ignore
    BY DEF HostDataEnd
  <1>5. CASE GoTo(host.block + 1, 0)
    BY <1>1, <1>2, <1>3, <1>5, GoesTo, EarlyMoves, ToolZeros
  <1>6. CASE Answers("DATA_END") /\ Reseek /\ GoTo(Reply.block, 0)
    <2>1. Reply.block \in Nat  BY <1>3, <1>6, NamedBlock DEF Answers, Reseek
    <2>2. QED  BY <1>1, <1>2, <1>6, <2>1, GoesTo, EarlyMoves, ToolZeros
  <1>7. CASE Stop("failed") \/ Stop("refused")
    BY <1>1, <1>2, <1>7, Stops, EarlyMoves DEF Early, Ended
  <1>8. CASE ~RetriesSpent /\ GoTo(host.block, host.tries + 1)
    <2>1. host.tries + 1 \in 0 .. MaxRetries
      BY <1>3, <1>8, LinkAssumption DEF RetriesSpent
    <2>2. QED  BY <1>1, <1>2, <1>3, <1>8, <2>1, GoesTo, EarlyMoves
  <1>9. CASE Ignore
    BY <1>1, <1>2, <1>9, Ignores, EarlyMoves DEF Early
  <1>10. QED  BY <1>4, <1>5, <1>6, <1>7, <1>8, <1>9

(* The answer to REBOOT is only awaited once VERIFY was acknowledged.      *)
LEMMA RebootMoves ==
    ASSUME LinkInv, HostReboot
    PROVE  Moves
  <1>1. host \in Hosts  BY LinkTypes DEF LinkInv
  <1>2. /\ host.phase = "REBOOT" /\ toHost # <<>> /\ Reads
        /\ UNCHANGED <<vars, stalls, gone>>
        /\ Stop("done") \/ Stop("failed")
    BY DEF HostReboot, Waiting, Take, Reads, Node
  <1>3. host' \in Hosts /\ host'.phase \in {"done", "failed"} /\ Sends
    BY <1>1, <1>2, Stops DEF Ended
  <1>4. QED  BY <1>2, <1>3 DEF Moves, Verified

LEMMA TimeoutMoves ==
    ASSUME LinkInv, HostTimeout \/ HostRecursionLimit \/ HostCancel
    PROVE  Moves
  <1>1. host \in Hosts  BY LinkTypes DEF LinkInv
  <1>2. Reads /\ UNCHANGED <<vars, stalls, gone>>
    BY DEF HostTimeout, HostRecursionLimit, HostCancel, Node, Reads
  <1>3. \/ Stop("failed")
        \/ /\ host' = [host EXCEPT !.phase = "DATA_START", !.quiet = 1, !.waited = 0,
                                   !.frame = 0]
           /\ Send(DataStartFrame(host.block))
        \/ host' = [host EXCEPT !.phase = "failed"] /\ Send(Command("CANCEL"))
    BY DEF HostTimeout, HostRecursionLimit, HostCancel
  <1>4. CASE Stop("failed")
    BY <1>1, <1>2, <1>4, Stops, EarlyMoves DEF Early, Ended
  <1>5. CASE /\ host' = [host EXCEPT !.phase = "DATA_START", !.quiet = 1, !.waited = 0,
                                     !.frame = 0]
             /\ Send(DataStartFrame(host.block))
    <2>1. host' \in Hosts /\ host'.phase = "DATA_START" /\ host.block \in 0 .. Blocks - 1
      BY <1>1, <1>5, ToolZeros DEF Hosts
    <2>2. Sends  BY <1>5, <2>1, ToolFrames DEF Sends
    <2>3. QED  BY <1>2, <2>1, <2>2, EarlyMoves DEF Early
  <1>6. CASE host' = [host EXCEPT !.phase = "failed"] /\ Send(Command("CANCEL"))
    <2>1. host' \in Hosts /\ host'.phase = "failed"  BY <1>1, <1>6, ToolZeros DEF Hosts
    <2>2. Sends  BY <1>6, ToolFrames DEF Sends
    <2>3. QED  BY <1>2, <2>1, <2>2, EarlyMoves DEF Early
  <1>7. QED  BY <1>3, <1>4, <1>5, <1>6

-----------------------------------------------------------------------------
(* The invariant.                                                          *)

LEMMA Opened ==
    ASSUME LinkInv
    PROVE  /\ TypeOK /\ FsmInv /\ host \in Hosts /\ gone \in BOOLEAN
           /\ slips \in 0 .. MaxSlips /\ stalls \in 0 .. MaxStalls
           /\ toNode \in Seq(HostFrames) /\ toHost \in Seq(Replies)
           /\ Agreed /\ StartsFirst(toNode) /\ StaysVerified
           /\ st \in Accepted => NoStart(toNode)
           /\ host.phase = "begin" =>
                /\ st = "IDLE" /\ toNode = <<>>
                /\ \A i \in 1 .. Len(toHost) : toHost[i] = Beacon
  BY LinkTypes DEF LinkInv, InOrderOfSteps

LEMMA Closed ==
    ASSUME FsmInv', host' \in Hosts, gone' \in BOOLEAN,
           slips' \in 0 .. MaxSlips, stalls' \in 0 .. MaxStalls,
           toNode' \in Seq(HostFrames), toHost' \in Seq(Replies),
           Agreed', InOrderOfSteps', StaysVerified'
    PROVE  LinkInv'
  <1>1. toNode' \in Seq(Wire)  BY FramesOnWire
  <1>2. LinkTypeOK'  BY <1>1 DEF LinkTypeOK, Hosts, FsmInv
  <1>3. QED  BY <1>2 DEF LinkInv

(* A step that leaves the node alone and takes from its replies at most.   *)
LEMMA NodeRests ==
    ASSUME LinkInv, UNCHANGED <<vars, stalls>>, host' \in Hosts, gone' \in BOOLEAN,
           slips' \in 0 .. MaxSlips, toNode' \in Seq(HostFrames), Reads,
           StartsFirst(toNode'), NoStart(toNode) => NoStart(toNode'),
           host'.phase # "begin", host'.phase \in {"REBOOT", "done"} => Verified
    PROVE  LinkInv'
  <1>1. FsmInv'  BY Opened, NextInv
  <1>2. /\ UNCHANGED <<st, ctx, target, flash, meta>>  BY DEF vars
  <1>3. Agreed'  BY <1>2, Opened DEF Agreed
  <1>4. /\ toHost' \in Seq(Replies)
        /\ \A i \in 1 .. Len(toHost') :
             \E j \in 1 .. Len(toHost) : toHost'[i] = toHost[j]
    <2>1. CASE toHost' = toHost  BY <2>1, Opened
    <2>2. CASE toHost # <<>> /\ toHost' = Tail(toHost)  BY <2>2, Opened, TailFacts
    <2>3. QED  BY <2>1, <2>2 DEF Reads
  <1>5. InOrderOfSteps'  BY <1>2, Opened DEF InOrderOfSteps
  <1>6. Verified' => Verified  BY <1>2, <1>4 DEF Verified
  <1>7. StaysVerified'  BY <1>2, <1>6, Opened DEF StaysVerified
  <1>8. stalls' \in 0 .. MaxStalls  BY Opened
  <1>9. QED  BY <1>1, <1>3, <1>4, <1>5, <1>7, <1>8, Closed

LEMMA MovesKeep ==
    ASSUME LinkInv, Moves
    PROVE  LinkInv'
  <1>1. /\ UNCHANGED <<vars, stalls>> /\ host' \in Hosts /\ gone' \in BOOLEAN /\ Reads
        /\ host'.phase # "begin" /\ (host'.phase \in {"REBOOT", "done"} => Verified)
    BY Opened DEF Moves
  <1>2. CASE UNCHANGED <<toNode, slips>>
    BY <1>1, <1>2, Opened, NodeRests
  <1>3. CASE \E m \in LaterFrames : Send(m)
    <2>1. PICK m \in LaterFrames : Send(m)  BY <1>3
    <2>2. /\ toNode' \in Seq(HostFrames) /\ StartsFirst(toNode')
          /\ NoStart(toNode) => NoStart(toNode')
      BY <2>1, Opened, SentInOrder
    <2>3. slips' \in 0 .. MaxSlips  BY <2>1, Opened, SlipsBounded DEF Send
    <2>4. QED  BY <1>1, <2>2, <2>3, NodeRests
  <1>4. QED  BY <1>2, <1>3 DEF Moves, Sends

LEMMA BeginKeeps ==
    ASSUME LinkInv, HostBegin
    PROVE  LinkInv'
  <1>1. /\ host.phase = "begin" /\ host' = [host EXCEPT !.phase = "START"]
        /\ Send(StartFrame) /\ toHost' = toHost /\ UNCHANGED <<vars, stalls, gone>>
    BY DEF HostBegin, Node
  <1>2. /\ st = "IDLE" /\ toNode = <<>> /\ Len(toNode) = 0
        /\ \A i \in 1 .. Len(toHost) : toHost[i] = Beacon
    BY <1>1, Opened
  <1>3. StartFrame \in HostFrames /\ StartFrame.cmd = "START"
    BY DEF HostFrames, StartFrame
  <1>4. /\ toNode' \in Seq(HostFrames)
        /\ \A i \in 1 .. Len(toNode') : toNode'[i] = StartFrame
    <2>1. /\ toNode' \in Seq(HostFrames)
          /\ \A i \in 1 .. Len(toNode') :
               IF i <= Len(toNode) THEN toNode'[i] = toNode[i] ELSE toNode'[i] = StartFrame
      <3>1. toNode \in Seq(HostFrames) /\ Send(StartFrame)  BY <1>1, Opened
      <3>2. QED  BY <1>3, <3>1, SentLast
    <2>2. Len(toNode') \in Nat  BY <2>1
    <2>3. ASSUME NEW i \in 1 .. Len(toNode')
          PROVE  ~(i <= Len(toNode))
      BY <1>2, <2>2
    <2>4. QED  BY <2>1, <2>3
  <1>5. StartsFirst(toNode')  BY <1>3, <1>4 DEF StartsFirst
  <1>6. host' \in Hosts /\ host'.phase = "START"  BY <1>1, Opened, ToolZeros DEF Hosts
  <1>7. slips' \in 0 .. MaxSlips  BY <1>1, Opened, SlipsBounded DEF Send
  <1>8. FsmInv' /\ UNCHANGED <<st, ctx, target, flash>>  BY <1>1, Opened, NextInv DEF vars
  <1>9. Agreed' /\ InOrderOfSteps'
    BY <1>2, <1>5, <1>6, <1>8, Opened DEF Agreed, InOrderOfSteps, Accepted
  <1>10. ~Verified'
    BY <1>1, <1>2, <1>6, <1>8 DEF Verified, SaysVerified, Beacon
  <1>11. QED
    BY <1>1, <1>4, <1>6, <1>7, <1>8, <1>9, <1>10, Opened, Closed DEF StaysVerified

-----------------------------------------------------------------------------
(* The node's steps.                                                       *)

(* What is on its way to the tool once the node has answered.              *)
LEMMA Responded ==
    ASSUME toHost \in Seq(Replies), slips \in 0 .. MaxSlips, Respond,
           resp' = Silent \/ resp' \in Replies
    PROVE  /\ toHost' \in Seq(Replies) /\ slips' \in 0 .. MaxSlips
           /\ \A i \in 1 .. Len(toHost') :
                toHost'[i] = resp' \/ \E j \in 1 .. Len(toHost) : toHost'[i] = toHost[j]
  <1>1. CASE resp' = Silent
    BY <1>1 DEF Respond
  <1>2. CASE resp' # Silent
    <2>1. Carry(toHost, resp', toHost') /\ resp' \in Replies  BY <1>2 DEF Respond
    <2>2. /\ toHost' \in Seq(Replies) /\ Len(toHost') >= Len(toHost)
          /\ \A i \in 1 .. Len(toHost') :
               IF i <= Len(toHost) THEN toHost'[i] = toHost[i] ELSE toHost'[i] = resp'
      BY <2>1, Carried
    <2>3. slips' \in 0 .. MaxSlips  BY <2>1, SlipsBounded
    <2>4. Len(toHost) \in Nat /\ Len(toHost') \in Nat  BY <2>2
    <2>5. QED  BY <2>2, <2>3, <2>4
  <1>3. QED  BY <1>1, <1>2

LEMMA ReceiveKeeps ==
    ASSUME LinkInv, NodeReceive
    PROVE  LinkInv'
  <1> DEFINE m == Head(toNode)
  <1>1. /\ toNode # <<>> /\ ProcessMsg(m) /\ toNode' = Tail(toNode) /\ Respond
        /\ UNCHANGED <<host, stalls, gone>>
    BY DEF NodeReceive
  <1>2. m \in HostFrames /\ toNode' \in Seq(HostFrames)  BY <1>1, Opened, TailFacts
  <1>3. /\ StartsFirst(toNode')
        /\ NoStart(toNode) => NoStart(toNode') /\ m.cmd # "START"
        /\ m.cmd # "START" => NoStart(toNode')
    BY <1>1, Opened, TakenInOrder
  <1> HIDE DEF m
  <1>4. m \in Wire  BY <1>2, FramesOnWire
  <1>5. FsmInv'  BY <1>1, <1>4, Opened, MessageStep
  <1>6. Effect(m)  BY <1>1, <1>2, Opened, MessageEffect
  <1>7. resp' = Silent \/ resp' \in Replies  BY <1>1, <1>4, Opened, MessageReply
  <1>8. /\ toHost' \in Seq(Replies) /\ slips' \in 0 .. MaxSlips
        /\ \A i \in 1 .. Len(toHost') :
             toHost'[i] = resp' \/ \E j \in 1 .. Len(toHost) : toHost'[i] = toHost[j]
    BY <1>1, <1>7, Opened, Responded
  <1>9. host.phase # "begin"  BY <1>1, Opened
  <1>10. st' \in Accepted => NoStart(toNode')
    BY <1>3, <1>6, Opened DEF Effect
  <1>11. InOrderOfSteps'  BY <1>1, <1>3, <1>9, <1>10 DEF InOrderOfSteps
  <1>12. StaysVerified'
    <2>1. CASE st' = "REBOOT_PENDING"
      <3>1. FlashSum(ctx)' = ctx.sum' /\ ctx.size' = Size /\ ctx.sum' = FileSum
        BY <1>5, <1>6, <2>1 DEF FsmInv, SessionSettled, Effect, Agreed, Accepted
      <3>2. FirmwareSum(flash'[target'], Size) = FileSum
        BY <3>1 DEF FlashSum
      <3>3. NoStart(toNode')  BY <1>10, <2>1 DEF Accepted
      <3>4. QED  BY <2>1, <3>2, <3>3 DEF StaysVerified
    <2>2. CASE st' # "REBOOT_PENDING" /\ Verified'
      <3>1. ~SaysVerified(resp')  BY <1>6, <2>2 DEF Effect
      <3>2. Verified  BY <1>1, <1>8, <2>2, <3>1 DEF Verified
      <3>3. /\ st \in Waits /\ NoStart(toNode)
            /\ FirmwareSum(flash[target], Size) = FileSum
        BY <3>2, Opened DEF StaysVerified, Waits
      <3>4. st' \in Waits /\ flash' = flash /\ target' = target
        BY <1>3, <1>6, <3>3 DEF Effect
      <3>5. QED  BY <1>3, <3>3, <3>4 DEF StaysVerified, Waits
    <2>3. QED  BY <2>1, <2>2 DEF StaysVerified
  <1>13. Agreed'  BY <1>6 DEF Effect
  <1>14. QED
    BY <1>1, <1>2, <1>5, <1>8, <1>11, <1>12, <1>13, Opened, Closed

(* A tick, whether the tool waits for it or stalls.                        *)
LEMMA TickKeeps ==
    ASSUME LinkInv, TickNow, host' \in Hosts, host'.phase = host.phase,
           toHost' \in Seq(Replies), slips' \in 0 .. MaxSlips, stalls' \in 0 .. MaxStalls,
           \A i \in 1 .. Len(toHost') :
             \/ toHost'[i] = resp' /\ resp' # Silent
             \/ \E j \in 1 .. Len(toHost) : toHost'[i] = toHost[j]
    PROVE  LinkInv'
  <1>1. Tick /\ toNode' = toNode /\ toNode = <<>> /\ gone' = gone  BY DEF TickNow
  <1>2. /\ FsmInv' /\ target' = target /\ flash' = flash /\ Agreed' /\ st' \in {st, "IDLE"}
        /\ st = "IDLE" => resp' \in {Silent, Beacon}
    BY <1>1, Opened, TickEffect
  <1>3. ~SaysVerified(resp')  BY <1>1, Opened, TickReply
  <1>4. InOrderOfSteps'
    BY <1>1, <1>2, Opened DEF InOrderOfSteps, Accepted, Silent
  <1>5. Verified' => Verified  BY <1>2, <1>3 DEF Verified
  <1>6. StaysVerified'  BY <1>1, <1>2, <1>5, Opened DEF StaysVerified
  <1>7. QED  BY <1>1, <1>2, <1>4, <1>6, Opened, Closed

LEMMA NodeTickKeeps ==
    ASSUME LinkInv, NodeTick
    PROVE  LinkInv'
  <1>1. TickNow /\ Respond /\ UNCHANGED stalls  BY DEF NodeTick
  <1>2. host' \in Hosts /\ host'.phase = host.phase
    <2>1. CASE UNCHANGED host  BY <2>1, Opened
    <2>2. CASE host.waited < HostWait /\ host' = [host EXCEPT !.waited = @ + 1]
      <3>1. host.waited + 1 \in 0 .. HostWait
        BY <2>2, Opened, LinkAssumption DEF Hosts
      <3>2. QED  BY <2>2, <3>1, Opened DEF Hosts
    <2>3. QED  BY <2>1, <2>2 DEF NodeTick
  <1>3. resp' = Silent \/ resp' \in Replies  BY <1>1, Opened, TickReply DEF TickNow
  <1>4. /\ toHost' \in Seq(Replies) /\ slips' \in 0 .. MaxSlips
        /\ \A i \in 1 .. Len(toHost') :
             toHost'[i] = resp' \/ \E j \in 1 .. Len(toHost) : toHost'[i] = toHost[j]
    BY <1>1, <1>3, Opened, Responded
  <1>5. resp' = Silent => toHost' = toHost  BY <1>1 DEF Respond
  <1>6. stalls' \in 0 .. MaxStalls  BY <1>1, Opened
  <1>7. QED  BY <1>1, <1>2, <1>4, <1>5, <1>6, TickKeeps

LEMMA StallKeeps ==
    ASSUME LinkInv, HostStalls
    PROVE  LinkInv'
  <1>1. TickNow /\ UNCHANGED <<host, slips>>  BY DEF HostStalls
  <1>2. stalls' \in 0 .. MaxStalls  BY Opened, LinkAssumption DEF HostStalls
  <1>3. resp' = Silent \/ resp' \in Replies  BY <1>1, Opened, TickReply DEF TickNow
  <1>4. /\ toHost' \in Seq(Replies)
        /\ \A i \in 1 .. Len(toHost') :
             \/ toHost'[i] = resp' /\ resp' # Silent
             \/ \E j \in 1 .. Len(toHost) : toHost'[i] = toHost[j]
    <2>1. CASE resp' = Silent  BY <2>1, Opened DEF HostStalls
    <2>2. CASE resp' # Silent
      <3>1. toHost' = Append(toHost, resp') /\ resp' \in Replies /\ toHost \in Seq(Replies)
        BY <1>3, <2>2, Opened DEF HostStalls
      <3>2. QED  BY <2>2, <3>1
    <2>3. QED  BY <2>1, <2>2
  <1>5. QED  BY <1>1, <1>2, <1>4, Opened, TickKeeps

LEMMA LeaveKeeps ==
    ASSUME LinkInv, NodeLeaves \/ AppIgnores
    PROVE  LinkInv'
  <1>1. /\ UNCHANGED <<vars, host, toHost, slips, stalls>> /\ gone' \in BOOLEAN
        /\ host.phase # "begin"
    BY Opened DEF NodeLeaves, AppIgnores
  <1>2. /\ toNode' \in Seq(HostFrames) /\ StartsFirst(toNode')
        /\ NoStart(toNode) => NoStart(toNode')
    <2>1. CASE NodeLeaves  BY <2>1, Opened DEF NodeLeaves
    <2>2. CASE AppIgnores  BY <2>2, Opened, TailFacts, TakenInOrder DEF AppIgnores
    <2>3. QED  BY <2>1, <2>2
  <1>3. QED
    BY <1>1, <1>2, Opened, NodeRests DEF Reads, Verified

LEMMA LinkInitInv == LinkInit => LinkInv
  <1> SUFFICES ASSUME LinkInit PROVE LinkInv
    OBVIOUS
  <1>1. FsmInv /\ st = "IDLE"  BY InitInv DEF LinkInit, Init
  <1>2. host \in Hosts /\ host.phase = "begin"
    BY ToolZeros DEF LinkInit, Hosts
  <1>3. LinkTypeOK
    <2>1. TypeOK /\ gone \in BOOLEAN  BY <1>1 DEF LinkInit, FsmInv
    <2>2. slips \in 0 .. MaxSlips /\ stalls \in 0 .. MaxStalls
      BY LinkAssumption DEF LinkInit
    <2>3. <<>> \in Seq(Wire) /\ <<>> \in Seq(Replies)  OBVIOUS
    <2>4. toNode \in Seq(Wire) /\ toHost \in Seq(Replies)  BY <2>3 DEF LinkInit
    <2>5. QED  BY <1>2, <2>1, <2>2, <2>4, LinkTypes
  <1>4. Agreed /\ InOrderOfSteps /\ StaysVerified
    BY <1>1, <1>2 DEF LinkInit, Agreed, Accepted, InOrderOfSteps, StartsFirst, NoStart,
                      StaysVerified, Verified
  <1>5. QED  BY <1>1, <1>3, <1>4 DEF LinkInv, LinkInit

LEMMA LinkNextInv ==
    ASSUME LinkInv, [LinkNext]_allVars
    PROVE  LinkInv'
  <1>1. CASE HostBegin  BY <1>1, BeginKeeps
  <1>2. CASE HostStart \/ HostMetadata \/ HostVerify
    BY <1>2, HandshakesMove, MovesKeep
  <1>3. CASE HostDataStart  BY <1>3, DataStartMoves, MovesKeep
  <1>4. CASE HostData  BY <1>4, DataMoves, MovesKeep
  <1>5. CASE HostPoll  BY <1>5, PollMoves, MovesKeep
  <1>6. CASE HostDataEnd  BY <1>6, DataEndMoves, MovesKeep
  <1>7. CASE HostReboot  BY <1>7, RebootMoves, MovesKeep
  <1>8. CASE HostTimeout \/ HostRecursionLimit \/ HostCancel
    BY <1>8, TimeoutMoves, MovesKeep
  <1>9. CASE NodeReceive  BY <1>9, ReceiveKeeps
  <1>10. CASE NodeTick  BY <1>10, NodeTickKeeps
  <1>11. CASE HostStalls  BY <1>11, StallKeeps
  <1>12. CASE NodeLeaves \/ AppIgnores  BY <1>12, LeaveKeeps
  <1>13. CASE UNCHANGED allVars
    <2>1. UNCHANGED <<vars, host, toNode, toHost, slips, stalls, gone>>
      BY <1>13 DEF allVars, linkVars
    <2>2. FsmInv' /\ UNCHANGED <<st, ctx, target, flash>>  BY <2>1, Opened, NextInv DEF vars
    <2>3. Agreed' /\ InOrderOfSteps' /\ StaysVerified'
      BY <2>1, <2>2 DEF LinkInv, Agreed, InOrderOfSteps, StaysVerified, Verified
    <2>4. QED  BY <2>1, <2>2, <2>3, Opened, Closed
  <1>14. QED
    BY <1>1, <1>2, <1>3, <1>4, <1>5, <1>6, <1>7, <1>8, <1>9, <1>10, <1>11, <1>12,
       <1>13, Zenon DEF LinkNext, HostNext, NodeNext

(* LinkInv holds for every firmware and every size of blocks and of the    *)
(* partition, for any number of frames lost and repeated, of stalls and of *)
(* flash failures, and whatever the node holds before.                     *)
THEOREM LinkInvariant == LinkSpec => []LinkInv
  BY LinkInitInv, LinkNextInv, PTL DEF LinkSpec

(* _run_flash and the engine keep their types: every reply that makes the  *)
(* tool change its block names one, the tool never leaves the file, and it *)
(* never repeats a block more often than it may.                           *)
THEOREM LinkTypesKept == LinkSpec => []LinkTypeOK
  <1>1. LinkInv => LinkTypeOK  BY DEF LinkInv
  <1>2. QED  BY <1>1, LinkInvariant, PTL

(* The engine's own invariant, with the real tool in place of any host: no *)
(* loss and no repetition lets a block be programmed over old data.        *)
THEOREM LinkBlankAhead == LinkSpec => []AheadBlank
  <1>1. LinkInv => AheadBlank  BY DEF LinkInv, FsmInv
  <1>2. QED  BY <1>1, LinkInvariant, PTL

(* When the tool asks for the restart, and when it reports success, the    *)
(* node holds a firmware of the size and the sum that the tool announced.  *)
THEOREM VerifiedFirmwareStays == LinkSpec => []VerifiedStays
  <1>1. LinkInv => VerifiedStays
    BY DEF LinkInv, StaysVerified, Verified, VerifiedStays, FileSum
  <1>2. QED  BY <1>1, LinkInvariant, PTL

(* The metadata change only to the size and the sum of the tool's file, at *)
(* a moment when the partition holds a firmware with them.                 *)
RecordsTheFile ==
    [][meta' # meta =>
        /\ meta' = [part |-> target, flag |-> 0, size |-> Size, sum |-> FileSum]
        /\ FirmwareSum(flash'[target], Size) = FileSum]_allVars

LEMMA LinkRecordStep ==
    ASSUME LinkInv, [LinkNext]_allVars, meta' # meta
    PROVE  /\ meta' = [part |-> target, flag |-> 0, size |-> Size, sum |-> FileSum]
           /\ FirmwareSum(flash'[target], Size) = FileSum
  <1>1. ~UNCHANGED vars /\ ~Tick  BY TickRecordsNothing DEF vars
  <1>2. NodeReceive
    <2>1. CASE HostBegin  BY <1>1, <2>1 DEF HostBegin, Node
    <2>2. CASE HostStart \/ HostMetadata \/ HostVerify
      BY <1>1, <2>2, HandshakesMove DEF Moves
    <2>3. CASE HostDataStart  BY <1>1, <2>3, DataStartMoves DEF Moves
    <2>4. CASE HostData  BY <1>1, <2>4, DataMoves DEF Moves
    <2>5. CASE HostPoll  BY <1>1, <2>5, PollMoves DEF Moves
    <2>6. CASE HostDataEnd  BY <1>1, <2>6, DataEndMoves DEF Moves
    <2>7. CASE HostReboot  BY <1>1, <2>7, RebootMoves DEF Moves
    <2>8. CASE HostTimeout \/ HostRecursionLimit \/ HostCancel
      BY <1>1, <2>8, TimeoutMoves DEF Moves
    <2>9. CASE NodeTick \/ HostStalls  BY <1>1, <2>9 DEF NodeTick, HostStalls, TickNow
    <2>10. CASE NodeLeaves \/ AppIgnores  BY <1>1, <2>10 DEF NodeLeaves, AppIgnores
    <2>11. CASE UNCHANGED allVars  BY <1>1, <2>11 DEF allVars
    <2>12. QED
      BY <2>1, <2>2, <2>3, <2>4, <2>5, <2>6, <2>7, <2>8, <2>9, <2>10, <2>11, Zenon
         DEF LinkNext, HostNext, NodeNext
  <1> DEFINE m == Head(toNode)
  <1>3. ProcessMsg(m) /\ m \in HostFrames  BY <1>2, Opened, TailFacts DEF NodeReceive
  <1> HIDE DEF m
  <1>4. m \in Wire  BY <1>3, FramesOnWire
  <1>5. Reboot(m)  BY <1>3, <1>4, OnlyRebootRecords
  <1>6. st = "REBOOT_PENDING" /\ flash' = flash /\ meta' = NewMeta
    BY <1>5 DEF Reboot, Rebooted, SaveMeta
  <1>7. ctx.size = Size /\ ctx.sum = FileSum  BY <1>6, Opened DEF Agreed, Accepted
  <1>8. FirmwareSum(flash[target], Size) = FileSum
    BY <1>6, Opened DEF StaysVerified, Verified
  <1>9. QED  BY <1>6, <1>7, <1>8 DEF NewMeta

THEOREM OnlyTheFileIsRecorded == LinkSpec => RecordsTheFile
  <1>1. LinkInv /\ [LinkNext]_allVars =>
            [meta' # meta =>
                /\ meta' = [part |-> target, flag |-> 0, size |-> Size, sum |-> FileSum]
                /\ FirmwareSum(flash'[target], Size) = FileSum]_allVars
    BY LinkRecordStep, Zenon
  <1>2. QED  BY <1>1, LinkInvariant, PTL DEF LinkSpec, RecordsTheFile

-----------------------------------------------------------------------------
(* Whose block the node takes.                                             *)

Opens(m) == m.cmd = "DATA_START"
Closes(m) == m.cmd = "DATA_END"
OpenReply(r) == r.kind \in {"ACK", "NACK"} /\ r.cmd = "DATA_START"
OpenAck(r) == r.kind = "ACK" /\ r.cmd = "DATA_START"

InBlock == {"DATA", "POLL", "DATA_END"}
Exchange == InBlock \cup {"DATA_START"}

(* q: frames on their way to the node; r: replies on their way to the tool; *)
(* n: the node's next block; s, t: slips and stalls so far.                *)

(* No block has been opened. *)
NoBlocks(q, r) ==
    /\ \A i \in 1 .. Len(q) : ~Opens(q[i]) /\ ~Closes(q[i])
    /\ \A i \in 1 .. Len(r) : ~OpenReply(r[i])

(* The DATA_ENDs on the bus are one frame and its repetition. *)
Together(q) ==
    /\ \A i, j, k \in 1 .. Len(q) :
         i < j /\ j < k /\ Closes(q[i]) /\ Closes(q[k]) => Closes(q[j])
    /\ \A i, j \in 1 .. Len(q) : Closes(q[i]) /\ Closes(q[j]) => q[i] = q[j]

(* It ends the node's block, or it is a repetition that finds nothing of   *)
(* the next block but the tail that it brings.                             *)
OnlyTail(c, m) == c.acc = 0 /\ [c.buf EXCEPT ![0] = m.unit] = [NoData EXCEPT ![0] = m.unit]
Spent(q, i, c) == OnlyTail(c, q[i]) /\ \A j \in 1 .. Len(q) : j < i => Closes(q[j])
EndsBlock(q, i, c) ==
    \E b \in FileBlocks :
        /\ q[i] = DataEndFrame(b)
        /\ b = c.block \/ (b + 1 = c.block /\ Spent(q, i, c))
EndsBelong(q, c) == \A i \in 1 .. Len(q) : Closes(q[i]) => EndsBlock(q, i, c)

(* The tool is inside a block: all that is left of opening it agrees with  *)
(* the node's block and comes before all that has to do with its frames.   *)
RepliesFirst(r) ==
    \A i, j \in 1 .. Len(r) : i < j /\ OpenReply(r[j]) => OpenReply(r[i])
RequestsFirst(q) ==
    \A i, j \in 1 .. Len(q) : i < j /\ Opens(q[j]) => Opens(q[i])
NothingBehind(q, r) ==
    \A i \in 1 .. Len(r), j \in 1 .. Len(q) : Opens(q[j]) => OpenReply(r[i])
AllOpenHere(q, r, n) ==
    /\ \A i \in 1 .. Len(r) : OpenReply(r[i]) => OpenAck(r[i])
    /\ \A i \in 1 .. Len(q) : Opens(q[i]) => q[i].block = n
AllAnswered(q, r) ==
    /\ \A i \in 1 .. Len(q) : ~Opens(q[i])
    /\ \A i \in 1 .. Len(r) : ~OpenReply(r[i])
Filling(q, r, n, s) ==
    /\ RepliesFirst(r) /\ RequestsFirst(q) /\ NothingBehind(q, r)
    /\ AllOpenHere(q, r, n)
    /\ s = 0 => AllAnswered(q, r)

(* The tool waits for the answer to DATA_START: the answers name the node's *)
(* block, nothing but other requests to open follows them, and once one    *)
(* request was granted so are all that follow.                             *)
RepliesLast(r, t) ==
    \A i, j \in 1 .. Len(r) : i < j /\ OpenReply(r[i]) /\ ~OpenReply(r[j]) => t > 0
RequestsLast(q) ==
    \A i, j \in 1 .. Len(q) : i < j /\ Opens(q[i]) => Opens(q[j])
NothingBefore(q, r) ==
    \A i \in 1 .. Len(r), j \in 1 .. Len(q) : OpenReply(r[i]) => Opens(q[j])
OnlyOne(q, r) ==
    /\ \A i, j \in 1 .. Len(q) : Opens(q[i]) /\ Opens(q[j]) => i = j
    /\ \A i, j \in 1 .. Len(r) : OpenReply(r[i]) /\ OpenReply(r[j]) => i = j
    /\ \A i \in 1 .. Len(r), j \in 1 .. Len(q) : ~(OpenReply(r[i]) /\ Opens(q[j]))
Granted(q, r, n) ==
    /\ \A i, j \in 1 .. Len(r) :
         i < j /\ OpenAck(r[i]) /\ OpenReply(r[j]) => OpenAck(r[j])
    /\ \A i \in 1 .. Len(r), j \in 1 .. Len(q) : OpenAck(r[i]) => q[j].block = n
    /\ \A i, j \in 1 .. Len(q) :
         i < j /\ Opens(q[i]) /\ Opens(q[j]) /\ q[i].block = n => q[j].block = n
Uniform(q) ==
    \A i, j, k \in 1 .. Len(q) :
        Opens(q[i]) /\ Opens(q[j]) /\ ~Opens(q[k]) => q[i].block = q[j].block
Says(n) == {AckAt("DATA_START", n), NackAt("DATA_START", "BLOCK_INDEX_MISMATCH", n)}
NamesBlock(r, n) == \A i \in 1 .. Len(r) : OpenReply(r[i]) => r[i] \in Says(n)
Asking(q, r, n, s, t) ==
    /\ RepliesLast(r, t) /\ RequestsLast(q) /\ NothingBefore(q, r)
    /\ Granted(q, r, n) /\ Uniform(q) /\ NamesBlock(r, n)
    /\ s = 0 => OnlyOne(q, r)

(* The queue p is q with m carried behind it (never, once or twice; once   *)
(* without a slip), or without its head.                                   *)
Longer(q, p, m, s) ==
    /\ Len(q) \in Nat /\ Len(p) \in Nat /\ Len(p) >= Len(q)
    /\ \A i \in 1 .. Len(p) : IF i <= Len(q) THEN p[i] = q[i] ELSE p[i] = m
    /\ s = 0 => Len(p) <= Len(q) + 1
Shorter(q, p) ==
    /\ Len(q) \in Nat \ {0} /\ Len(p) = Len(q) - 1
    /\ \A i \in 1 .. Len(p) : p[i] = q[i + 1]

-----------------------------------------------------------------------------
(* The tool's end of the queues.                                           *)

LEMMA AskingReads ==
    ASSUME NEW q, NEW r, NEW p, NEW n, NEW s, NEW t,
           Asking(q, r, n, s, t), Shorter(r, p), Len(q) \in Nat
    PROVE  Asking(q, p, n, s, t)
  <1>1. /\ Len(p) \in Nat /\ Len(r) \in Nat
        /\ \A i \in 1 .. Len(p) : i + 1 \in 1 .. Len(r) /\ p[i] = r[i + 1]
    BY DEF Shorter
  <1>2. RepliesLast(p, t)  BY <1>1 DEF Asking, RepliesLast
  <1>3. NothingBefore(q, p)  BY <1>1 DEF Asking, NothingBefore
  <1>4. Granted(q, p, n)  BY <1>1 DEF Asking, Granted
  <1>5. NamesBlock(p, n)  BY <1>1 DEF Asking, NamesBlock
  <1>6. s = 0 => OnlyOne(q, p)  BY <1>1 DEF Asking, OnlyOne
  <1>7. QED  BY <1>2, <1>3, <1>4, <1>5, <1>6 DEF Asking

(* The tool asks again for the block that a refusal names. *)
LEMMA AskingAgain ==
    ASSUME NEW q, NEW r, NEW p, NEW w, NEW m, NEW n, NEW s, NEW t, NEW z,
           Asking(q, r, n, s, t), OpenReply(r[1]), Shorter(r, p), Opens(m), m.block = n,
           Longer(q, w, m, z), z = 0 => s = 0
    PROVE  Asking(w, p, n, z, t)
  <1>1. /\ Len(p) \in Nat /\ 1 \in 1 .. Len(r)
        /\ \A i \in 1 .. Len(p) : i + 1 \in 1 .. Len(r) /\ p[i] = r[i + 1]
    BY DEF Shorter
  <1>2. /\ Len(q) \in Nat /\ Len(w) \in Nat /\ Len(w) >= Len(q)
        /\ \A i \in 1 .. Len(w) : IF i <= Len(q) THEN w[i] = q[i] ELSE w[i] = m
    BY DEF Longer
  <1>3. \A i \in 1 .. Len(q) : Opens(q[i])
    BY <1>1 DEF Asking, NothingBefore
  <1>4. \A i \in 1 .. Len(w) : Opens(w[i]) /\ (i > Len(q) => w[i].block = n)
    BY <1>2, <1>3 DEF Opens
  <1>5. RepliesLast(p, t)  BY <1>1 DEF Asking, RepliesLast
  <1>6. NothingBefore(w, p) /\ RequestsLast(w) /\ Uniform(w)
    BY <1>4 DEF NothingBefore, RequestsLast, Uniform
  <1>7. Granted(w, p, n)
    <2>1. \A i, j \in 1 .. Len(p) :
            i < j /\ OpenAck(p[i]) /\ OpenReply(p[j]) => OpenAck(p[j])
      BY <1>1 DEF Asking, Granted
    <2>2. \A i \in 1 .. Len(p), j \in 1 .. Len(w) : OpenAck(p[i]) => w[j].block = n
      BY <1>1, <1>2, <1>4 DEF Asking, Granted
    <2>3. \A i, j \in 1 .. Len(w) :
            i < j /\ Opens(w[i]) /\ Opens(w[j]) /\ w[i].block = n => w[j].block = n
      BY <1>2, <1>4 DEF Asking, Granted
    <2>4. QED  BY <2>1, <2>2, <2>3 DEF Granted
  <1>8. NamesBlock(p, n)  BY <1>1 DEF Asking, NamesBlock
  <1>9. ASSUME z = 0
        PROVE  OnlyOne(w, p)
    <2>1. OnlyOne(q, r) /\ Len(w) <= Len(q) + 1  BY <1>9 DEF Asking, Longer
    <2>2. Len(q) = 0
      <3>1. \A j \in 1 .. Len(q) : FALSE  BY <1>1, <1>3, <2>1 DEF OnlyOne
      <3>2. QED  BY <1>2, <3>1
    <2>3. \A i \in 1 .. Len(p) : ~OpenReply(p[i])  BY <1>1, <2>1 DEF OnlyOne
    <2>4. \A i, j \in 1 .. Len(w) : i = j  BY <1>2, <2>1, <2>2
    <2>5. QED  BY <2>3, <2>4 DEF OnlyOne
  <1>10. QED  BY <1>5, <1>6, <1>7, <1>8, <1>9 DEF Asking

(* The tool asks for a block with no other request or answer under way. *)
LEMMA AskingAnew ==
    ASSUME NEW q, NEW r, NEW w, NEW m, NEW n, NEW z, NEW t,
           AllAnswered(q, r), Opens(m), Longer(q, w, m, z), Len(r) \in Nat
    PROVE  Asking(w, r, n, z, t)
  <1>1. /\ Len(q) \in Nat /\ Len(w) \in Nat /\ Len(w) >= Len(q)
        /\ \A i \in 1 .. Len(w) : IF i <= Len(q) THEN w[i] = q[i] ELSE w[i] = m
    BY DEF Longer
  <1>2. \A i \in 1 .. Len(r) : ~OpenReply(r[i]) /\ ~OpenAck(r[i])
    BY DEF AllAnswered, OpenReply, OpenAck
  <1>3. \A i \in 1 .. Len(w) :
          /\ Opens(w[i]) <=> i > Len(q)
          /\ i > Len(q) => w[i] = m
    BY <1>1 DEF AllAnswered
  <1>4. RepliesLast(r, t) /\ NothingBefore(w, r) /\ NamesBlock(r, n)
    BY <1>2 DEF RepliesLast, NothingBefore, NamesBlock
  <1>5. RequestsLast(w) /\ Uniform(w)  BY <1>1, <1>3 DEF RequestsLast, Uniform
  <1>6. Granted(w, r, n)  BY <1>2, <1>3 DEF Granted
  <1>7. z = 0 => OnlyOne(w, r)
    BY <1>1, <1>2, <1>3 DEF OnlyOne, Longer
  <1>8. QED  BY <1>4, <1>5, <1>6, <1>7 DEF Asking

(* The node's block is open: what is left of the requests is for it. *)
LEMMA FillingBegins ==
    ASSUME NEW q, NEW r, NEW p, NEW n, NEW s, NEW t, Len(q) \in Nat, t \in Nat,
           Asking(q, r, n, s, t), OpenAck(r[1]), Shorter(r, p), t = 0 \/ s = 0
    PROVE  /\ Filling(q, p, n, s)
           /\ \A i \in 1 .. Len(q) : Opens(q[i])
  <1>1. /\ Len(p) \in Nat /\ 1 \in 1 .. Len(r) /\ OpenReply(r[1])
        /\ \A i \in 1 .. Len(p) : i + 1 \in 1 .. Len(r) /\ 1 < i + 1 /\ p[i] = r[i + 1]
    BY DEF Shorter, OpenAck, OpenReply
  <1>2. \A i \in 1 .. Len(q) : Opens(q[i]) /\ q[i].block = n
    BY <1>1 DEF Asking, NothingBefore, Granted
  <1>3. \A i \in 1 .. Len(p) : OpenReply(p[i]) => OpenAck(p[i])
    BY <1>1 DEF Asking, Granted
  <1>4. s = 0 => AllAnswered(q, p)
    BY <1>1, <1>2 DEF Asking, OnlyOne, AllAnswered
  <1>5. \A i \in 1 .. Len(p) : OpenReply(p[i]) \/ s = 0
    BY <1>1 DEF Asking, RepliesLast
  <1>6. RepliesFirst(p) /\ NothingBehind(q, p)
    BY <1>4, <1>5 DEF RepliesFirst, NothingBehind, AllAnswered
  <1>7. RequestsFirst(q) /\ AllOpenHere(q, p, n)
    BY <1>2, <1>3 DEF RequestsFirst, AllOpenHere
  <1>8. QED  BY <1>2, <1>4, <1>6, <1>7 DEF Filling

LEMMA FillingReads ==
    ASSUME NEW q, NEW r, NEW p, NEW n, NEW s, Filling(q, r, n, s), Shorter(r, p)
    PROVE  /\ Filling(q, p, n, s)
           /\ ~OpenReply(r[1]) => AllAnswered(q, p)
  <1>1. /\ Len(p) \in Nat /\ 1 \in 1 .. Len(r)
        /\ \A i \in 1 .. Len(p) : i + 1 \in 1 .. Len(r) /\ 1 < i + 1 /\ p[i] = r[i + 1]
    BY DEF Shorter
  <1>2. RepliesFirst(p) /\ NothingBehind(q, p) /\ AllOpenHere(q, p, n)
    BY <1>1 DEF Filling, RepliesFirst, NothingBehind, AllOpenHere
  <1>3. s = 0 => AllAnswered(q, p)  BY <1>1 DEF Filling, AllAnswered
  <1>4. ~OpenReply(r[1]) => AllAnswered(q, p)
    BY <1>1 DEF Filling, RepliesFirst, NothingBehind, AllAnswered
  <1>5. QED  BY <1>2, <1>3, <1>4 DEF Filling

(* The frames of the block come behind the requests to open it. *)
LEMMA FillingSends ==
    ASSUME NEW q, NEW r, NEW w, NEW m, NEW n, NEW s, NEW z,
           Filling(q, r, n, s), ~Opens(m), Longer(q, w, m, z), z = 0 => s = 0
    PROVE  Filling(w, r, n, z)
  <1>1. /\ Len(q) \in Nat /\ Len(w) \in Nat /\ Len(w) >= Len(q)
        /\ \A i \in 1 .. Len(w) : IF i <= Len(q) THEN w[i] = q[i] ELSE w[i] = m
    BY DEF Longer
  <1>2. \A i \in 1 .. Len(w) : Opens(w[i]) => i \in 1 .. Len(q) /\ w[i] = q[i]
    BY <1>1
  <1>3. RequestsFirst(w)
    BY <1>1, <1>2 DEF Filling, RequestsFirst
  <1>4. NothingBehind(w, r) /\ AllOpenHere(w, r, n)
    BY <1>2 DEF Filling, NothingBehind, AllOpenHere
  <1>5. z = 0 => AllAnswered(w, r)  BY <1>2 DEF Filling, AllAnswered
  <1>6. QED  BY <1>3, <1>4, <1>5 DEF Filling

-----------------------------------------------------------------------------
(* The node's end of the queues.                                           *)

(* A request to open is answered with the node's block. *)
OpenAnswer(m, n) ==
    IF m.block = n THEN AckAt("DATA_START", n)
                   ELSE NackAt("DATA_START", "BLOCK_INDEX_MISMATCH", n)

LEMMA AnswerNames ==
    ASSUME NEW m, NEW n
    PROVE  /\ OpenReply(OpenAnswer(m, n)) /\ OpenAnswer(m, n) \in Says(n)
           /\ OpenAck(OpenAnswer(m, n)) <=> m.block = n
  BY DEF OpenAnswer, Says, OpenReply, OpenAck, AckAt, NackAt

LEMMA AskingAnswered ==
    ASSUME NEW q, NEW r, NEW w, NEW p, NEW n, NEW s, NEW t, NEW z,
           Asking(q, r, n, s, t), Opens(q[1]), Shorter(q, w),
           Longer(r, p, OpenAnswer(q[1], n), z), z = 0 => s = 0
    PROVE  Asking(w, p, n, z, t)
  <1> DEFINE a == OpenAnswer(q[1], n)
  <1>1. OpenReply(a) /\ a \in Says(n) /\ (OpenAck(a) <=> q[1].block = n)
    BY AnswerNames
  <1>2. Longer(r, p, a, z)  OBVIOUS
  <1> HIDE DEF a
  <1>3. /\ Len(r) \in Nat /\ Len(p) \in Nat /\ Len(p) >= Len(r)
        /\ \A i \in 1 .. Len(p) : IF i <= Len(r) THEN p[i] = r[i] ELSE p[i] = a
    BY <1>2 DEF Longer
  <1>4. /\ Len(w) \in Nat /\ Len(q) \in Nat /\ 1 \in 1 .. Len(q)
        /\ \A i \in 1 .. Len(w) : i + 1 \in 1 .. Len(q) /\ 1 < i + 1 /\ w[i] = q[i + 1]
    BY DEF Shorter
  <1>5. \A i \in 1 .. Len(q) : Opens(q[i])
    BY <1>4 DEF Asking, RequestsLast
  <1>6. \A i \in 1 .. Len(w) : Opens(w[i])  BY <1>4, <1>5
  <1>7. RepliesLast(p, t)  BY <1>1, <1>3 DEF Asking, RepliesLast
  <1>8. RequestsLast(w) /\ NothingBefore(w, p) /\ Uniform(w)
    BY <1>6 DEF RequestsLast, NothingBefore, Uniform
  <1>9. Granted(w, p, n)
    <2>1. CASE q[1].block = n
      <3>1. \A i \in 1 .. Len(w) : w[i].block = n
        BY <1>4, <1>5, <2>1 DEF Asking, Granted
      <3>2. \A i, j \in 1 .. Len(p) :
              i < j /\ OpenAck(p[i]) /\ OpenReply(p[j]) => OpenAck(p[j])
        BY <1>1, <1>3, <2>1 DEF Asking, Granted
      <3>3. QED  BY <3>1, <3>2 DEF Granted
    <2>2. CASE q[1].block # n
      <3>1. \A i \in 1 .. Len(r) : ~OpenAck(r[i])
        BY <1>4, <2>2 DEF Asking, Granted
      <3>2. \A i \in 1 .. Len(p) : ~OpenAck(p[i])
        BY <1>1, <1>3, <2>2, <3>1
      <3>3. \A i, j \in 1 .. Len(w) :
              i < j /\ Opens(w[i]) /\ Opens(w[j]) /\ w[i].block = n => w[j].block = n
        BY <1>4 DEF Asking, Granted
      <3>4. QED  BY <3>2, <3>3 DEF Granted
    <2>3. QED  BY <2>1, <2>2
  <1>10. NamesBlock(p, n)  BY <1>1, <1>3 DEF Asking, NamesBlock
  <1>11. ASSUME z = 0
         PROVE  OnlyOne(w, p)
    <2>1. OnlyOne(q, r) /\ Len(p) <= Len(r) + 1  BY <1>2, <1>11 DEF Asking, Longer
    <2>2. \A i \in 1 .. Len(w) : FALSE
      BY <1>4, <1>5, <2>1 DEF OnlyOne
    <2>3. \A i \in 1 .. Len(r) : ~OpenReply(r[i])
      BY <1>4, <1>5, <2>1 DEF OnlyOne
    <2>4. \A i \in 1 .. Len(p) : OpenReply(p[i]) => i = Len(r) + 1
      BY <1>3, <2>1, <2>3
    <2>5. QED  BY <2>2, <2>4 DEF OnlyOne
  <1>12. QED  BY <1>7, <1>8, <1>9, <1>10, <1>11 DEF Asking

(* Another frame is still in front of the requests: none has been answered. *)
LEMMA AskingPassed ==
    ASSUME NEW q, NEW r, NEW w, NEW p, NEW n, NEW k, NEW s, NEW t, NEW z, NEW a,
           Asking(q, r, n, s, t), ~Opens(q[1]), Shorter(q, w),
           Longer(r, p, a, z), ~OpenReply(a), z = 0 => s = 0
    PROVE  Asking(w, p, k, z, t)
  <1>1. /\ Len(r) \in Nat /\ Len(p) \in Nat /\ Len(p) >= Len(r)
        /\ \A i \in 1 .. Len(p) : IF i <= Len(r) THEN p[i] = r[i] ELSE p[i] = a
    BY DEF Longer
  <1>2. /\ Len(w) \in Nat /\ Len(q) \in Nat /\ 1 \in 1 .. Len(q)
        /\ \A i \in 1 .. Len(w) : i + 1 \in 1 .. Len(q) /\ 1 < i + 1 /\ w[i] = q[i + 1]
    BY DEF Shorter
  <1>3. \A i \in 1 .. Len(r) : ~OpenReply(r[i])
    BY <1>2 DEF Asking, NothingBefore
  <1>4. \A i \in 1 .. Len(p) : ~OpenReply(p[i]) /\ ~OpenAck(p[i])
    BY <1>1, <1>3 DEF OpenReply, OpenAck
  <1>5. RepliesLast(p, t) /\ NothingBefore(w, p) /\ NamesBlock(p, k)
    BY <1>4 DEF RepliesLast, NothingBefore, NamesBlock
  <1>6. RequestsLast(w)  BY <1>2 DEF Asking, RequestsLast
  <1>7. \A i, j \in 1 .. Len(q) : Opens(q[i]) /\ Opens(q[j]) => q[i].block = q[j].block
    BY <1>2 DEF Asking, Uniform
  <1>8. \A i, j \in 1 .. Len(w) : Opens(w[i]) /\ Opens(w[j]) => w[i].block = w[j].block
    BY <1>2, <1>7
  <1>9. Granted(w, p, k)  BY <1>4, <1>8 DEF Granted
  <1>10. z = 0 => OnlyOne(w, p)  BY <1>2, <1>4 DEF Asking, OnlyOne
  <1>11. Uniform(w)  BY <1>8 DEF Uniform
  <1>12. QED  BY <1>5, <1>6, <1>9, <1>10, <1>11 DEF Asking

LEMMA FillingAnswered ==
    ASSUME NEW q, NEW r, NEW w, NEW p, NEW n, NEW s, NEW z,
           Filling(q, r, n, s), Opens(q[1]), Shorter(q, w),
           Longer(r, p, OpenAnswer(q[1], n), z), z = 0 => s = 0
    PROVE  Filling(w, p, n, z)
  <1> DEFINE a == OpenAnswer(q[1], n)
  <1>1. OpenReply(a) /\ (OpenAck(a) <=> q[1].block = n)
    BY AnswerNames
  <1>2. Longer(r, p, a, z)  OBVIOUS
  <1> HIDE DEF a
  <1>3. /\ Len(r) \in Nat /\ Len(p) \in Nat /\ Len(p) >= Len(r)
        /\ \A i \in 1 .. Len(p) : IF i <= Len(r) THEN p[i] = r[i] ELSE p[i] = a
    BY <1>2 DEF Longer
  <1>4. /\ Len(w) \in Nat /\ Len(q) \in Nat /\ 1 \in 1 .. Len(q)
        /\ \A i \in 1 .. Len(w) : i + 1 \in 1 .. Len(q) /\ 1 < i + 1 /\ w[i] = q[i + 1]
    BY DEF Shorter
  <1>5. OpenAck(a)  BY <1>1, <1>4 DEF Filling, AllOpenHere
  <1>6. \A i \in 1 .. Len(r) : OpenReply(r[i]) /\ OpenAck(r[i])
    BY <1>4 DEF Filling, NothingBehind, AllOpenHere
  <1>7. \A i \in 1 .. Len(p) : OpenReply(p[i]) /\ OpenAck(p[i])
    BY <1>1, <1>3, <1>5, <1>6
  <1>8. RepliesFirst(p) /\ NothingBehind(w, p)
    BY <1>7 DEF RepliesFirst, NothingBehind
  <1>9. RequestsFirst(w)  BY <1>4 DEF Filling, RequestsFirst
  <1>10. AllOpenHere(w, p, n)  BY <1>4, <1>7 DEF Filling, AllOpenHere
  <1>11. z # 0  BY <1>4 DEF Filling, AllAnswered
  <1>12. QED  BY <1>8, <1>9, <1>10, <1>11 DEF Filling

LEMMA FillingPassed ==
    ASSUME NEW q, NEW r, NEW w, NEW p, NEW n, NEW k, NEW s, NEW z, NEW a,
           Filling(q, r, n, s), ~Opens(q[1]), Shorter(q, w),
           Longer(r, p, a, z), ~OpenReply(a), z = 0 => s = 0
    PROVE  Filling(w, p, k, z)
  <1>1. /\ Len(r) \in Nat /\ Len(p) \in Nat /\ Len(p) >= Len(r)
        /\ \A i \in 1 .. Len(p) : IF i <= Len(r) THEN p[i] = r[i] ELSE p[i] = a
    BY DEF Longer
  <1>2. /\ Len(w) \in Nat /\ Len(q) \in Nat /\ 1 \in 1 .. Len(q)
        /\ \A i \in 1 .. Len(w) : i + 1 \in 1 .. Len(q) /\ 1 < i + 1 /\ w[i] = q[i + 1]
    BY DEF Shorter
  <1>3. \A i \in 1 .. Len(w) : ~Opens(w[i])
    BY <1>2 DEF Filling, RequestsFirst
  <1>4. \A i \in 1 .. Len(p) : OpenReply(p[i]) => i \in 1 .. Len(r) /\ p[i] = r[i]
    BY <1>1
  <1>5. RepliesFirst(p)
    BY <1>1, <1>4 DEF Filling, RepliesFirst
  <1>6. RequestsFirst(w) /\ NothingBehind(w, p)  BY <1>3 DEF RequestsFirst, NothingBehind
  <1>7. AllOpenHere(w, p, k)  BY <1>3, <1>4 DEF Filling, AllOpenHere
  <1>8. z = 0 => AllAnswered(w, p)  BY <1>3, <1>4 DEF Filling, AllAnswered
  <1>9. QED  BY <1>5, <1>6, <1>7, <1>8 DEF Filling

(* A tick: nothing is on its way to the node, and what it says is no answer *)
(* to a request.                                                           *)
LEMMA AskingTicks ==
    ASSUME NEW q, NEW r, NEW p, NEW n, NEW s, NEW t, NEW z, NEW v, NEW a,
           Asking(q, r, n, s, t), Len(q) = 0, Longer(r, p, a, z), ~OpenReply(a),
           z = 0 => s = 0, t > 0 => v > 0, Len(r) = 0 \/ v > 0
    PROVE  Asking(q, p, n, z, v)
  <1>1. /\ Len(r) \in Nat /\ Len(p) \in Nat /\ Len(p) >= Len(r)
        /\ \A i \in 1 .. Len(p) : IF i <= Len(r) THEN p[i] = r[i] ELSE p[i] = a
    BY DEF Longer
  <1>2. \A i \in 1 .. Len(q) : FALSE  OBVIOUS
  <1>3. \A i \in 1 .. Len(p) :
          OpenReply(p[i]) \/ OpenAck(p[i]) => i \in 1 .. Len(r) /\ p[i] = r[i]
    BY <1>1 DEF OpenReply, OpenAck
  <1>4. RepliesLast(p, v)
    <2>1. CASE v > 0  BY <2>1 DEF RepliesLast
    <2>2. CASE Len(r) = 0  BY <1>3, <2>2 DEF RepliesLast
    <2>3. QED  BY <2>1, <2>2
  <1>5. RequestsLast(q) /\ NothingBefore(q, p) /\ Uniform(q)
    BY <1>2 DEF RequestsLast, NothingBefore, Uniform
  <1>6. Granted(q, p, n)  BY <1>1, <1>2, <1>3 DEF Asking, Granted
  <1>7. NamesBlock(p, n)  BY <1>3 DEF Asking, NamesBlock
  <1>8. z = 0 => OnlyOne(q, p)  BY <1>2, <1>3 DEF Asking, OnlyOne
  <1>9. QED  BY <1>4, <1>5, <1>6, <1>7, <1>8 DEF Asking

LEMMA FillingTicks ==
    ASSUME NEW q, NEW r, NEW p, NEW n, NEW s, NEW z, NEW a,
           Filling(q, r, n, s), Len(q) = 0, Longer(r, p, a, z), ~OpenReply(a),
           z = 0 => s = 0
    PROVE  Filling(q, p, n, z)
  <1>1. /\ Len(r) \in Nat /\ Len(p) \in Nat /\ Len(p) >= Len(r)
        /\ \A i \in 1 .. Len(p) : IF i <= Len(r) THEN p[i] = r[i] ELSE p[i] = a
    BY DEF Longer
  <1>2. \A i \in 1 .. Len(q) : FALSE  OBVIOUS
  <1>3. \A i \in 1 .. Len(p) : OpenReply(p[i]) => i \in 1 .. Len(r) /\ p[i] = r[i]
    BY <1>1
  <1>4. RepliesFirst(p)  BY <1>1, <1>3 DEF Filling, RepliesFirst
  <1>5. RequestsFirst(q) /\ NothingBehind(q, p)  BY <1>2 DEF RequestsFirst, NothingBehind
  <1>6. AllOpenHere(q, p, n)  BY <1>2, <1>3 DEF Filling, AllOpenHere
  <1>7. z = 0 => AllAnswered(q, p)  BY <1>2, <1>3 DEF Filling, AllAnswered
  <1>8. QED  BY <1>4, <1>5, <1>6, <1>7 DEF Filling

-----------------------------------------------------------------------------
(* The frames that end a block.                                            *)

LEMMA EndsKept ==
    ASSUME NEW q, NEW w, NEW m, NEW c, NEW z,
           Together(q), EndsBelong(q, c), ~Closes(m), Longer(q, w, m, z)
    PROVE  Together(w) /\ EndsBelong(w, c)
  <1>1. /\ Len(q) \in Nat /\ Len(w) \in Nat /\ Len(w) >= Len(q)
        /\ \A i \in 1 .. Len(w) : IF i <= Len(q) THEN w[i] = q[i] ELSE w[i] = m
    BY DEF Longer
  <1>2. \A i \in 1 .. Len(w) : Closes(w[i]) => i \in 1 .. Len(q) /\ w[i] = q[i]
    BY <1>1
  <1>3. Together(w)  BY <1>1, <1>2 DEF Together
  <1>4. ASSUME NEW i \in 1 .. Len(w), Closes(w[i])
        PROVE  EndsBlock(w, i, c)
    <2>1. i \in 1 .. Len(q) /\ w[i] = q[i]  BY <1>2, <1>4
    <2>2. EndsBlock(q, i, c)  BY <1>4, <2>1 DEF EndsBelong
    <2>3. Spent(q, i, c) => Spent(w, i, c)  BY <1>1, <2>1 DEF Spent
    <2>4. QED  BY <2>1, <2>2, <2>3 DEF EndsBlock
  <1>5. QED  BY <1>3, <1>4 DEF EndsBelong

LEMMA EndSent ==
    ASSUME NEW q, NEW w, NEW c, NEW b \in FileBlocks, NEW z, b = c.block,
           \A i \in 1 .. Len(q) : ~Closes(q[i]), Longer(q, w, DataEndFrame(b), z)
    PROVE  Together(w) /\ EndsBelong(w, c)
  <1>1. /\ Len(q) \in Nat /\ Len(w) \in Nat /\ Len(w) >= Len(q)
        /\ \A i \in 1 .. Len(w) : IF i <= Len(q) THEN w[i] = q[i] ELSE w[i] = DataEndFrame(b)
    BY DEF Longer
  <1>2. Closes(DataEndFrame(b))  BY DEF Closes, DataEndFrame
  <1>3. \A i \in 1 .. Len(w) :
           (Closes(w[i]) <=> i > Len(q)) /\ (i > Len(q) => w[i] = DataEndFrame(b))
    BY <1>1, <1>2
  <1>4. Together(w)  BY <1>1, <1>3 DEF Together
  <1>5. EndsBelong(w, c)  BY <1>3 DEF EndsBelong, EndsBlock
  <1>6. QED  BY <1>4, <1>5

LEMMA TogetherTaken ==
    ASSUME NEW q, NEW w, Together(q), Shorter(q, w)
    PROVE  Together(w)
  <1>1. /\ Len(w) \in Nat /\ Len(q) \in Nat /\ 1 \in 1 .. Len(q)
        /\ \A i \in 1 .. Len(w) : i + 1 \in 1 .. Len(q) /\ 1 < i + 1 /\ w[i] = q[i + 1]
    BY DEF Shorter
  <1>2. QED  BY <1>1 DEF Together

(* A repeated DATA_END is only ever followed by the frames of the next step. *)
LEMMA EndsPassed ==
    ASSUME NEW q, NEW w, NEW c, NEW d, EndsBelong(q, c), Shorter(q, w), ~Closes(q[1]),
           d.block = c.block
    PROVE  EndsBelong(w, d)
  <1>1. /\ Len(w) \in Nat /\ Len(q) \in Nat /\ 1 \in 1 .. Len(q)
        /\ \A i \in 1 .. Len(w) : i + 1 \in 1 .. Len(q) /\ 1 < i + 1 /\ w[i] = q[i + 1]
    BY DEF Shorter
  <1>2. ASSUME NEW i \in 1 .. Len(w), Closes(w[i])
        PROVE  EndsBlock(w, i, d)
    <2>1. EndsBlock(q, i + 1, c)  BY <1>1, <1>2 DEF EndsBelong
    <2>2. ~Spent(q, i + 1, c)  BY <1>1 DEF Spent
    <2>3. QED  BY <1>1, <2>1, <2>2 DEF EndsBlock
  <1>3. QED  BY <1>2 DEF EndsBelong

LEMMA EndsRefused ==
    ASSUME NEW q, NEW w, NEW c, NEW d, Together(q), EndsBelong(q, c), Shorter(q, w),
           Closes(q[1]), d.block = c.block,
           OnlyTail(c, q[1]) => OnlyTail(d, q[1])
    PROVE  EndsBelong(w, d)
  <1>1. /\ Len(w) \in Nat /\ Len(q) \in Nat /\ 1 \in 1 .. Len(q)
        /\ \A i \in 1 .. Len(w) : i + 1 \in 1 .. Len(q) /\ 1 < i + 1 /\ w[i] = q[i + 1]
    BY DEF Shorter
  <1>2. ASSUME NEW i \in 1 .. Len(w), Closes(w[i])
        PROVE  EndsBlock(w, i, d)
    <2>1. EndsBlock(q, i + 1, c)  BY <1>1, <1>2 DEF EndsBelong
    <2>2. q[i + 1] = q[1] /\ w[i] = q[1]  BY <1>1, <1>2 DEF Together
    <2>3. Spent(q, i + 1, c) => Spent(w, i, d)
      BY <1>1, <2>2 DEF Spent
    <2>4. QED  BY <1>1, <2>1, <2>3 DEF EndsBlock
  <1>3. QED  BY <1>2 DEF EndsBelong

LEMMA EndsTaken ==
    ASSUME NEW q, NEW w, NEW d, NEW b \in FileBlocks, Together(q), Shorter(q, w),
           Closes(q[1]), q[1] = DataEndFrame(b), d.block = b + 1, OnlyTail(d, q[1])
    PROVE  EndsBelong(w, d)
  <1>1. /\ Len(w) \in Nat /\ Len(q) \in Nat /\ 1 \in 1 .. Len(q)
        /\ \A i \in 1 .. Len(w) : i + 1 \in 1 .. Len(q) /\ 1 < i + 1 /\ w[i] = q[i + 1]
    BY DEF Shorter
  <1>2. ASSUME NEW i \in 1 .. Len(w), Closes(w[i])
        PROVE  EndsBlock(w, i, d)
    <2>1. w[i] = q[1]  BY <1>1, <1>2 DEF Together
    <2>2. ASSUME NEW j \in 1 .. Len(w), j < i
          PROVE  Closes(w[j])
      BY <1>1, <1>2, <2>2 DEF Together
    <2>3. Spent(w, i, d)  BY <2>1, <2>2 DEF Spent
    <2>4. QED  BY <2>1, <2>3 DEF EndsBlock
  <1>3. QED  BY <1>2 DEF EndsBelong

-----------------------------------------------------------------------------
(* What a repeated DATA_END finds.                                         *)

LEMMA SumOfTail ==
    ASSUME NEW t \in Nat
    PROVE  SumFunction([NoData EXCEPT ![0] = t]) = t
  <1> DEFINE f == [NoData EXCEPT ![0] = t]
             Bad == {n \in Nat : n # 0 /\ n <= NFrames /\ SumFunctionOnSet(f, 0 .. n - 1) # t}
  <1>1. /\ DOMAIN f = 0 .. NFrames - 1 /\ f[0] = t
        /\ \A i \in 0 .. NFrames - 1 : i # 0 => f[i] = 0
    BY SizesAssumption DEF NoData, Frames
  <1>2. \A i \in 0 .. NFrames - 1 : f[i] \in Nat  BY <1>1
  <1> HIDE DEF f
  <1>3. ASSUME NEW n \in Bad, \A k \in Bad : ~(k < n)
        PROVE  FALSE
    <2>1. n \in Nat \ {0} /\ n <= NFrames /\ SumFunctionOnSet(f, 0 .. n - 1) # t
      BY <1>3
    <2>2. CASE n = 1
      <3>1. 0 .. n - 1 = {} \cup {0}  BY <2>2
      <3>2. SumFunctionOnSet(f, {} \cup {0}) = SumFunctionOnSet(f, {}) + f[0]
        BY <1>1, FS_EmptySet, SumGrows
      <3>3. SumFunctionOnSet(f, 0 .. n - 1) = 0 + f[0]  BY <3>1, <3>2, SumOfNone
      <3>4. QED  BY <1>1, <2>1, <3>3
    <2>3. CASE n # 1
      <3> DEFINE S == 0 .. n - 2
      <3>1. 0 .. n - 1 = S \cup {n - 1} /\ n - 1 \notin S /\ n - 1 \in Nat \ {0}
        BY <2>1, <2>3
      <3>2. IsFiniteSet(S)
        <4>1. 0 \in Int /\ n - 2 \in Int  BY <2>1
        <4>2. QED  BY <4>1, FS_Interval
      <3>3. n - 1 \in 0 .. NFrames - 1 /\ n - 1 < n /\ n - 1 <= NFrames
        BY <2>1, <2>3, SizesAssumption
      <3>4. \A y \in S \cup {n - 1} : f[y] \in Nat
        <4>1. S \cup {n - 1} \subseteq 0 .. NFrames - 1  BY <2>1, <3>3, SizesAssumption
        <4>2. QED  BY <1>2, <4>1
      <3>5. n - 1 \notin Bad  BY <1>3, <3>3
      <3>6. SumFunctionOnSet(f, 0 .. (n - 1) - 1) = t
        BY <3>1, <3>3, <3>5
      <3>7. S = 0 .. (n - 1) - 1  BY <2>1
      <3>8. f[n - 1] = 0  BY <1>1, <3>1, <3>3
      <3> HIDE DEF S
      <3>9. SumFunctionOnSet(f, S \cup {n - 1}) = SumFunctionOnSet(f, S) + f[n - 1]
        BY <3>1, <3>2, <3>4, SumGrows
      <3>10. SumFunctionOnSet(f, 0 .. n - 1) = SumFunctionOnSet(f, S) + f[n - 1]
        BY <3>1, <3>9
      <3>11. SumFunctionOnSet(f, S) = t  BY <3>6, <3>7
      <3>12. QED  BY <2>1, <3>8, <3>10, <3>11
    <2>4. QED  BY <2>2, <2>3
  <1>4. Bad = {}
    <2>1. Bad \in SUBSET Nat  OBVIOUS
    <2> HIDE DEF Bad
    <2>2. QED  BY <1>3, <2>1, LeastNat
  <1>5. NFrames \notin Bad  BY <1>4
  <1>6. SumFunctionOnSet(f, 0 .. NFrames - 1) = t  BY <1>5, SizesAssumption
  <1>7. QED  BY <1>1, <1>6 DEF SumFunction, f

(* It is refused.  *)
LEMMA SpentRefused ==
    ASSUME TailsTell, NEW b \in FileBlocks, NEW m, m = DataEndFrame(b), OnlyTail(ctx, m)
    PROVE  ~SumHolds(m)
  <1>1. b \in Nat  BY FileTypes DEF FileBlocks
  <1>2. m.unit \in Nat /\ m.unit = BlockOf(b)[NFrames - 1] /\ m.sum = BlockSum(BlockOf(b))
    BY <1>1, BlockTypesOfFile, SizesAssumption DEF DataEndFrame, Frames
  <1>3. Filled(m) = [NoData EXCEPT ![0] = m.unit]
    BY DEF OnlyTail, Filled
  <1>4. BlockSum(Filled(m)) = m.unit % BlockMod
    BY <1>2, <1>3, SumOfTail DEF BlockSum
  <1>5. QED  BY <1>2, <1>4 DEF SumHolds, TailsTell

-----------------------------------------------------------------------------
(* The engine's steps, seen from the blocks.                               *)

SaysAccepted(r) == r.kind = "ACK" /\ r.cmd = "METADATA"

LEMMA Openings ==
    /\ ~OpenReply(Silent) /\ ~SaysAccepted(Silent)
    /\ ~OpenReply(Beacon) /\ ~SaysAccepted(Beacon)
    /\ \A c : /\ OpenReply(Ack(c)) <=> c = "DATA_START"
              /\ SaysAccepted(Ack(c)) <=> c = "METADATA"
    /\ \A c, i : /\ OpenReply(AckAt(c, i)) <=> c = "DATA_START"
                 /\ SaysAccepted(AckAt(c, i)) <=> c = "METADATA"
    /\ \A c, e : (OpenReply(Nack(c, e)) <=> c = "DATA_START") /\ ~SaysAccepted(Nack(c, e))
    /\ \A c, e, i : /\ OpenReply(NackAt(c, e, i)) <=> c = "DATA_START"
                    /\ ~SaysAccepted(NackAt(c, e, i))
  BY DEF OpenReply, SaysAccepted, Silent, Beacon, Ack, AckAt, Nack, NackAt

LEMMA MessageOpens ==
    ASSUME NEW m, ProcessMsg(m)
    PROVE  /\ OpenReply(resp') => Opens(m)
           /\ SaysAccepted(resp') => st' # "START" /\ m.cmd = "METADATA"
           /\ st' = "START" => st = "START" \/ m.cmd = "START"
  <1>1. CASE Cancel(m) \/ IdleIgnore(m) \/ IdleStart(m) \/ StartAgain(m) \/ Metadata(m)
    BY <1>1, Openings
       DEF Cancel, IdleIgnore, IdleStart, StartAgain, Metadata, Answer
  <1>2. CASE IdleReject(m)
    BY <1>2, Openings DEF IdleReject, Answer
  <1>3. CASE IdleEraseFails(m) \/ StartUnexpected(m) \/ DataUnexpected(m)
             \/ VerifyUnexpected(m) \/ RebootUnexpected(m)
    BY <1>3, Openings
       DEF IdleEraseFails, StartUnexpected, DataUnexpected, VerifyUnexpected,
           RebootUnexpected, Answer, Opens
  <1>4. CASE DataStart(m) \/ DataStartElsewhere(m) \/ Data(m) \/ DataOutOfOrder(m)
    BY <1>4, Openings
       DEF DataStart, DataStartElsewhere, Data, DataOutOfOrder, Answer, Opens
  <1>5. CASE BlockBad(m) \/ BlockWriteFails(m) \/ BlockMismatch(m) \/ BlockCommit(m)
    BY <1>5, Openings
       DEF BlockBad, BlockWriteFails, BlockMismatch, BlockCommit, BlockEnds, Answer
  <1>6. CASE VerifyPass(m) \/ VerifyFail(m) \/ Reboot(m)
    BY <1>6, Openings DEF VerifyPass, VerifyFail, Reboot, Rebooted, Answer
  <1>7. QED
    BY <1>1, <1>2, <1>3, <1>4, <1>5, <1>6, Zenon DEF ProcessMsg

(* What a frame does to the blocks of a session that goes on.              *)
SameBlocks == ctx'.block = ctx.block /\ target' = target /\ flash' = flash
SessionBegins(m) ==
    st = "START" /\ st' = "DATA_TRANSFER" /\ m.cmd = "METADATA" /\ ctx'.block = 0
Stays(m) ==
    /\ st' = st /\ st \in Accepted /\ SameBlocks
    /\ st = "DATA_TRANSFER" =>
         /\ Opens(m) => resp' = OpenAnswer(m, ctx.block)
         /\ Closes(m) /\ OnlyTail(ctx, m) => OnlyTail(ctx', m)
TakesBlock(m) ==
    /\ BlockEnds(m) /\ SumHolds(m) /\ ctx.block < NBlocks
    /\ st' \in {"DATA_TRANSFER", "VERIFY_PENDING"}
    /\ ctx'.block = ctx.block + 1 /\ OnlyTail(ctx', m)
    /\ target' = target
    /\ \A u \in Units :
         flash'[target][u] = IF u \in UnitsOf(ctx.block) THEN Filled(m)[u % NFrames]
                                                         ELSE flash[target][u]
Passes ==
    /\ st = "VERIFY_PENDING" /\ st' = "REBOOT_PENDING"
    /\ FlashSum(ctx) = ctx.sum /\ SameBlocks
Blockwise(m) ==
    st' \in {"IDLE", "START"} \/ SessionBegins(m) \/ Stays(m) \/ TakesBlock(m) \/ Passes

LEMMA TakesBlocks ==
    ASSUME FsmInv, NEW m \in HostFrames, BlockCommit(m)
    PROVE  TakesBlock(m)
  <1>1. /\ TypeOK /\ m \in Wire /\ BlockEnds(m) /\ SumHolds(m) /\ Lands(m)
        /\ flash' = [flash EXCEPT ![target] = Written(m)] /\ target' = target
        /\ ctx' = NextBlock /\ st' \in {"DATA_TRANSFER", "VERIFY_PENDING"}
    BY FramesOnWire DEF FsmInv, BlockCommit, BlockEnds, Answer
  <1>2. ctx.block < NBlocks  BY <1>1, BlockTypes
  <1>3. ctx'.block = ctx.block + 1 /\ ctx'.acc = 0  BY <1>1, <1>2, NextBlockType
  <1>4. ctx'.buf = NoData
    <2>1. Heard \in Contexts  BY <1>1, HeardType
    <2>2. NextBlock.buf = NoData  BY <2>1 DEF NextBlock, Contexts
    <2>3. QED  BY <1>1, <2>2
  <1>5. OnlyTail(ctx', m)  BY <1>3, <1>4 DEF OnlyTail
  <1>6. flash'[target] = Written(m)  BY <1>1 DEF TypeOK
  <1>7. ASSUME NEW u \in Units
        PROVE  flash'[target][u] = IF u \in UnitsOf(ctx.block) THEN Filled(m)[u % NFrames]
                                                               ELSE flash[target][u]
    <2>1. CASE u \in UnitsOf(ctx.block)
      BY <1>1, <1>6, <2>1 DEF Lands, Matches
    <2>2. CASE u \notin UnitsOf(ctx.block)
      BY <1>6, <2>2 DEF Written, Programmed
    <2>3. QED  BY <2>1, <2>2
  <1>8. QED  BY <1>1, <1>2, <1>3, <1>5, <1>7 DEF TakesBlock

(* A block refused leaves the tail it came with, and nothing of itself     *)
(* that the next try would keep.                                           *)
LEMMA BadBlockStays ==
    ASSUME FsmInv, NEW m \in HostFrames, BlockBad(m)
    PROVE  Stays(m)
  <1>1. /\ TypeOK /\ m \in Wire /\ BlockEnds(m) /\ st = "DATA_TRANSFER" /\ m.cmd = "DATA_END"
        /\ flash' = flash /\ target' = target /\ st' = st
        /\ ctx' = [Tailed(m) EXCEPT !.acc = 0]
    BY FramesOnWire DEF FsmInv, BlockBad, BlockEnds, Answer, Keep
  <1>2. Tailed(m) \in Contexts /\ Tailed(m).block = ctx.block  BY <1>1, BlockTypes
  <1>3. ctx'.block = ctx.block /\ ctx'.acc = 0 /\ ctx'.buf = Tailed(m).buf
    BY <1>1, <1>2 DEF Contexts
  <1>4. Tailed(m).buf = Filled(m)
    <2>1. Heard \in Contexts  BY <1>1, HeardType
    <2>2. QED  BY <2>1 DEF Tailed, Contexts
  <1>5. ASSUME OnlyTail(ctx, m)
        PROVE  OnlyTail(ctx', m)
    <2>1. ctx'.buf = [NoData EXCEPT ![0] = m.unit]
      BY <1>3, <1>4, <1>5 DEF OnlyTail, Filled
    <2>2. [[NoData EXCEPT ![0] = m.unit] EXCEPT ![0] = m.unit] = [NoData EXCEPT ![0] = m.unit]
      BY DEF NoData
    <2>3. QED  BY <1>3, <2>1, <2>2 DEF OnlyTail
  <1>6. st \in Accepted /\ ~Opens(m)  BY <1>1 DEF Accepted, Opens
  <1>7. QED  BY <1>1, <1>3, <1>5, <1>6 DEF Stays, SameBlocks

LEMMA DataStays ==
    ASSUME FsmInv, NEW m \in HostFrames,
           DataStart(m) \/ DataStartElsewhere(m) \/ Data(m) \/ DataOutOfOrder(m)
    PROVE  Stays(m)
  <1>1. /\ TypeOK /\ Heard \in Contexts /\ Heard.block = ctx.block
        /\ st = "DATA_TRANSFER" /\ st' = st /\ target' = target /\ flash' = flash
        /\ ~Closes(m) /\ (Opens(m) => resp' = OpenAnswer(m, ctx.block))
    BY HeardType DEF FsmInv, DataStart, DataStartElsewhere, Data, DataOutOfOrder, Answer, Keep,
                     Closes, Opens, OpenAnswer
  <1>2. ctx'.block = ctx.block
    <2>1. CASE DataStart(m)
      BY <1>1, <2>1 DEF DataStart, Answer, Contexts
    <2>2. CASE DataStartElsewhere(m)
      BY <1>1, <2>2 DEF DataStartElsewhere, Answer
    <2>3. CASE Data(m)
      <3> DEFINE d == Stored(Heard, m.unit)
      <3>1. m.unit \in Nat  BY <2>3, FramesOnWire, WireFields DEF Data
      <3>2. d \in Contexts /\ d.block = ctx.block  BY <1>1, <3>1, StoredType
      <3>3. ctx' = [d EXCEPT !.seq = d.seq + 1, !.active = TRUE, !.blockAge = 0]
        BY <2>3 DEF Data, Answer
      <3> HIDE DEF d
      <3>4. QED  BY <3>2, <3>3 DEF Contexts
    <2>4. CASE DataOutOfOrder(m)
      BY <1>1, <2>4 DEF DataOutOfOrder, Answer, Contexts
    <2>5. QED  BY <2>1, <2>2, <2>3, <2>4
  <1>3. QED  BY <1>1, <1>2 DEF Stays, SameBlocks, Accepted

LEMMA MessageBlocks ==
    ASSUME FsmInv, NEW m \in HostFrames, ProcessMsg(m)
    PROVE  Blockwise(m)
  <1>1. TypeOK /\ Heard \in Contexts /\ Heard.block = ctx.block  BY HeardType DEF FsmInv
  <1>2. CASE \/ Cancel(m) \/ IdleIgnore(m) \/ IdleReject(m) \/ IdleStart(m)
             \/ IdleEraseFails(m) \/ StartAgain(m) \/ StartUnexpected(m)
             \/ BlockWriteFails(m) \/ BlockMismatch(m) \/ VerifyFail(m) \/ Reboot(m)
    BY <1>2 DEF Blockwise, Cancel, IdleIgnore, IdleReject, IdleStart, IdleEraseFails,
                StartAgain, StartUnexpected, BlockWriteFails, BlockMismatch, VerifyFail,
                Reboot, Rebooted, Answer
  <1>3. CASE Metadata(m)
    <2>1. ctx.block = 0  BY <1>3 DEF Metadata, FsmInv, SessionSettled
    <2>2. ctx'.block = 0  BY <1>1, <1>3, <2>1 DEF Metadata, Answer, Contexts
    <2>3. QED  BY <1>3, <2>2 DEF Metadata, Answer, SessionBegins, Blockwise
  <1>4. CASE DataUnexpected(m) \/ VerifyUnexpected(m) \/ RebootUnexpected(m)
    <2>1. /\ st' = st /\ st \in Accepted /\ SameBlocks
          /\ st = "DATA_TRANSFER" => ~Opens(m) /\ ~Closes(m)
      BY <1>1, <1>4 DEF DataUnexpected, VerifyUnexpected, RebootUnexpected, Answer, Keep,
                        SameBlocks, Accepted, Opens, Closes
    <2>2. QED  BY <2>1 DEF Stays, Blockwise
  <1>5. CASE DataStart(m) \/ DataStartElsewhere(m) \/ Data(m) \/ DataOutOfOrder(m)
    BY <1>5, DataStays DEF Blockwise
  <1>6. CASE BlockBad(m)  BY <1>6, BadBlockStays DEF Blockwise
  <1>7. CASE BlockCommit(m)  BY <1>7, TakesBlocks DEF Blockwise
  <1>8. CASE VerifyPass(m)
    BY <1>1, <1>8 DEF VerifyPass, Answer, Keep, Passes, SameBlocks, Blockwise
  <1>9. QED
    BY <1>2, <1>3, <1>4, <1>5, <1>6, <1>7, <1>8, Zenon DEF ProcessMsg

LEMMA TickBlocks ==
    ASSUME TypeOK, Tick
    PROVE  /\ ~OpenReply(resp') /\ ~SaysAccepted(resp')
           /\ st' # "IDLE" => st' = st /\ SameBlocks
  <1>1. resp' \in {Silent, Beacon, NackAt("DATA_END", "TIMEOUT", ctx.block)}
    BY DEF Tick, TickIdle, TickBusy, Answer
  <1>2. ~OpenReply(resp') /\ ~SaysAccepted(resp')  BY <1>1, Openings
  <1>3. ASSUME st' # "IDLE"
        PROVE  st' = st /\ SameBlocks
    <2>1. ctx' \in {Aged, Dropped(Aged)} /\ st' = st /\ target' = target /\ flash' = flash
      BY <1>3 DEF Tick, TickIdle, TickBusy, Answer, Keep
    <2>2. ctx'.block = ctx.block  BY <2>1, AgedType, DroppedType
    <2>3. QED  BY <2>1, <2>2 DEF SameBlocks
  <1>4. QED  BY <1>2, <1>3

-----------------------------------------------------------------------------
(* The tool's steps, seen from the blocks.                                 *)

SentOn(m) == Longer(toNode, toNode', m, slips') /\ (slips' = 0 => slips = 0)
Took == Shorter(toHost, toHost')
BothEmpty == toNode = <<>> /\ toHost = <<>> /\ toHost' = toHost

(* Nothing to do with a block. *)
Aside ==
    /\ host'.phase \notin Exchange \cup {"begin"}
    /\ host'.phase \in {"START", "METADATA"} => host.phase \in {"START", "METADATA"}
    /\ \E m \in LaterFrames : ~Opens(m) /\ ~Closes(m) /\ SentOn(m)
    /\ toHost' = toHost \/ Took
First ==
    /\ host.phase = "METADATA" /\ host'.phase = "DATA_START"
    /\ Took /\ SaysAccepted(toHost[1])
    /\ SentOn(DataStartFrame(0))
Anew ==
    /\ host.phase \in InBlock /\ host'.phase = "DATA_START"
    /\ \E b \in FileBlocks : SentOn(DataStartFrame(b))
    /\ BothEmpty \/ (Took /\ ~OpenAck(toHost[1]))
Again ==
    /\ host.phase = "DATA_START" /\ host'.phase = "DATA_START"
    /\ \E b \in FileBlocks :
         /\ SentOn(DataStartFrame(b))
         /\ \/ BothEmpty
            \/ Took /\ OpenReply(toHost[1]) /\ toHost[1].block = b
Enters ==
    /\ host.phase = "DATA_START" /\ host'.phase = "DATA"
    /\ Took /\ OpenAck(toHost[1]) /\ toHost[1].block = host'.block
    /\ UNCHANGED <<toNode, slips>>
Fills ==
    /\ host.phase = "DATA" /\ host'.phase \in {"DATA", "POLL"} /\ host'.block = host.block
    /\ \E m \in LaterFrames : ~Opens(m) /\ ~Closes(m) /\ SentOn(m)
    /\ toHost' = toHost
Ends ==
    /\ host.phase = "DATA" /\ host'.phase = "DATA_END"
    /\ host.block \in FileBlocks /\ SentOn(DataEndFrame(host.block))
    /\ toHost' = toHost
Listens ==
    /\ host.phase \in Exchange
    /\ host'.phase = host.phase \/ (host.phase = "POLL" /\ host'.phase = "DATA")
    /\ host'.block = host.block
    /\ UNCHANGED <<toNode, slips>>
    /\ toHost' = toHost \/ Took
Blockwards == Aside \/ First \/ Anew \/ Again \/ Enters \/ Fills \/ Ends \/ Listens
Rests == UNCHANGED <<vars, stalls, gone>>

LEMMA FrameKinds ==
    /\ \A b : /\ Opens(DataStartFrame(b)) /\ ~Closes(DataStartFrame(b))
              /\ DataStartFrame(b).block = b
              /\ Closes(DataEndFrame(b)) /\ ~Opens(DataEndFrame(b))
    /\ \A b, f : ~Opens(DataFrame(b, f)) /\ ~Closes(DataFrame(b, f))
    /\ \A c \in {"VERIFY", "REBOOT", "CANCEL"} : ~Opens(Command(c)) /\ ~Closes(Command(c))
    /\ ~Opens(MetadataFrame) /\ ~Closes(MetadataFrame)
    /\ ~Opens(StartFrame) /\ ~Closes(StartFrame)
    /\ \E m \in LaterFrames : ~Opens(m) /\ ~Closes(m)
  <1>1. MetadataFrame \in LaterFrames /\ ~Opens(MetadataFrame) /\ ~Closes(MetadataFrame)
    BY ToolFrames DEF Opens, Closes, MetadataFrame
  <1>2. QED
    BY <1>1 DEF Opens, Closes, DataStartFrame, DataEndFrame, DataFrame, Command, StartFrame

LEMMA CarriedLonger ==
    ASSUME NEW S, NEW q \in Seq(S), NEW m \in S, NEW next, slips \in Nat, Carry(q, m, next)
    PROVE  Longer(q, next, m, slips') /\ (slips' = 0 => slips = 0)
  <1>1. /\ next \in Seq(S) /\ Len(next) >= Len(q)
        /\ \A i \in 1 .. Len(next) :
             IF i <= Len(q) THEN next[i] = q[i] ELSE next[i] = m
    BY Carried
  <1>2. Len(q) \in Nat /\ Len(next) \in Nat  BY <1>1
  <1>3. \/ next = Append(q, m) /\ slips' = slips
        \/ slips' = slips + 1
    BY DEF Carry
  <1>4. slips' = 0 => Len(next) <= Len(q) + 1 /\ slips = 0
    BY <1>2, <1>3
  <1>5. QED  BY <1>1, <1>2, <1>4 DEF Longer

LEMMA Unsent ==
    ASSUME NEW S, NEW q \in Seq(S), NEW m, NEW s
    PROVE  Longer(q, q, m, s)
  <1>1. Len(q) \in Nat  OBVIOUS
  <1>2. QED  BY <1>1 DEF Longer

LEMMA SendsOn ==
    ASSUME LinkInv, NEW m \in LaterFrames, Send(m) \/ UNCHANGED <<toNode, slips>>
    PROVE  SentOn(m)
  <1>1. m \in HostFrames /\ toNode \in Seq(HostFrames) /\ slips \in Nat
    BY Opened, WhatFramesSay, LinkAssumption
  <1>2. QED  BY <1>1, CarriedLonger, Unsent DEF Send, SentOn

LEMMA SendsNothing ==
    ASSUME LinkInv, UNCHANGED <<toNode, slips>>
    PROVE  \E m \in LaterFrames : ~Opens(m) /\ ~Closes(m) /\ SentOn(m)
  BY FrameKinds, SendsOn

LEMMA TakeShortens ==
    ASSUME NEW S, NEW q \in Seq(S), q # <<>>
    PROVE  Shorter(q, Tail(q)) /\ Head(q) = q[1]
  <1>1. Len(q) \in Nat \ {0} /\ Len(Tail(q)) = Len(q) - 1 /\ Head(q) = q[1]
    OBVIOUS
  <1>2. \A i \in 1 .. Len(Tail(q)) : Tail(q)[i] = q[i + 1]  OBVIOUS
  <1>3. QED  BY <1>1, <1>2 DEF Shorter

LEMMA Takes ==
    ASSUME LinkInv, toHost # <<>>, Take
    PROVE  Took /\ Reply = toHost[1] /\ Reply \in Replies
  <1>1. toHost \in Seq(Replies)  BY Opened
  <1>2. QED  BY <1>1, TakeShortens, ReplySays DEF Take, Took, Reply

LEMMA GoesToBlock ==
    ASSUME LinkInv, NEW b \in Nat, NEW tries, GoTo(b, tries)
    PROVE  \/ /\ host'.phase = "DATA_START" /\ b \in FileBlocks /\ SentOn(DataStartFrame(b))
           \/ /\ host'.phase = "VERIFY"
              /\ \E m \in LaterFrames : ~Opens(m) /\ ~Closes(m) /\ SentOn(m)
  <1>1. host \in Hosts  BY Opened
  <1>2. CASE b < Blocks
    <2>1. b \in FileBlocks  BY <1>2, FileTypes DEF FileBlocks
    <2>2. host'.phase = "DATA_START" /\ Send(DataStartFrame(b))
      BY <1>1, <1>2 DEF GoTo, Hosts
    <2>3. QED  BY <2>1, <2>2, ToolFrames, SendsOn DEF FileBlocks
  <1>3. CASE ~(b < Blocks)
    <2>1. host'.phase = "VERIFY" /\ Send(Command("VERIFY"))
      BY <1>1, <1>3 DEF GoTo, Hosts
    <2>2. QED  BY <2>1, ToolFrames, FrameKinds, SendsOn
  <1>4. QED  BY <1>2, <1>3

LEMMA StopsAside ==
    ASSUME LinkInv, NEW how \in Ended, Stop(how), toHost' = toHost \/ Took
    PROVE  Aside
  <1>1. host \in Hosts  BY Opened
  <1>2. host'.phase = how /\ UNCHANGED <<toNode, slips>>  BY <1>1 DEF Stop, Hosts
  <1>3. how \notin Exchange \cup {"begin", "START", "METADATA"}
    BY DEF Ended, Exchange, InBlock
  <1>4. QED  BY <1>2, <1>3, SendsNothing DEF Aside

LEMMA HandshakeBlocks ==
    ASSUME LinkInv, NEW c \in {"START", "METADATA", "VERIFY"}, NEW next,
           NEW frame \in LaterFrames, Handshake(c, next, frame)
    PROVE  /\ host.phase = c /\ Rests /\ Took
           /\ \/ Aside
              \/ host'.phase = next /\ SentOn(frame) /\ Acks(c) /\ Reply = toHost[1]
  <1>1. host \in Hosts  BY Opened
  <1>2. host.phase = c /\ Rests /\ toHost # <<>> /\ Take
    BY DEF Handshake, Waiting, Node, Rests
  <1>3. Took /\ Reply = toHost[1]  BY <1>2, Takes
  <1>4. CASE Acks(c)
    <2>1. host'.phase = next /\ Send(frame)  BY <1>1, <1>4 DEF Handshake, Hosts
    <2>2. QED  BY <1>2, <1>3, <1>4, <2>1, SendsOn
  <1>5. CASE ~Acks(c)
    <2>1. host'.phase = c /\ UNCHANGED <<toNode, slips>>
      BY <1>1, <1>2, <1>5 DEF Handshake, Hosts
    <2>2. Aside  BY <1>2, <1>3, <2>1, SendsNothing DEF Aside, Exchange, InBlock
    <2>3. QED  BY <1>2, <1>3, <2>2
  <1>6. QED  BY <1>4, <1>5

LEMMA HandshakesBlocks ==
    ASSUME LinkInv, HostStart \/ HostMetadata \/ HostVerify
    PROVE  Rests /\ Blockwards
  <1>1. CASE HostStart
    <2>1. /\ host.phase = "START" /\ Rests /\ Took
          /\ Aside \/ (host'.phase = "METADATA" /\ SentOn(MetadataFrame))
      BY <1>1, HandshakeBlocks, ToolFrames DEF HostStart
    <2>2. QED
      BY <2>1, ToolFrames, FrameKinds DEF Aside, Exchange, InBlock, Blockwards
  <1>2. CASE HostMetadata
    <2>1. 0 \in 0 .. Blocks - 1  BY ToolZeros
    <2>2. DataStartFrame(0) \in LaterFrames  BY <2>1, ToolFrames
    <2>3. /\ host.phase = "METADATA" /\ Rests /\ Took
          /\ \/ Aside
             \/ /\ host'.phase = "DATA_START" /\ SentOn(DataStartFrame(0))
                /\ Acks("METADATA") /\ Reply = toHost[1]
      BY <1>2, <2>2, HandshakeBlocks DEF HostMetadata
    <2>4. Acks("METADATA") /\ Reply = toHost[1] => SaysAccepted(toHost[1])
      BY DEF Acks, SaysAccepted
    <2>5. QED  BY <2>3, <2>4 DEF First, Blockwards
  <1>3. CASE HostVerify
    <2>1. /\ host.phase = "VERIFY" /\ Rests /\ Took
          /\ Aside \/ (host'.phase = "REBOOT" /\ SentOn(Command("REBOOT")))
      BY <1>3, HandshakeBlocks, ToolFrames DEF HostVerify
    <2>2. QED
      BY <2>1, ToolFrames, FrameKinds DEF Aside, Exchange, InBlock, Blockwards
  <1>4. QED  BY <1>1, <1>2, <1>3

LEMMA DataStartBlocks ==
    ASSUME LinkInv, HostDataStart
    PROVE  Rests /\ Blockwards
  <1>1. host \in Hosts  BY Opened
  <1>2. host.phase = "DATA_START" /\ Rests /\ toHost # <<>> /\ Take
    BY DEF HostDataStart, Waiting, Node, Rests
  <1>3. Took /\ Reply = toHost[1] /\ Reply \in Replies  BY <1>2, Takes
  <1>4. \/ /\ Acks("DATA_START") /\ Reply.block = host.block
           /\ host' = [host EXCEPT !.phase = "DATA", !.quiet = 0, !.waited = 0]
           /\ UNCHANGED <<toNode, slips>>
        \/ Answers("DATA_START") /\ Reseek /\ GoTo(Reply.block, 0)
        \/ Stop("refused")
        \/ Ignore
    BY DEF HostDataStart
  <1>5. CASE /\ Acks("DATA_START") /\ Reply.block = host.block
             /\ host' = [host EXCEPT !.phase = "DATA", !.quiet = 0, !.waited = 0]
             /\ UNCHANGED <<toNode, slips>>
    <2>1. host'.phase = "DATA" /\ host'.block = host.block  BY <1>1, <1>5 DEF Hosts
    <2>2. OpenAck(toHost[1])  BY <1>3, <1>5 DEF Acks, OpenAck
    <2>3. QED  BY <1>2, <1>3, <1>5, <2>1, <2>2 DEF Enters, Blockwards
  <1>6. CASE Answers("DATA_START") /\ Reseek /\ GoTo(Reply.block, 0)
    <2>1. Reply.block \in Nat  BY <1>3, <1>6, NamedBlock DEF Answers, Reseek
    <2>2. OpenReply(toHost[1])  BY <1>3, <1>6 DEF Answers, OpenReply
    <2>3. \/ /\ host'.phase = "DATA_START" /\ Reply.block \in FileBlocks
             /\ SentOn(DataStartFrame(Reply.block))
          \/ /\ host'.phase = "VERIFY"
             /\ \E m \in LaterFrames : ~Opens(m) /\ ~Closes(m) /\ SentOn(m)
      BY <1>6, <2>1, GoesToBlock
    <2>4. QED
      BY <1>2, <1>3, <2>2, <2>3 DEF Again, Aside, Exchange, InBlock, Blockwards
  <1>7. CASE Stop("refused")
    BY <1>2, <1>3, <1>7, StopsAside DEF Ended, Blockwards
  <1>8. CASE Ignore
    <2>1. host'.phase = host.phase /\ host'.block = host.block /\ UNCHANGED <<toNode, slips>>
      BY <1>1, <1>8 DEF Ignore, Hosts
    <2>2. QED  BY <1>2, <1>3, <2>1 DEF Listens, Exchange, Blockwards
  <1>9. QED  BY <1>4, <1>5, <1>6, <1>7, <1>8

LEMMA DataBlocks ==
    ASSUME LinkInv, HostData
    PROVE  Rests /\ Blockwards
  <1>1. host \in Hosts  BY Opened
  <1>2. host.phase = "DATA" /\ toHost' = toHost /\ Rests  BY DEF HostData, Node, Rests
  <1>3. host.frame \in 0 .. NFrames - 1 /\ host.block \in 0 .. Blocks - 1
    BY <1>1 DEF Hosts
  <1>4. CASE host.frame < NFrames - 1
    <2> DEFINE p == IF host.frame % PollEvery = PollEvery - 1 THEN "POLL" ELSE host.phase
    <2>1. /\ Send(DataFrame(host.block, host.frame))
          /\ host' = [host EXCEPT !.frame = host.frame + 1, !.phase = p]
      BY <1>1, <1>4 DEF HostData, Hosts
    <2>2. p \in {"POLL", "DATA"}  BY <1>2
    <2> HIDE DEF p
    <2>3. host'.phase \in {"DATA", "POLL"} /\ host'.block = host.block
      BY <1>1, <2>1, <2>2 DEF Hosts
    <2>4. DataFrame(host.block, host.frame) \in LaterFrames
      BY <1>3, ToolFrames DEF Frames
    <2>5. SentOn(DataFrame(host.block, host.frame))  BY <2>1, <2>4, SendsOn
    <2>6. QED  BY <1>2, <2>3, <2>4, <2>5, FrameKinds DEF Fills, Blockwards
  <1>5. CASE ~(host.frame < NFrames - 1)
    <2>1. Send(DataEndFrame(host.block)) /\ host'.phase = "DATA_END"
      BY <1>1, <1>5 DEF HostData, Hosts
    <2>2. SentOn(DataEndFrame(host.block))  BY <1>3, <2>1, ToolFrames, SendsOn
    <2>3. QED  BY <1>2, <1>3, <2>1, <2>2 DEF Ends, FileBlocks, Blockwards
  <1>6. QED  BY <1>4, <1>5

LEMMA PollBlocks ==
    ASSUME LinkInv, HostPoll
    PROVE  Rests /\ Blockwards
  <1>1. host \in Hosts  BY Opened
  <1>2. host.phase = "POLL" /\ Rests  BY DEF HostPoll, Node, Rests
  <1>3. CASE toHost = <<>>
    <2>1. /\ UNCHANGED <<toHost, toNode, slips>>
          /\ host'.phase = "DATA" /\ host'.block = host.block
      BY <1>1, <1>3 DEF HostPoll, Hosts
    <2>2. QED  BY <1>2, <2>1 DEF Listens, Exchange, InBlock, Blockwards
  <1>4. CASE toHost # <<>> /\ Reseek /\ "block" \in DOMAIN Reply
    <2>1. Take /\ GoTo(Reply.block, 0)  BY <1>4 DEF HostPoll
    <2>2. Took /\ Reply = toHost[1] /\ Reply \in Replies  BY <1>4, <2>1, Takes
    <2>3. Reply.block \in Nat  BY <1>4, <2>2, NamedBlock DEF Reseek
    <2>4. ~OpenAck(toHost[1])  BY <1>4, <2>2 DEF Reseek, OpenAck
    <2>5. \/ host'.phase = "DATA_START" /\ \E b \in FileBlocks : SentOn(DataStartFrame(b))
          \/ /\ host'.phase = "VERIFY"
             /\ \E m \in LaterFrames : ~Opens(m) /\ ~Closes(m) /\ SentOn(m)
      BY <2>1, <2>3, GoesToBlock
    <2>6. QED
      BY <1>2, <2>2, <2>4, <2>5 DEF Anew, Aside, Exchange, InBlock, Blockwards
  <1>5. CASE toHost # <<>> /\ ~(Reseek /\ "block" \in DOMAIN Reply)
    <2>1. /\ Take /\ UNCHANGED <<toNode, slips>>
          /\ host'.phase = "DATA" /\ host'.block = host.block
      BY <1>1, <1>5 DEF HostPoll, Hosts
    <2>2. Took  BY <1>5, <2>1, Takes
    <2>3. QED  BY <1>2, <2>1, <2>2 DEF Listens, Exchange, InBlock, Blockwards
  <1>6. QED  BY <1>3, <1>4, <1>5

LEMMA DataEndBlocks ==
    ASSUME LinkInv, HostDataEnd
    PROVE  Rests /\ Blockwards
  <1>1. host \in Hosts  BY Opened
  <1>2. host.phase = "DATA_END" /\ Rests /\ toHost # <<>> /\ Take
    BY DEF HostDataEnd, Waiting, Node, Rests
  <1>3. /\ Took /\ Reply = toHost[1] /\ Reply \in Replies
        /\ host.block \in Nat /\ host.block + 1 \in Nat
    BY <1>1, <1>2, Takes, FileTypes DEF Hosts
  <1>4. \/ \E b \in Nat : \E t : GoTo(b, t) /\ Reply.cmd = "DATA_END"
        \/ Stop("failed") \/ Stop("refused")
        \/ Ignore
    <2>1. \/ Acks("DATA_END") /\ GoTo(host.block + 1, 0)
          \/ Answers("DATA_END") /\ Reseek /\ GoTo(Reply.block, 0)
          \/ Stop("failed")
          \/ Answers("DATA_END") /\ GoTo(host.block, host.tries + 1)
          \/ Stop("refused")
          \/ Ignore
      BY DEF HostDataEnd
    <2>2. Answers("DATA_END") /\ Reseek => Reply.block \in Nat
      BY <1>3, NamedBlock DEF Answers, Reseek
    <2>3. Acks("DATA_END") \/ Answers("DATA_END") => Reply.cmd = "DATA_END"
      BY DEF Acks, Answers
    <2>4. QED  BY <1>3, <2>1, <2>2, <2>3
  <1>5. CASE \E b \in Nat : \E t : GoTo(b, t) /\ Reply.cmd = "DATA_END"
    <2>1. PICK b \in Nat : \E t : GoTo(b, t)  BY <1>5
    <2>2. \/ host'.phase = "DATA_START" /\ \E x \in FileBlocks : SentOn(DataStartFrame(x))
          \/ /\ host'.phase = "VERIFY"
             /\ \E m \in LaterFrames : ~Opens(m) /\ ~Closes(m) /\ SentOn(m)
      BY <2>1, GoesToBlock
    <2>3. ~OpenAck(toHost[1])  BY <1>3, <1>5 DEF OpenAck
    <2>4. QED
      BY <1>2, <1>3, <2>2, <2>3 DEF Anew, Aside, Exchange, InBlock, Blockwards
  <1>6. CASE Stop("failed") \/ Stop("refused")
    BY <1>2, <1>3, <1>6, StopsAside DEF Ended, Blockwards
  <1>7. CASE Ignore
    <2>1. host'.phase = host.phase /\ host'.block = host.block /\ UNCHANGED <<toNode, slips>>
      BY <1>1, <1>7 DEF Ignore, Hosts
    <2>2. QED  BY <1>2, <1>3, <2>1 DEF Listens, Exchange, InBlock, Blockwards
  <1>8. QED  BY <1>4, <1>5, <1>6, <1>7

LEMMA OtherBlocks ==
    ASSUME LinkInv, HostReboot \/ HostTimeout \/ HostRecursionLimit \/ HostCancel
    PROVE  Rests /\ Blockwards
  <1>1. host \in Hosts  BY Opened
  <1>2. Rests
    BY DEF HostReboot, HostTimeout, HostRecursionLimit, HostCancel, Node, Rests
  <1>3. CASE HostReboot
    <2>1. toHost # <<>> /\ Take /\ (Stop("done") \/ Stop("failed"))
      BY <1>3 DEF HostReboot, Waiting
    <2>2. QED  BY <1>2, <2>1, Takes, StopsAside DEF Ended, Blockwards
  <1>4. CASE HostRecursionLimit
    BY <1>2, <1>4, StopsAside DEF HostRecursionLimit, Ended, Blockwards
  <1>5. CASE HostCancel
    <2>1. host'.phase = "failed" /\ Send(Command("CANCEL")) /\ toHost' = toHost
      BY <1>1, <1>5 DEF HostCancel, Hosts
    <2>2. Aside
      BY <2>1, ToolFrames, FrameKinds, SendsOn DEF Aside, Exchange, InBlock
    <2>3. QED  BY <1>2, <2>2 DEF Blockwards
  <1>6. CASE HostTimeout
    <2>1. toNode = <<>> /\ toHost = <<>> /\ toHost' = toHost  BY <1>6 DEF HostTimeout, Quiet
    <2>2. \/ Stop("failed")
          \/ /\ host.phase \in {"DATA_START", "DATA_END"}
             /\ host'.phase = "DATA_START"
             /\ Send(DataStartFrame(host.block))
      BY <1>1, <1>6 DEF HostTimeout, Hosts
    <2>3. CASE Stop("failed")
      BY <1>2, <2>1, <2>3, StopsAside DEF Ended, Blockwards
    <2>4. CASE /\ host.phase \in {"DATA_START", "DATA_END"}
               /\ host'.phase = "DATA_START"
               /\ Send(DataStartFrame(host.block))
      <3>1. host.block \in FileBlocks  BY <1>1 DEF Hosts, FileBlocks
      <3>2. SentOn(DataStartFrame(host.block))
        BY <2>4, <3>1, ToolFrames, SendsOn DEF FileBlocks
      <3>3. QED
        BY <1>2, <2>1, <2>4, <3>1, <3>2 DEF Again, Anew, BothEmpty, InBlock, Blockwards
    <2>5. QED  BY <2>2, <2>3, <2>4
  <1>7. QED  BY <1>3, <1>4, <1>5, <1>6

-----------------------------------------------------------------------------
(* The invariant.                                                          *)

(* No block has been opened before METADATA was accepted. *)
Before ==
    /\ host.phase \in {"begin", "START", "METADATA"} => NoBlocks(toNode, toHost)
    /\ st = "START" \/ ~NoStart(toNode) =>
         /\ NoBlocks(toNode, toHost) /\ host.phase \notin Exchange
         /\ \A i \in 1 .. Len(toHost) : ~SaysAccepted(toHost[i])

(* Without a stall or without a slip the node and the tool are at the same *)
(* block.                                                                  *)
Ordered == stalls = 0 \/ slips = 0
Locked ==
    /\ host.phase \in {"DATA", "POLL"} =>
         /\ host.block = ctx.block
         /\ \A i \in 1 .. Len(toNode) : ~Closes(toNode[i])
    /\ Together(toNode) /\ EndsBelong(toNode, ctx)
    /\ host.phase \in InBlock => Filling(toNode, toHost, ctx.block, slips)
    /\ host.phase = "DATA_START" => Asking(toNode, toHost, ctx.block, slips, stalls)
LockStep ==
    Ordered => /\ st = "DATA_TRANSFER" => Locked
               /\ AlwaysTheHosts

(* With both, the tool is never ahead of the node.                         *)
NeverAhead ==
    st = "DATA_TRANSFER" =>
        /\ \A i \in 1 .. Len(toHost) : OpenAck(toHost[i]) => toHost[i].block <= ctx.block
        /\ host.phase \in {"DATA", "POLL"} => host.block <= ctx.block
        /\ \A i \in 1 .. Len(toNode) :
             Closes(toNode[i]) =>
                 \E b \in FileBlocks : b <= ctx.block /\ toNode[i] = DataEndFrame(b)
WholeBlocks == st \in {"DATA_TRANSFER", "VERIFY_PENDING"} => FromTheFile
Rebooting == st = "REBOOT_PENDING" => HoldsTheHosts

BlocksInv ==
    /\ Before /\ NeverAhead /\ WholeBlocks /\ Rebooting
    /\ gone => st = "IDLE"

LEMMA LongerEach ==
    ASSUME NEW q, NEW w, NEW m, NEW z, Longer(q, w, m, z)
    PROVE  \A i \in 1 .. Len(w) : w[i] = m \/ \E j \in 1 .. Len(q) : w[i] = q[j]
  <1>1. /\ Len(q) \in Nat /\ Len(w) \in Nat
        /\ \A i \in 1 .. Len(w) : IF i <= Len(q) THEN w[i] = q[i] ELSE w[i] = m
    BY DEF Longer
  <1>2. ASSUME NEW i \in 1 .. Len(w), i <= Len(q)
        PROVE  i \in 1 .. Len(q)
    BY <1>1, <1>2
  <1>3. QED  BY <1>1, <1>2

LEMMA ShorterEach ==
    ASSUME NEW q, NEW w, Shorter(q, w)
    PROVE  \A i \in 1 .. Len(w) : \E j \in 1 .. Len(q) : w[i] = q[j]
  <1>1. \A i \in 1 .. Len(w) : i + 1 \in 1 .. Len(q) /\ w[i] = q[i + 1]
    BY DEF Shorter
  <1>2. QED  BY <1>1

LEMMA TookEach ==
    ASSUME toHost' = toHost \/ Took
    PROVE  \A i \in 1 .. Len(toHost') : \E j \in 1 .. Len(toHost) : toHost'[i] = toHost[j]
  BY ShorterEach DEF Took

-----------------------------------------------------------------------------
(* The tool's steps.                                                       *)

LEMMA ToolBefore ==
    ASSUME LinkInv, Before, Rests, Blockwards
    PROVE  Before'
  <1>1. st' = st  BY DEF Rests, vars
  <1>2. CASE Aside
    <2>1. PICK m \in LaterFrames : ~Opens(m) /\ ~Closes(m) /\ SentOn(m)
      BY <1>2 DEF Aside
    <2>2. m.cmd # "START"  BY WhatFramesSay
    <2>3. \A i \in 1 .. Len(toNode') :
            toNode'[i] = m \/ \E j \in 1 .. Len(toNode) : toNode'[i] = toNode[j]
      BY <2>1, LongerEach DEF SentOn
    <2>4. \A i \in 1 .. Len(toHost') : \E j \in 1 .. Len(toHost) : toHost'[i] = toHost[j]
      BY <1>2, TookEach DEF Aside
    <2>5. NoBlocks(toNode, toHost) => NoBlocks(toNode', toHost')
      BY <2>1, <2>3, <2>4 DEF NoBlocks
    <2>6. NoStart(toNode) => NoStart(toNode')  BY <2>2, <2>3 DEF NoStart
    <2>7. host'.phase \notin Exchange /\ host'.phase # "begin"
          /\ (host'.phase \in {"START", "METADATA"} => host.phase \in {"START", "METADATA"})
      BY <1>2 DEF Aside
    <2>8. QED  BY <1>1, <2>4, <2>5, <2>6, <2>7 DEF Before
  <1>3. CASE First \/ Anew \/ Again \/ Enters \/ Fills \/ Ends \/ Listens
    <2>1. st # "START" /\ NoStart(toNode)
      <3>1. CASE First
        <4>1. SaysAccepted(toHost[1]) /\ 1 \in 1 .. Len(toHost)
          BY <3>1 DEF First, Took, Shorter
        <4>2. QED  BY <4>1 DEF Before
      <3>2. CASE Anew \/ Again \/ Enters \/ Fills \/ Ends \/ Listens
        <4>1. host.phase \in Exchange
          BY <3>2 DEF Anew, Again, Enters, Fills, Ends, Listens, Exchange, InBlock
        <4>2. QED  BY <4>1 DEF Before
      <3>3. QED  BY <1>3, <3>1, <3>2
    <2>2. host'.phase \notin {"begin", "START", "METADATA"}
      BY <1>3 DEF First, Anew, Again, Enters, Fills, Ends, Listens, Exchange, InBlock
    <2>3. \/ toNode' = toNode
          \/ \E m : m.cmd # "START" /\ SentOn(m)
      <3>1. \A b : DataStartFrame(b).cmd # "START" /\ DataEndFrame(b).cmd # "START"
        BY DEF DataStartFrame, DataEndFrame
      <3>2. CASE First \/ Anew \/ Again
        BY <3>1, <3>2 DEF First, Anew, Again
      <3>3. CASE Ends  BY <3>1, <3>3 DEF Ends
      <3>4. CASE Fills  BY <3>4, WhatFramesSay DEF Fills
      <3>5. CASE Enters \/ Listens  BY <3>5 DEF Enters, Listens
      <3>6. QED  BY <1>3, <3>2, <3>3, <3>4, <3>5
    <2>4. NoStart(toNode')
      <3>1. CASE toNode' = toNode  BY <2>1, <3>1
      <3>2. ASSUME NEW m, m.cmd # "START", SentOn(m)
            PROVE  NoStart(toNode')
        <4>1. \A i \in 1 .. Len(toNode') :
                toNode'[i] = m \/ \E j \in 1 .. Len(toNode) : toNode'[i] = toNode[j]
          BY <3>2, LongerEach DEF SentOn
        <4>2. QED  BY <2>1, <3>2, <4>1 DEF NoStart
      <3>3. QED  BY <2>3, <3>1, <3>2
    <2>5. QED  BY <1>1, <2>1, <2>2, <2>4 DEF Before
  <1>4. QED  BY <1>2, <1>3 DEF Blockwards

(* What keeps the ends of blocks in their places while others are sent.    *)
LEMMA EndsStay ==
    ASSUME Locked, NEW m, ~Closes(m), SentOn(m), ctx' = ctx
    PROVE  Together(toNode') /\ EndsBelong(toNode', ctx')
  BY EndsKept DEF Locked, SentOn

LEMMA ToolLocked ==
    ASSUME LinkInv, Before, Rests, Blockwards, Ordered, st = "DATA_TRANSFER", Locked
    PROVE  Locked'
  <1>1. /\ ctx' = ctx /\ stalls' = stalls
        /\ Len(toNode) \in Nat /\ Len(toHost) \in Nat
    BY Opened DEF Rests, vars
  <1>2. ASSUME UNCHANGED <<toNode, slips>>
        PROVE  Together(toNode') /\ EndsBelong(toNode', ctx')
    BY <1>1, <1>2 DEF Locked
  <1>3. CASE Aside
    <2>1. PICK m \in LaterFrames : ~Closes(m) /\ SentOn(m)  BY <1>3 DEF Aside
    <2>2. Together(toNode') /\ EndsBelong(toNode', ctx')  BY <1>1, <2>1, EndsStay
    <2>3. QED  BY <1>3, <2>2 DEF Aside, Locked, Exchange, InBlock
  <1>4. CASE First
    <2> DEFINE m == DataStartFrame(0)
    <2>1. Opens(m) /\ ~Closes(m)  BY FrameKinds
    <2>2. SentOn(m) /\ Took /\ host.phase = "METADATA" /\ host'.phase = "DATA_START"
      BY <1>4 DEF First
    <2> HIDE DEF m
    <2>3. Together(toNode') /\ EndsBelong(toNode', ctx')  BY <1>1, <2>1, <2>2, EndsStay
    <2>4. \A i \in 1 .. Len(toHost') : \E j \in 1 .. Len(toHost) : toHost'[i] = toHost[j]
      BY <2>2, TookEach
    <2>5. AllAnswered(toNode, toHost')  BY <2>2, <2>4 DEF Before, NoBlocks, AllAnswered
    <2>6. Longer(toNode, toNode', m, slips') /\ Len(toHost') \in Nat
      BY <2>2 DEF SentOn, Took, Shorter
    <2>7. Asking(toNode', toHost', ctx.block, slips', stalls')
      BY <2>1, <2>5, <2>6, AskingAnew
    <2>8. QED  BY <1>1, <2>2, <2>3, <2>7 DEF Locked, InBlock
  <1>5. CASE Anew
    <2>1. PICK b \in FileBlocks : SentOn(DataStartFrame(b))  BY <1>5 DEF Anew
    <2> DEFINE m == DataStartFrame(b)
    <2>2. Opens(m) /\ ~Closes(m)  BY FrameKinds
    <2>3. /\ SentOn(m) /\ host.phase \in InBlock /\ host'.phase = "DATA_START"
          /\ BothEmpty \/ (Took /\ ~OpenAck(toHost[1]))
      BY <1>5, <2>1 DEF Anew
    <2> HIDE DEF m
    <2>4. Together(toNode') /\ EndsBelong(toNode', ctx')  BY <1>1, <2>2, <2>3, EndsStay
    <2>5. AllAnswered(toNode, toHost') /\ Len(toHost') \in Nat
      <3>1. CASE BothEmpty
        <4>1. Len(toNode) = 0 /\ Len(toHost') = 0  BY <3>1 DEF BothEmpty
        <4>2. QED  BY <4>1 DEF AllAnswered
      <3>2. CASE Took /\ ~OpenAck(toHost[1])
        <4>1. Filling(toNode, toHost, ctx.block, slips)  BY <2>3 DEF Locked
        <4>2. 1 \in 1 .. Len(toHost) /\ Len(toHost') \in Nat  BY <3>2 DEF Took, Shorter
        <4>3. ~OpenReply(toHost[1])  BY <3>2, <4>1, <4>2 DEF Filling, AllOpenHere
        <4>4. QED  BY <3>2, <4>1, <4>2, <4>3, FillingReads DEF Took
      <3>3. QED  BY <2>3, <3>1, <3>2
    <2>6. Longer(toNode, toNode', m, slips')  BY <2>3 DEF SentOn
    <2>7. Asking(toNode', toHost', ctx.block, slips', stalls')
      BY <2>2, <2>5, <2>6, AskingAnew
    <2>8. QED  BY <1>1, <2>3, <2>4, <2>7 DEF Locked, InBlock
  <1>6. CASE Again
    <2>1. PICK b \in FileBlocks :
            /\ SentOn(DataStartFrame(b))
            /\ \/ BothEmpty
               \/ Took /\ OpenReply(toHost[1]) /\ toHost[1].block = b
      BY <1>6 DEF Again
    <2> DEFINE m == DataStartFrame(b)
    <2>2. Opens(m) /\ ~Closes(m) /\ m.block = b  BY FrameKinds
    <2>3. /\ SentOn(m) /\ host.phase = "DATA_START" /\ host'.phase = "DATA_START"
      BY <1>6, <2>1 DEF Again
    <2> HIDE DEF m
    <2>4. Together(toNode') /\ EndsBelong(toNode', ctx')  BY <1>1, <2>2, <2>3, EndsStay
    <2>5. Longer(toNode, toNode', m, slips') /\ (slips' = 0 => slips = 0)
      BY <2>3 DEF SentOn
    <2>6. Asking(toNode, toHost, ctx.block, slips, stalls)  BY <2>3 DEF Locked
    <2>7. Asking(toNode', toHost', ctx.block, slips', stalls')
      <3>1. CASE BothEmpty
        <4>1. Len(toNode) = 0 /\ Len(toHost') = 0  BY <3>1 DEF BothEmpty
        <4>2. AllAnswered(toNode, toHost')  BY <4>1 DEF AllAnswered
        <4>3. QED  BY <2>2, <2>5, <4>1, <4>2, AskingAnew
      <3>2. CASE Took /\ OpenReply(toHost[1]) /\ toHost[1].block = b
        <4>1. 1 \in 1 .. Len(toHost) /\ Shorter(toHost, toHost')  BY <3>2 DEF Took, Shorter
        <4>2. toHost[1] \in Says(ctx.block)
          BY <2>6, <3>2, <4>1 DEF Asking, NamesBlock
        <4>3. m.block = ctx.block  BY <2>2, <3>2, <4>2 DEF Says, AckAt, NackAt
        <4>4. QED  BY <1>1, <2>2, <2>5, <2>6, <3>2, <4>1, <4>3, AskingAgain
      <3>3. QED  BY <2>1, <3>1, <3>2
    <2>8. QED  BY <1>1, <2>3, <2>4, <2>7 DEF Locked, InBlock
  <1>7. CASE Enters
    <2>1. /\ host.phase = "DATA_START" /\ host'.phase = "DATA"
          /\ Shorter(toHost, toHost') /\ OpenAck(toHost[1])
          /\ toHost[1].block = host'.block /\ UNCHANGED <<toNode, slips>>
      BY <1>7 DEF Enters, Took
    <2>2. Asking(toNode, toHost, ctx.block, slips, stalls)  BY <2>1 DEF Locked
    <2>3. stalls \in Nat  BY Opened, LinkAssumption
    <2>4. /\ Filling(toNode, toHost', ctx.block, slips)
          /\ \A i \in 1 .. Len(toNode) : Opens(toNode[i])
      BY <1>1, <2>1, <2>2, <2>3, FillingBegins DEF Ordered
    <2>5. 1 \in 1 .. Len(toHost) /\ OpenReply(toHost[1])
      BY <2>1 DEF Shorter, OpenAck, OpenReply
    <2>6. toHost[1] \in Says(ctx.block)  BY <2>2, <2>5 DEF Asking, NamesBlock
    <2>7. host'.block = ctx.block  BY <2>1, <2>6 DEF Says, AckAt, NackAt
    <2>8. \A i \in 1 .. Len(toNode) : ~Closes(toNode[i])  BY <2>4 DEF Opens, Closes
    <2>9. QED  BY <1>1, <1>2, <2>1, <2>4, <2>7, <2>8 DEF Locked, InBlock
  <1>8. CASE Fills
    <2>1. PICK m \in LaterFrames : ~Opens(m) /\ ~Closes(m) /\ SentOn(m)  BY <1>8 DEF Fills
    <2>2. /\ host.phase = "DATA" /\ host'.phase \in {"DATA", "POLL"}
          /\ host'.block = host.block /\ toHost' = toHost
      BY <1>8 DEF Fills
    <2>3. Together(toNode') /\ EndsBelong(toNode', ctx')  BY <1>1, <2>1, EndsStay
    <2>4. Filling(toNode, toHost, ctx.block, slips)  BY <2>2 DEF Locked, InBlock
    <2>5. Filling(toNode', toHost, ctx.block, slips')
      BY <2>1, <2>4, FillingSends DEF SentOn
    <2>6. \A i \in 1 .. Len(toNode') : ~Closes(toNode'[i])
      BY <2>1, <2>2, LongerEach DEF Locked, SentOn
    <2>7. QED  BY <1>1, <2>2, <2>3, <2>5, <2>6 DEF Locked
  <1>9. CASE Ends
    <2> DEFINE m == DataEndFrame(host.block)
    <2>1. /\ host.phase = "DATA" /\ host'.phase = "DATA_END" /\ toHost' = toHost
          /\ host.block \in FileBlocks /\ SentOn(m)
      BY <1>9 DEF Ends
    <2>2. /\ host.block = ctx.block /\ \A i \in 1 .. Len(toNode) : ~Closes(toNode[i])
          /\ Filling(toNode, toHost, ctx.block, slips)
      BY <2>1 DEF Locked, InBlock
    <2>3. Together(toNode') /\ EndsBelong(toNode', ctx')
      BY <1>1, <2>1, <2>2, EndSent DEF SentOn
    <2>4. ~Opens(m)  BY FrameKinds
    <2>5. Filling(toNode', toHost, ctx.block, slips')
      BY <2>1, <2>2, <2>4, FillingSends DEF SentOn
    <2>6. QED  BY <1>1, <2>1, <2>3, <2>5 DEF Locked
  <1>10. CASE Listens
    <2>1. /\ host.phase \in Exchange
          /\ host'.phase = host.phase \/ (host.phase = "POLL" /\ host'.phase = "DATA")
          /\ host'.block = host.block
          /\ UNCHANGED <<toNode, slips>>
          /\ toHost' = toHost \/ Shorter(toHost, toHost')
      BY <1>10 DEF Listens, Took
    <2>2. host.phase \in InBlock => Filling(toNode, toHost', ctx.block, slips)
      BY <2>1, FillingReads DEF Locked
    <2>3. host.phase = "DATA_START" => Asking(toNode, toHost', ctx.block, slips, stalls)
      BY <1>1, <2>1, AskingReads DEF Locked
    <2>4. host'.phase \in InBlock => host.phase \in InBlock  BY <2>1 DEF InBlock
    <2>5. host'.phase = "DATA_START" => host.phase = "DATA_START"  BY <2>1
    <2>6. host'.phase \in {"DATA", "POLL"} => host.phase \in {"DATA", "POLL"}
      BY <2>1
    <2>7. QED
      BY <1>1, <1>2, <2>1, <2>2, <2>3, <2>4, <2>5, <2>6 DEF Locked
  <1>11. QED
    BY <1>3, <1>4, <1>5, <1>6, <1>7, <1>8, <1>9, <1>10 DEF Blockwards

LEMMA ToolNeverAhead ==
    ASSUME LinkInv, Before, Rests, Blockwards, NeverAhead
    PROVE  NeverAhead'
  <1>1. ctx' = ctx /\ st' = st  BY DEF Rests, vars
  <1> SUFFICES ASSUME st = "DATA_TRANSFER" PROVE NeverAhead'
    BY <1>1 DEF NeverAhead
  <1>2. /\ \A i \in 1 .. Len(toHost) : OpenAck(toHost[i]) => toHost[i].block <= ctx.block
        /\ host.phase \in {"DATA", "POLL"} => host.block <= ctx.block
        /\ \A i \in 1 .. Len(toNode) :
             Closes(toNode[i]) =>
                 \E b \in FileBlocks : b <= ctx.block /\ toNode[i] = DataEndFrame(b)
    BY DEF NeverAhead
  <1>3. toHost' = toHost \/ Took
    BY DEF Blockwards, Aside, First, Anew, Again, Enters, Fills, Ends, Listens, BothEmpty
  <1>4. \A i \in 1 .. Len(toHost') : \E j \in 1 .. Len(toHost) : toHost'[i] = toHost[j]
    BY <1>3, TookEach
  <1>5. \A i \in 1 .. Len(toHost') : OpenAck(toHost'[i]) => toHost'[i].block <= ctx.block
    BY <1>2, <1>4
  <1>6. host'.phase \in {"DATA", "POLL"} => host'.block <= ctx.block
    <2>1. CASE Enters
      <3>1. 1 \in 1 .. Len(toHost)  BY <2>1 DEF Enters, Took, Shorter
      <3>2. QED  BY <1>2, <2>1, <3>1 DEF Enters
    <2>2. CASE Fills \/ Listens
      BY <1>2, <2>2 DEF Fills, Listens
    <2>3. CASE Aside \/ First \/ Anew \/ Again \/ Ends
      BY <2>3 DEF Aside, First, Anew, Again, Ends, Exchange, InBlock
    <2>4. QED  BY <2>1, <2>2, <2>3 DEF Blockwards
  <1>7. \A i \in 1 .. Len(toNode') :
          Closes(toNode'[i]) =>
              \E b \in FileBlocks : b <= ctx.block /\ toNode'[i] = DataEndFrame(b)
    <2>1. ASSUME NEW m, SentOn(m),
                 Closes(m) => \E b \in FileBlocks : b <= ctx.block /\ m = DataEndFrame(b)
          PROVE  \A i \in 1 .. Len(toNode') :
                   Closes(toNode'[i]) =>
                       \E b \in FileBlocks : b <= ctx.block /\ toNode'[i] = DataEndFrame(b)
      <3>1. \A i \in 1 .. Len(toNode') :
              toNode'[i] = m \/ \E j \in 1 .. Len(toNode) : toNode'[i] = toNode[j]
        BY <2>1, LongerEach DEF SentOn
      <3>2. QED  BY <1>2, <2>1, <3>1
    <2>2. CASE UNCHANGED <<toNode, slips>>  BY <1>2, <2>2
    <2>3. CASE \E m : SentOn(m) /\ ~Closes(m)  BY <2>1, <2>3
    <2>4. CASE Ends
      <3>1. /\ host.block \in FileBlocks /\ SentOn(DataEndFrame(host.block))
            /\ host.block <= ctx.block
        BY <1>2, <2>4 DEF Ends
      <3>2. QED  BY <2>1, <3>1
    <2>5. Blockwards => \/ UNCHANGED <<toNode, slips>> \/ Ends
                        \/ \E m : SentOn(m) /\ ~Closes(m)
      BY FrameKinds
         DEF Blockwards, Aside, First, Anew, Again, Enters, Fills, Listens
    <2>6. QED  BY <2>2, <2>3, <2>4, <2>5
  <1>8. QED  BY <1>1, <1>5, <1>6, <1>7 DEF NeverAhead

LEMMA ToolBlocks ==
    ASSUME LinkInv, BlocksInv, Rests, Blockwards
    PROVE  BlocksInv' /\ (LockStep => LockStep')
  <1>1. /\ UNCHANGED <<st, ctx, target, flash, stalls, gone>>
    BY DEF Rests, vars
  <1>2. slips' = 0 => slips = 0
    BY DEF Blockwards, Aside, First, Anew, Again, Enters, Fills, Ends, Listens, SentOn
  <1>3. Before' /\ NeverAhead'  BY ToolBefore, ToolNeverAhead DEF BlocksInv
  <1>4. Ordered' => Ordered  BY <1>1, <1>2 DEF Ordered
  <1>5. HoldsTheHosts' = HoldsTheHosts /\ FromTheFile' = FromTheFile
    BY <1>1 DEF HoldsTheHosts, FromTheFile, OfTheFile
  <1>6. LockStep => LockStep'
    BY <1>1, <1>4, <1>5, ToolLocked DEF BlocksInv, LockStep, AlwaysTheHosts
  <1>7. WholeBlocks' /\ Rebooting'
    BY <1>1, <1>5 DEF BlocksInv, WholeBlocks, Rebooting
  <1>8. gone' => st' = "IDLE"  BY <1>1 DEF BlocksInv
  <1>9. QED  BY <1>3, <1>6, <1>7, <1>8 DEF BlocksInv

-----------------------------------------------------------------------------
(* The node's steps.                                                       *)

LEMMA Places ==
    ASSUME NEW u \in Nat, NEW b \in Nat, NEW n \in Nat \ {0}
    PROVE  /\ u \div n = b => u = b * n + (u % n)
           /\ u < (b + 1) * n => u < b * n \/ u \div n = b
  OBVIOUS

LEMMA UnitOfBlock ==
    ASSUME NEW u \in Units, NEW b \in Nat
    PROVE  /\ u \in UnitsOf(b) => UnitAt(u) = BlockOf(b)[u % NFrames]
           /\ u < (b + 1) * NFrames => u < b * NFrames \/ u \in UnitsOf(b)
  <1>1. u \in Nat /\ u % NFrames \in Frames
    BY SizesAssumption DEF Units, Frames
  <1>2. /\ u \div NFrames = b => u = b * NFrames + (u % NFrames)
        /\ u < (b + 1) * NFrames => u < b * NFrames \/ u \div NFrames = b
    BY <1>1, SizesAssumption, Places
  <1>3. QED  BY <1>1, <1>2 DEF UnitsOf, BlockOf

LEMMA RespondsLonger ==
    ASSUME LinkInv, Respond, resp' = Silent \/ resp' \in Replies
    PROVE  Longer(toHost, toHost', resp', slips') /\ (slips' = 0 => slips = 0)
  <1>1. toHost \in Seq(Replies) /\ slips \in Nat  BY Opened, LinkAssumption
  <1>2. CASE resp' = Silent  BY <1>1, <1>2, Unsent DEF Respond
  <1>3. CASE resp' # Silent
    <2>1. Carry(toHost, resp', toHost') /\ resp' \in Replies  BY <1>3 DEF Respond
    <2>2. QED  BY <1>1, <2>1, CarriedLonger
  <1>4. QED  BY <1>2, <1>3

(* A frame that the node takes. *)
LEMMA ReceiveFacts ==
    ASSUME LinkInv, NodeReceive
    PROVE  /\ toNode[1] \in HostFrames /\ toNode[1] = Head(toNode) /\ toNode # <<>>
           /\ ProcessMsg(toNode[1])
           /\ Shorter(toNode, toNode') /\ 1 \in 1 .. Len(toNode)
           /\ NoStart(toNode) => NoStart(toNode') /\ toNode[1].cmd # "START"
           /\ toNode[1].cmd # "START" => NoStart(toNode')
           /\ Longer(toHost, toHost', resp', slips') /\ (slips' = 0 => slips = 0)
           /\ UNCHANGED <<host, stalls, gone>> /\ ~gone
  <1>1. /\ toNode # <<>> /\ ProcessMsg(Head(toNode)) /\ toNode' = Tail(toNode) /\ Respond
        /\ UNCHANGED <<host, stalls, gone>> /\ ~gone
    BY DEF NodeReceive
  <1>2. toNode \in Seq(HostFrames) /\ StartsFirst(toNode) /\ TypeOK  BY Opened
  <1>3. /\ Head(toNode) \in HostFrames /\ Head(toNode) = toNode[1] /\ 1 \in 1 .. Len(toNode)
    BY <1>1, <1>2, TailFacts
  <1>4. Shorter(toNode, toNode')  BY <1>1, <1>2, TakeShortens
  <1>5. /\ NoStart(toNode) => NoStart(toNode') /\ toNode[1].cmd # "START"
        /\ toNode[1].cmd # "START" => NoStart(toNode')
    BY <1>1, <1>2, <1>3, TakenInOrder
  <1>6. resp' = Silent \/ resp' \in Replies
    BY <1>1, <1>2, <1>3, FramesOnWire, MessageReply
  <1>7. Longer(toHost, toHost', resp', slips') /\ (slips' = 0 => slips = 0)
    BY <1>1, <1>6, RespondsLonger
  <1>8. QED  BY <1>1, <1>3, <1>4, <1>5, <1>7

LEMMA ReceiveBefore ==
    ASSUME LinkInv, NodeReceive, Before
    PROVE  Before'
  <1> DEFINE m == toNode[1]
  <1>1. /\ 1 \in 1 .. Len(toNode) /\ host' = host
        /\ NoStart(toNode) => NoStart(toNode') /\ m.cmd # "START"
        /\ m.cmd # "START" => NoStart(toNode')
        /\ ProcessMsg(m)
    BY ReceiveFacts
  <1>2. \A i \in 1 .. Len(toNode') : \E j \in 1 .. Len(toNode) : toNode'[i] = toNode[j]
    BY ReceiveFacts, ShorterEach
  <1>3. \A i \in 1 .. Len(toHost') :
          toHost'[i] = resp' \/ \E j \in 1 .. Len(toHost) : toHost'[i] = toHost[j]
    BY ReceiveFacts, LongerEach
  <1>4. /\ OpenReply(resp') => Opens(m)
        /\ SaysAccepted(resp') => st' # "START" /\ m.cmd = "METADATA"
        /\ st' = "START" => st = "START" \/ m.cmd = "START"
    BY <1>1, MessageOpens
  <1>5. NoBlocks(toNode, toHost) => NoBlocks(toNode', toHost')
    <2>1. NoBlocks(toNode, toHost) => ~OpenReply(resp')  BY <1>1, <1>4 DEF NoBlocks
    <2>2. QED  BY <1>2, <1>3, <2>1 DEF NoBlocks
  <1>6. ASSUME st' = "START" \/ ~NoStart(toNode')
        PROVE  /\ NoBlocks(toNode', toHost') /\ host'.phase \notin Exchange
               /\ \A i \in 1 .. Len(toHost') : ~SaysAccepted(toHost'[i])
    <2>1. st = "START" \/ ~NoStart(toNode)  BY <1>1, <1>4, <1>6
    <2>2. ~SaysAccepted(resp')
      <3>1. m.cmd = "METADATA" => m.cmd # "START"  OBVIOUS
      <3>2. QED  BY <1>1, <1>4, <1>6, <3>1
    <2>3. QED  BY <1>1, <1>3, <1>5, <2>1, <2>2 DEF Before
  <1>7. QED  BY <1>1, <1>5, <1>6 DEF Before

(* The end of a block that the node takes ends the block it is at. *)
LEMMA TakesItsBlock ==
    ASSUME LinkInv, NodeReceive, Locked, TailsTell, TakesBlock(toNode[1])
    PROVE  ctx.block \in FileBlocks /\ toNode[1] = DataEndFrame(ctx.block)
  <1>1. 1 \in 1 .. Len(toNode)  BY ReceiveFacts
  <1>2. Closes(toNode[1]) /\ SumHolds(toNode[1])  BY DEF TakesBlock, BlockEnds, Closes
  <1>3. EndsBlock(toNode, 1, ctx)  BY <1>1, <1>2 DEF Locked, EndsBelong
  <1>4. PICK b \in FileBlocks :
          /\ toNode[1] = DataEndFrame(b)
          /\ b = ctx.block \/ (b + 1 = ctx.block /\ Spent(toNode, 1, ctx))
    BY <1>3 DEF EndsBlock
  <1>5. ~Spent(toNode, 1, ctx)  BY <1>2, <1>4, SpentRefused DEF Spent
  <1>6. QED  BY <1>4, <1>5

LEMMA ReceiveLocked ==
    ASSUME LinkInv, NodeReceive, Before, TailsTell, Blockwise(toNode[1]),
           st' = "DATA_TRANSFER", st = "DATA_TRANSFER" => Locked
    PROVE  Locked'
  <1> DEFINE m == toNode[1]
  <1>1. /\ 1 \in 1 .. Len(toNode) /\ host' = host /\ stalls' = stalls /\ ProcessMsg(m)
        /\ Shorter(toNode, toNode')
        /\ Longer(toHost, toHost', resp', slips') /\ (slips' = 0 => slips = 0)
    BY ReceiveFacts
  <1>2. OpenReply(resp') => Opens(m)  BY <1>1, MessageOpens
  <1>3. \A i \in 1 .. Len(toNode') : \E j \in 1 .. Len(toNode) : toNode'[i] = toNode[j]
    BY <1>1, ShorterEach
  <1>4. CASE SessionBegins(m)
    <2>1. NoBlocks(toNode, toHost) /\ host.phase \notin Exchange
      BY <1>4 DEF SessionBegins, Before
    <2>2. \A i \in 1 .. Len(toNode') : ~Closes(toNode'[i])
      BY <1>3, <2>1 DEF NoBlocks
    <2>3. Together(toNode') /\ EndsBelong(toNode', ctx')
      BY <2>2 DEF Together, EndsBelong
    <2>4. QED  BY <1>1, <2>1, <2>3 DEF Locked, Exchange, InBlock
  <1>5. CASE Stays(m)
    <2>1. /\ st = "DATA_TRANSFER" /\ ctx'.block = ctx.block /\ Locked
          /\ Opens(m) => resp' = OpenAnswer(m, ctx.block)
          /\ Closes(m) /\ OnlyTail(ctx, m) => OnlyTail(ctx', m)
      BY <1>5 DEF Stays, SameBlocks
    <2>2. Together(toNode')  BY <1>1, <2>1, TogetherTaken DEF Locked
    <2>3. EndsBelong(toNode', ctx')
      BY <1>1, <2>1, EndsPassed, EndsRefused DEF Locked
    <2>4. host.phase \in InBlock => Filling(toNode', toHost', ctx'.block, slips')
      <3>1. CASE Opens(m)
        BY <1>1, <2>1, <3>1, FillingAnswered DEF Locked
      <3>2. CASE ~Opens(m)
        BY <1>1, <1>2, <2>1, <3>2, FillingPassed DEF Locked
      <3>3. QED  BY <3>1, <3>2
    <2>5. host.phase = "DATA_START" => Asking(toNode', toHost', ctx'.block, slips', stalls')
      <3>1. CASE Opens(m)
        BY <1>1, <2>1, <3>1, AskingAnswered DEF Locked
      <3>2. CASE ~Opens(m)
        BY <1>1, <1>2, <2>1, <3>2, AskingPassed DEF Locked
      <3>3. QED  BY <3>1, <3>2
    <2>6. host.phase \in {"DATA", "POLL"} =>
            /\ host.block = ctx'.block
            /\ \A i \in 1 .. Len(toNode') : ~Closes(toNode'[i])
      BY <1>3, <2>1 DEF Locked
    <2>7. QED  BY <1>1, <2>2, <2>3, <2>4, <2>5, <2>6 DEF Locked
  <1>6. CASE TakesBlock(m)
    <2>1. /\ st = "DATA_TRANSFER" /\ Closes(m) /\ ~Opens(m) /\ Locked
          /\ ctx'.block = ctx.block + 1 /\ OnlyTail(ctx', m)
      BY <1>6 DEF TakesBlock, BlockEnds, Closes, Opens
    <2>2. ctx.block \in FileBlocks /\ m = DataEndFrame(ctx.block)
      BY <1>6, <2>1, TakesItsBlock
    <2>3. Together(toNode')  BY <1>1, <2>1, TogetherTaken DEF Locked
    <2>4. EndsBelong(toNode', ctx')
      BY <1>1, <2>1, <2>2, EndsTaken DEF Locked
    <2>5. host.phase \notin {"DATA", "POLL"}  BY <1>1, <2>1 DEF Locked
    <2>6. host.phase \in InBlock => Filling(toNode', toHost', ctx'.block, slips')
      BY <1>1, <1>2, <2>1, FillingPassed DEF Locked
    <2>7. host.phase = "DATA_START" => Asking(toNode', toHost', ctx'.block, slips', stalls')
      BY <1>1, <1>2, <2>1, AskingPassed DEF Locked
    <2>8. QED  BY <1>1, <2>3, <2>4, <2>5, <2>6, <2>7 DEF Locked
  <1>7. QED  BY <1>4, <1>5, <1>6 DEF Blockwise, Passes

LEMMA ReceiveHolds ==
    ASSUME LinkInv, NodeReceive, TailsTell, BlockSumTells, Blockwise(toNode[1]),
           st = "DATA_TRANSFER" => Locked, AlwaysTheHosts
    PROVE  AlwaysTheHosts'
  <1> DEFINE m == toNode[1]
  <1> SUFFICES ASSUME st' \in {"DATA_TRANSFER", "VERIFY_PENDING"}
               PROVE  HoldsTheHosts'
    BY DEF AlwaysTheHosts
  <1>1. CASE SessionBegins(m)
    <2>1. ctx'.block * NFrames = 0  BY <1>1, SizesAssumption DEF SessionBegins
    <2>2. QED  BY <2>1 DEF HoldsTheHosts, Received, Units
  <1>2. CASE Stays(m)
    BY <1>2 DEF Stays, SameBlocks, AlwaysTheHosts, HoldsTheHosts, Received
  <1>3. CASE TakesBlock(m)
    <2>1. /\ BlockEnds(m) /\ SumHolds(m) /\ st = "DATA_TRANSFER" /\ HoldsTheHosts
          /\ ctx'.block = ctx.block + 1 /\ target' = target
          /\ \A u \in Units :
               flash'[target][u] = IF u \in UnitsOf(ctx.block) THEN Filled(m)[u % NFrames]
                                                               ELSE flash[target][u]
      BY <1>3 DEF TakesBlock, BlockEnds, AlwaysTheHosts
    <2>2. ctx.block \in FileBlocks /\ m = DataEndFrame(ctx.block)
      BY <1>3, <2>1, TakesItsBlock
    <2>3. m = Head(toNode) /\ toNode # <<>>  BY ReceiveFacts
    <2>4. Filled(m) = BlockOf(ctx.block)
      <3>1. /\ BlockEnds(Head(toNode)) /\ SumHolds(Head(toNode))
            /\ Head(toNode) = DataEndFrame(ctx.block)
        BY <2>1, <2>2, <2>3
      <3>2. Filled(Head(toNode)) = BlockOf(ctx.block)
        BY <2>2, <2>3, <3>1 DEF BlockSumTells
      <3>3. QED  BY <2>3, <3>2
    <2>5. ctx.block \in Nat  BY <2>2, FileTypes DEF FileBlocks
    <2>6. ASSUME NEW u \in Units, u < (ctx.block + 1) * NFrames
          PROVE  flash'[target][u] = UnitAt(u)
      <3>1. CASE u \in UnitsOf(ctx.block)
        BY <2>1, <2>4, <2>5, <3>1, UnitOfBlock
      <3>2. CASE u \notin UnitsOf(ctx.block)
        <4>1. u < ctx.block * NFrames  BY <2>5, <2>6, <3>2, UnitOfBlock
        <4>2. QED  BY <2>1, <3>2, <4>1 DEF HoldsTheHosts, Received
      <3>3. QED  BY <3>1, <3>2
    <2>7. QED  BY <2>1, <2>6 DEF HoldsTheHosts, Received
  <1>4. QED  BY <1>1, <1>2, <1>3 DEF Blockwise, Passes

LEMMA ReceiveNeverAhead ==
    ASSUME LinkInv, NodeReceive, Before, NeverAhead, Blockwise(toNode[1])
    PROVE  NeverAhead'
  <1> DEFINE m == toNode[1]
  <1> SUFFICES ASSUME st' = "DATA_TRANSFER" PROVE NeverAhead'
    BY DEF NeverAhead
  <1>1. /\ 1 \in 1 .. Len(toNode) /\ host' = host /\ ProcessMsg(m)  BY ReceiveFacts
  <1>2. OpenReply(resp') => Opens(m)  BY <1>1, MessageOpens
  <1>3. \A i \in 1 .. Len(toNode') : \E j \in 1 .. Len(toNode) : toNode'[i] = toNode[j]
    BY ReceiveFacts, ShorterEach
  <1>4. \A i \in 1 .. Len(toHost') :
          toHost'[i] = resp' \/ \E j \in 1 .. Len(toHost) : toHost'[i] = toHost[j]
    BY ReceiveFacts, LongerEach
  <1>5. ctx.block \in Nat  BY Opened, SizesAssumption DEF TypeOK, Contexts
  <1>6. FileBlocks \subseteq Nat  BY FileTypes DEF FileBlocks
  <1>7. \A r : OpenAck(r) => OpenReply(r)  BY DEF OpenAck, OpenReply
  <1>8. CASE SessionBegins(m)
    <2>1. NoBlocks(toNode, toHost) /\ host.phase \notin Exchange
      BY <1>8 DEF SessionBegins, Before
    <2>2. NoBlocks(toNode', toHost')
      <3>1. ~OpenReply(resp')  BY <1>1, <1>2, <2>1 DEF NoBlocks
      <3>2. QED  BY <1>3, <1>4, <2>1, <3>1 DEF NoBlocks
    <2>3. QED  BY <1>1, <1>7, <2>1, <2>2 DEF NeverAhead, NoBlocks, Exchange, InBlock
  <1>9. CASE Stays(m) \/ TakesBlock(m)
    <2>1. st = "DATA_TRANSFER" /\ ctx'.block \in {ctx.block, ctx.block + 1}
      BY <1>9 DEF Stays, SameBlocks, TakesBlock, BlockEnds
    <2>2. ctx'.block \in Nat /\ ctx.block <= ctx'.block  BY <1>5, <2>1
    <2>3. /\ \A i \in 1 .. Len(toHost) : OpenAck(toHost[i]) => toHost[i].block <= ctx.block
          /\ host.phase \in {"DATA", "POLL"} => host.block <= ctx.block
          /\ \A i \in 1 .. Len(toNode) :
               Closes(toNode[i]) =>
                   \E b \in FileBlocks : b <= ctx.block /\ toNode[i] = DataEndFrame(b)
      BY <2>1 DEF NeverAhead
    <2>4. OpenAck(resp') => resp'.block = ctx.block
      <3>1. ASSUME OpenAck(resp')
            PROVE  resp'.block = ctx.block
        <4>1. Opens(m)  BY <1>2, <1>7, <3>1
        <4>2. resp' = OpenAnswer(m, ctx.block)
          BY <1>9, <2>1, <4>1 DEF Stays, TakesBlock, BlockEnds, Opens
        <4>3. m.block = ctx.block  BY <3>1, <4>2, AnswerNames
        <4>4. QED  BY <4>2, <4>3 DEF OpenAnswer, AckAt
      <3>2. QED  BY <3>1
    <2>5. ASSUME NEW i \in 1 .. Len(toHost'), OpenAck(toHost'[i])
          PROVE  toHost'[i].block <= ctx'.block
      <3>1. CASE toHost'[i] = resp'  BY <1>5, <2>2, <2>4, <2>5, <3>1
      <3>2. CASE toHost'[i] # resp'
        <4>1. PICK j \in 1 .. Len(toHost) : toHost'[i] = toHost[j]  BY <1>4, <3>2
        <4>2. OpenAck(toHost[j]) /\ toHost[j].block <= ctx.block  BY <2>3, <2>5, <4>1
        <4>3. toHost[j].block \in Nat
          <5>1. toHost[j] \in Replies  BY Opened
          <5>2. QED  BY <4>2, <5>1, SizesAssumption DEF OpenAck, Replies
        <4>4. QED  BY <1>5, <2>2, <4>1, <4>2, <4>3
      <3>3. QED  BY <3>1, <3>2
    <2>6. host'.phase \in {"DATA", "POLL"} => host'.block <= ctx'.block
      <3>1. host.block \in Nat  BY Opened, FileTypes DEF Hosts
      <3>2. QED  BY <1>1, <1>5, <2>2, <2>3, <3>1
    <2>7. ASSUME NEW i \in 1 .. Len(toNode'), Closes(toNode'[i])
          PROVE  \E b \in FileBlocks : b <= ctx'.block /\ toNode'[i] = DataEndFrame(b)
      <3>1. PICK b \in FileBlocks : b <= ctx.block /\ toNode'[i] = DataEndFrame(b)
        BY <1>3, <2>3, <2>7
      <3>2. b <= ctx'.block  BY <1>5, <1>6, <2>2, <3>1
      <3>3. QED  BY <3>1, <3>2
    <2>8. QED  BY <2>5, <2>6, <2>7 DEF NeverAhead
  <1>10. QED  BY <1>8, <1>9 DEF Blockwise, Passes

LEMMA ReceiveWhole ==
    ASSUME LinkInv, NodeReceive, NeverAhead, WholeBlocks, BlockSumTells, Blockwise(toNode[1])
    PROVE  WholeBlocks'
  <1> DEFINE m == toNode[1]
  <1> SUFFICES ASSUME st' \in {"DATA_TRANSFER", "VERIFY_PENDING"}
               PROVE  FromTheFile'
    BY DEF WholeBlocks
  <1>1. CASE SessionBegins(m)
    BY <1>1, SizesAssumption DEF SessionBegins, FromTheFile
  <1>2. CASE Stays(m)
    BY <1>2 DEF Stays, SameBlocks, WholeBlocks, FromTheFile, OfTheFile
  <1>3. CASE TakesBlock(m)
    <2>1. /\ BlockEnds(m) /\ SumHolds(m) /\ st = "DATA_TRANSFER" /\ FromTheFile
          /\ ctx'.block = ctx.block + 1 /\ target' = target
          /\ \A u \in Units :
               flash'[target][u] = IF u \in UnitsOf(ctx.block) THEN Filled(m)[u % NFrames]
                                                               ELSE flash[target][u]
      BY <1>3 DEF TakesBlock, BlockEnds, WholeBlocks
    <2>2. /\ 1 \in 1 .. Len(toNode) /\ m = Head(toNode) /\ toNode # <<>>  BY ReceiveFacts
    <2>3. PICK b \in FileBlocks : b <= ctx.block /\ m = DataEndFrame(b)
      <3>1. Closes(m)  BY <2>1 DEF BlockEnds, Closes
      <3>2. QED  BY <2>1, <2>2, <3>1 DEF NeverAhead
    <2>4. Filled(m) = BlockOf(b)
      <3>1. BlockEnds(Head(toNode)) /\ SumHolds(Head(toNode)) /\ Head(toNode) = DataEndFrame(b)
        BY <2>1, <2>2, <2>3
      <3>2. Filled(Head(toNode)) = BlockOf(b)
        BY <2>2, <2>3, <3>1 DEF BlockSumTells
      <3>3. QED  BY <2>2, <3>2
    <2>5. ctx.block \in Nat  BY Opened, SizesAssumption DEF TypeOK, Contexts
    <2>6. ASSUME NEW i \in 0 .. NBlocks - 1, i < ctx.block + 1
          PROVE  OfTheFile(i)'
      <3>1. CASE i = ctx.block
        <4>1. \A u \in UnitsOf(i) : u \in Units /\ flash'[target][u] = BlockOf(b)[u % NFrames]
          BY <2>1, <2>4, <3>1 DEF UnitsOf
        <4>2. QED  BY <2>1, <2>3, <3>1, <4>1 DEF OfTheFile
      <3>2. CASE i # ctx.block
        <4>1. i < ctx.block  BY <2>5, <2>6, <3>2, SizesAssumption
        <4>2. PICK c \in FileBlocks :
                c <= i /\ \A u \in UnitsOf(i) : flash[target][u] = BlockOf(c)[u % NFrames]
          BY <2>1, <4>1 DEF FromTheFile, OfTheFile
        <4>3. \A u \in UnitsOf(i) : u \in Units /\ u \notin UnitsOf(ctx.block)
          BY <3>2 DEF UnitsOf
        <4>4. \A u \in UnitsOf(i) : flash'[target][u] = BlockOf(c)[u % NFrames]
          BY <2>1, <4>2, <4>3
        <4>5. QED  BY <2>1, <4>2, <4>4 DEF OfTheFile
      <3>3. QED  BY <3>1, <3>2
    <2>7. QED  BY <2>1, <2>6 DEF FromTheFile
  <1>4. QED  BY <1>1, <1>2, <1>3 DEF Blockwise, Passes

LEMMA ReceiveReboots ==
    ASSUME WholeBlocks, Rebooting, FileSumTells, NEW m, Blockwise(m)
    PROVE  Rebooting'
  <1> SUFFICES ASSUME st' = "REBOOT_PENDING"
               PROVE  HoldsTheHosts'
    BY DEF Rebooting
  <1>1. CASE Stays(m)
    BY <1>1 DEF Stays, SameBlocks, Rebooting, HoldsTheHosts, Received
  <1>2. CASE Passes
    <2>1. HoldsTheHosts  BY <1>2 DEF Passes, WholeBlocks, FileSumTells
    <2>2. QED  BY <1>2, <2>1 DEF Passes, SameBlocks, HoldsTheHosts, Received
  <1>3. QED  BY <1>1, <1>2 DEF Blockwise, SessionBegins, TakesBlock

LEMMA ReceiveBlocks ==
    ASSUME LinkInv, BlocksInv, BlockSumTells, FileSumTells, NodeReceive
    PROVE  BlocksInv' /\ (TailsTell /\ LockStep => LockStep')
  <1>1. /\ toNode[1] \in HostFrames /\ ProcessMsg(toNode[1])
        /\ stalls' = stalls /\ gone' = gone /\ ~gone /\ (slips' = 0 => slips = 0)
    BY ReceiveFacts
  <1>2. Blockwise(toNode[1])  BY <1>1, Opened, MessageBlocks
  <1>3. Before'  BY ReceiveBefore DEF BlocksInv
  <1>4. NeverAhead'  BY <1>2, ReceiveNeverAhead DEF BlocksInv
  <1>5. WholeBlocks'  BY <1>2, ReceiveWhole DEF BlocksInv
  <1>6. Rebooting'  BY <1>2, ReceiveReboots DEF BlocksInv
  <1>7. ASSUME TailsTell, LockStep, Ordered'
        PROVE  (st' = "DATA_TRANSFER" => Locked') /\ AlwaysTheHosts'
    <2>1. Ordered  BY <1>1, <1>7 DEF Ordered
    <2>2. (st = "DATA_TRANSFER" => Locked) /\ AlwaysTheHosts
      BY <1>7, <2>1 DEF LockStep
    <2>3. QED
      BY <1>2, <1>7, <2>2, ReceiveLocked, ReceiveHolds DEF BlocksInv
  <1>8. TailsTell /\ LockStep => LockStep'  BY <1>7 DEF LockStep
  <1>9. QED  BY <1>1, <1>3, <1>4, <1>5, <1>6, <1>8 DEF BlocksInv

LEMMA TickKeepsBlocks ==
    ASSUME LinkInv, BlocksInv, TickNow, host'.phase = host.phase, host'.block = host.block,
           Longer(toHost, toHost', resp', slips'), slips' = 0 => slips = 0,
           stalls > 0 => stalls' > 0, stalls' \in Nat,
           host.phase = "DATA_START" => Len(toHost) = 0 \/ stalls' > 0
    PROVE  BlocksInv' /\ (LockStep => LockStep')
  <1>1. /\ Tick /\ toNode' = toNode /\ Len(toNode) = 0 /\ ~gone /\ gone' = gone
        /\ TypeOK /\ FsmInv /\ Agreed /\ stalls \in Nat
    BY Opened, LinkAssumption DEF TickNow
  <1>2. /\ ~OpenReply(resp') /\ ~SaysAccepted(resp')
        /\ st' # "IDLE" => st' = st /\ SameBlocks
    BY <1>1, TickBlocks
  <1>3. \A i \in 1 .. Len(toNode) : FALSE  BY <1>1
  <1>4. \A i \in 1 .. Len(toHost') :
          toHost'[i] = resp' \/ \E j \in 1 .. Len(toHost) : toHost'[i] = toHost[j]
    BY LongerEach
  <1>5. Before'
    <2>1. NoBlocks(toNode, toHost) => NoBlocks(toNode', toHost')
      BY <1>1, <1>2, <1>4 DEF NoBlocks
    <2>2. NoStart(toNode')  BY <1>1, <1>3 DEF NoStart
    <2>3. st' = "START" => st = "START"  BY <1>2
    <2>4. QED  BY <1>2, <1>4, <2>1, <2>2, <2>3 DEF BlocksInv, Before
  <1>6. Ordered' => Ordered  BY <1>1 DEF Ordered
  <1>7. ASSUME st' = "DATA_TRANSFER", Locked
        PROVE  Locked'
    <2>1. ctx'.block = ctx.block  BY <1>2, <1>7 DEF SameBlocks
    <2>2. Together(toNode') /\ EndsBelong(toNode', ctx')
      BY <1>1, <1>3 DEF Together, EndsBelong
    <2>3. host.phase \in InBlock => Filling(toNode', toHost', ctx'.block, slips')
      BY <1>1, <1>2, <1>7, <2>1, FillingTicks DEF Locked
    <2>4. host.phase = "DATA_START" => Asking(toNode', toHost', ctx'.block, slips', stalls')
      BY <1>1, <1>2, <1>7, <2>1, AskingTicks DEF Locked
    <2>5. QED  BY <1>1, <1>3, <1>7, <2>1, <2>2, <2>3, <2>4 DEF Locked
  <1>8. /\ st' # "IDLE" => HoldsTheHosts' = HoldsTheHosts /\ FromTheFile' = FromTheFile
    BY <1>2 DEF SameBlocks, HoldsTheHosts, Received, FromTheFile, OfTheFile
  <1>9. LockStep => LockStep'
    BY <1>2, <1>6, <1>7, <1>8 DEF LockStep, AlwaysTheHosts
  <1>10. NeverAhead'
    <2> SUFFICES ASSUME st' = "DATA_TRANSFER" PROVE NeverAhead'
      BY DEF NeverAhead
    <2>1. ctx'.block = ctx.block /\ st = "DATA_TRANSFER"  BY <1>2 DEF SameBlocks
    <2>2. ~OpenAck(resp')  BY <1>2 DEF OpenAck, OpenReply
    <2>3. QED  BY <1>1, <1>3, <1>4, <2>1, <2>2 DEF BlocksInv, NeverAhead
  <1>11. WholeBlocks' /\ Rebooting'
    BY <1>2, <1>8 DEF BlocksInv, WholeBlocks, Rebooting
  <1>12. QED  BY <1>1, <1>5, <1>9, <1>10, <1>11 DEF BlocksInv

LEMMA NodeTickBlocks ==
    ASSUME LinkInv, BlocksInv, NodeTick
    PROVE  BlocksInv' /\ (LockStep => LockStep')
  <1>1. TickNow /\ Respond /\ stalls' = stalls /\ ~HostBusy  BY DEF NodeTick
  <1>2. /\ host \in Hosts /\ TypeOK /\ toHost \in Seq(Replies) /\ stalls \in Nat
    BY Opened, LinkAssumption
  <1>3. host'.phase = host.phase /\ host'.block = host.block
    <2>1. CASE UNCHANGED host  BY <2>1
    <2>2. CASE host' = [host EXCEPT !.waited = @ + 1]  BY <1>2, <2>2 DEF Hosts
    <2>3. QED  BY <2>1, <2>2 DEF NodeTick
  <1>4. resp' = Silent \/ resp' \in Replies  BY <1>1, <1>2, TickReply DEF TickNow
  <1>5. Longer(toHost, toHost', resp', slips') /\ (slips' = 0 => slips = 0)
    BY <1>1, <1>4, RespondsLonger
  <1>6. host.phase = "DATA_START" => Len(toHost) = 0
    BY <1>1, <1>2 DEF HostBusy, Ended
  <1>7. QED  BY <1>1, <1>2, <1>3, <1>5, <1>6, TickKeepsBlocks

LEMMA StallBlocks ==
    ASSUME LinkInv, BlocksInv, HostStalls
    PROVE  BlocksInv' /\ (LockStep => LockStep')
  <1>1. /\ TickNow /\ host' = host /\ slips' = slips /\ stalls' = stalls + 1
        /\ toHost' = IF resp' = Silent THEN toHost ELSE Append(toHost, resp')
    BY DEF HostStalls
  <1>2. /\ TypeOK /\ toHost \in Seq(Replies) /\ stalls \in Nat
    BY Opened, LinkAssumption
  <1>3. resp' = Silent \/ resp' \in Replies  BY <1>1, <1>2, TickReply DEF TickNow
  <1>4. Longer(toHost, toHost', resp', slips')
    <2>1. CASE resp' = Silent  BY <1>1, <1>2, <2>1, Unsent
    <2>2. CASE resp' # Silent
      <3>1. toHost' = Append(toHost, resp') /\ resp' \in Replies  BY <1>1, <1>3, <2>2
      <3>2. /\ Len(toHost) \in Nat /\ Len(toHost') = Len(toHost) + 1
            /\ \A i \in 1 .. Len(toHost') :
                 IF i <= Len(toHost) THEN toHost'[i] = toHost[i] ELSE toHost'[i] = resp'
        BY <1>2, <3>1
      <3>3. QED  BY <3>2 DEF Longer
    <2>3. QED  BY <2>1, <2>2
  <1>5. stalls' \in Nat /\ stalls' > 0  BY <1>1, <1>2
  <1>6. QED  BY <1>1, <1>4, <1>5, TickKeepsBlocks

(* Steps of an idle node that erase nothing. *)
LEMMA IdleBlocks ==
    ASSUME BlocksInv, st' = "IDLE", Before'
    PROVE  BlocksInv' /\ (LockStep => LockStep')
  <1>1. ~(st' \in {"DATA_TRANSFER", "VERIFY_PENDING"}) /\ st' # "REBOOT_PENDING"
    OBVIOUS
  <1>2. LockStep' /\ NeverAhead' /\ WholeBlocks' /\ Rebooting'
    BY <1>1 DEF LockStep, AlwaysTheHosts, NeverAhead, WholeBlocks, Rebooting
  <1>3. QED  BY <1>2 DEF BlocksInv

LEMMA BeginBlocks ==
    ASSUME LinkInv, BlocksInv, HostBegin
    PROVE  BlocksInv' /\ (LockStep => LockStep')
  <1>1. /\ host.phase = "begin" /\ host' = [host EXCEPT !.phase = "START"]
        /\ Send(StartFrame) /\ toHost' = toHost /\ UNCHANGED <<vars, stalls, gone>>
    BY DEF HostBegin, Node
  <1>2. /\ st = "IDLE" /\ toNode = <<>> /\ \A i \in 1 .. Len(toHost) : toHost[i] = Beacon
        /\ host \in Hosts /\ slips \in Nat /\ toNode \in Seq(HostFrames)
    BY <1>1, Opened, LinkAssumption
  <1>3. StartFrame \in HostFrames  BY DEF HostFrames
  <1>4. Longer(toNode, toNode', StartFrame, slips')
    BY <1>1, <1>2, <1>3, CarriedLonger DEF Send
  <1>5. \A i \in 1 .. Len(toNode') :
          toNode'[i] = StartFrame \/ \E j \in 1 .. Len(toNode) : toNode'[i] = toNode[j]
    BY <1>4, LongerEach
  <1>6. \A i \in 1 .. Len(toNode') : toNode'[i] = StartFrame
    <2>1. \A j \in 1 .. Len(toNode) : FALSE  BY <1>2
    <2>2. QED  BY <1>5, <2>1
  <1>7. NoBlocks(toNode', toHost')
    BY <1>1, <1>2, <1>6, FrameKinds, Openings DEF NoBlocks
  <1>8. host'.phase = "START"  BY <1>1, <1>2 DEF Hosts
  <1>9. \A i \in 1 .. Len(toHost') : ~SaysAccepted(toHost'[i])  BY <1>1, <1>2, Openings
  <1>10. Before'  BY <1>7, <1>8, <1>9 DEF Before, Exchange, InBlock
  <1>11. st' = "IDLE"  BY <1>1, <1>2 DEF vars
  <1>12. QED  BY <1>10, <1>11, IdleBlocks

LEMMA LeaveBlocks ==
    ASSUME LinkInv, BlocksInv, NodeLeaves \/ AppIgnores
    PROVE  BlocksInv' /\ (LockStep => LockStep')
  <1>1. /\ st = "IDLE" /\ st' = st /\ UNCHANGED <<host, toHost>>
    BY DEF BlocksInv, NodeLeaves, AppIgnores, vars
  <1>2. \/ toNode' = toNode
        \/ toNode # <<>> /\ toNode' = Tail(toNode)
    BY DEF NodeLeaves, AppIgnores
  <1>3. \A i \in 1 .. Len(toNode') : \E j \in 1 .. Len(toNode) : toNode'[i] = toNode[j]
    <2>1. CASE toNode' = toNode  BY <2>1
    <2>2. CASE toNode # <<>> /\ toNode' = Tail(toNode)  BY <2>2, Opened, TailFacts
    <2>3. QED  BY <1>2, <2>1, <2>2
  <1>4. NoBlocks(toNode, toHost) => NoBlocks(toNode', toHost')
    BY <1>1, <1>3 DEF NoBlocks
  <1>5. NoStart(toNode) => NoStart(toNode')  BY <1>3 DEF NoStart
  <1>6. Before'  BY <1>1, <1>4, <1>5 DEF BlocksInv, Before
  <1>7. QED  BY <1>1, <1>6, IdleBlocks

LEMMA InitBlocks == LinkInit => BlocksInv /\ LockStep
  <1> SUFFICES ASSUME LinkInit PROVE BlocksInv /\ LockStep
    OBVIOUS
  <1>1. /\ st = "IDLE" /\ host.phase = "begin" /\ Len(toNode) = 0 /\ Len(toHost) = 0
        /\ toNode = <<>> /\ toHost = <<>>
    BY DEF LinkInit, Init
  <1>2. Before  BY <1>1 DEF Before, NoBlocks, NoStart
  <1>3. LockStep /\ NeverAhead /\ WholeBlocks /\ Rebooting
    BY <1>1 DEF LockStep, AlwaysTheHosts, NeverAhead, WholeBlocks, Rebooting
  <1>4. QED  BY <1>1, <1>2, <1>3 DEF BlocksInv

LEMMA NextBlocks ==
    ASSUME LinkInv, BlocksInv, BlockSumTells, FileSumTells, [LinkNext]_allVars
    PROVE  BlocksInv' /\ (TailsTell /\ LockStep => LockStep')
  <1>1. CASE HostBegin  BY <1>1, BeginBlocks
  <1>2. CASE HostStart \/ HostMetadata \/ HostVerify
    BY <1>2, HandshakesBlocks, ToolBlocks
  <1>3. CASE HostDataStart  BY <1>3, DataStartBlocks, ToolBlocks
  <1>4. CASE HostData  BY <1>4, DataBlocks, ToolBlocks
  <1>5. CASE HostPoll  BY <1>5, PollBlocks, ToolBlocks
  <1>6. CASE HostDataEnd  BY <1>6, DataEndBlocks, ToolBlocks
  <1>7. CASE HostReboot \/ HostTimeout \/ HostRecursionLimit \/ HostCancel
    BY <1>7, OtherBlocks, ToolBlocks
  <1>8. CASE NodeReceive  BY <1>8, ReceiveBlocks
  <1>9. CASE NodeTick  BY <1>9, NodeTickBlocks
  <1>10. CASE HostStalls  BY <1>10, StallBlocks
  <1>11. CASE NodeLeaves \/ AppIgnores  BY <1>11, LeaveBlocks
  <1>12. CASE UNCHANGED allVars
    <2>1. UNCHANGED <<st, ctx, target, flash, host, toNode, toHost, slips, stalls, gone>>
      BY <1>12 DEF allVars, linkVars, vars
    <2>2. Before' /\ Locked' = Locked /\ Ordered' = Ordered
      BY <2>1 DEF BlocksInv, Before, Locked, Ordered
    <2>3. HoldsTheHosts' = HoldsTheHosts /\ FromTheFile' = FromTheFile
      BY <2>1 DEF HoldsTheHosts, FromTheFile, OfTheFile
    <2>4. (LockStep => LockStep') /\ WholeBlocks' /\ Rebooting'
      BY <2>1, <2>2, <2>3 DEF BlocksInv, LockStep, AlwaysTheHosts, WholeBlocks, Rebooting
    <2>5. NeverAhead'  BY <2>1 DEF BlocksInv, NeverAhead
    <2>6. QED  BY <2>1, <2>2, <2>4, <2>5 DEF BlocksInv
  <1>13. QED
    BY <1>1, <1>2, <1>3, <1>4, <1>5, <1>6, <1>7, <1>8, <1>9, <1>10, <1>11, <1>12,
       Zenon DEF LinkNext, HostNext, NodeNext

(* As long as a block that has the sum of a DATA_END is the block that the *)
(* frame ends, and a partition of the file's blocks that has the sum of    *)
(* the file is the file, VERIFY passes for the tool's file only: each      *)
(* block is in its place, whatever the bus lost or repeated and however    *)
(* the tool stalled.                                                       *)
THEOREM VerifiedIsTheFile ==
    LinkSpec /\ [](BlockSumTells /\ FileSumTells) =>
        [](st = "REBOOT_PENDING" => HoldsTheHosts)
  <1>1. BlocksInv => (st = "REBOOT_PENDING" => HoldsTheHosts)
    BY DEF BlocksInv, Rebooting
  <1>2. LinkInv /\ BlocksInv /\ BlockSumTells /\ FileSumTells /\ [LinkNext]_allVars
            => BlocksInv'
    BY NextBlocks
  <1>3. QED  BY <1>1, <1>2, InitBlocks, LinkInvariant, PTL DEF LinkSpec

(* If, besides, no block of the file has the sum of its own tail, then in  *)
(* every state of a session in which the tool never stalled or the bus     *)
(* never slipped, the node holds the tool's blocks up to the next one.     *)
THEOREM BlocksArriveWhole == LinkSpec /\ []SumsTell => []BlocksAreTheHosts
  <1>1. BlocksInv /\ LockStep => BlocksAreTheHosts
    BY DEF BlocksInv, LockStep, Ordered, Rebooting, BlocksAreTheHosts
  <1>2. LinkInv /\ BlocksInv /\ LockStep /\ SumsTell /\ [LinkNext]_allVars
            => BlocksInv' /\ LockStep'
    BY NextBlocks DEF SumsTell
  <1>3. QED  BY <1>1, <1>2, InitBlocks, LinkInvariant, PTL DEF LinkSpec

-----------------------------------------------------------------------------
(* The loader.                                                             *)

(* Metadata that name a firmware name one of the files.                    *)
MetaNamed == meta.size > 0 => \E f \in Files : Names(meta, f)

(* From METADATA on the session knows the sum of one of the files.         *)
Announced ==
    st \in {"DATA_TRANSFER", "VERIFY_PENDING", "REBOOT_PENDING"}
        => \E f \in Files : ctx.sum = SumFunction(f)

(* A session never writes the recorded partition.                          *)
Apart ==
    mode = "boot" /\ ~ctx.reset => single \/ meta.size = 0 \/ target # meta.part

(* After REBOOT the engine waits for the reset.                            *)
Finished == ctx.reset => mode = "boot" /\ st = "IDLE" /\ resp.kind = "ACK"

(* The promotion, before its erase and after it.                           *)
Promoting ==
    /\ mode \in {"decide", "erase"} => copied = 0
    /\ mode \in {"erase", "copy"} => ~single /\ meta.part = "B" /\ meta.size > 0
    /\ mode = "copy" =>
         /\ copied <= meta.size
         /\ \A u \in Units :
              flash["A"][u] = IF u < copied THEN flash["B"][u] ELSE Blank

FlashOfFiles == \A p \in Partitions : flash[p] \in RowsOfFiles

LoaderTypes ==
    /\ mode \in Modes /\ copied \in 0 .. NBlocks
    /\ roll \in [started : BOOLEAN, armed : BOOLEAN,
                 age : 0 .. RollbackDelay + IdleRollback + 1, idleDone : BOOLEAN]
    /\ sick \in BOOLEAN /\ single \in BOOLEAN
    /\ mode # "boot" => st = "IDLE"

LoaderInv ==
    /\ FsmInv /\ LoaderTypes /\ FlashOfFiles
    /\ MetaNamed /\ Announced /\ Apart /\ Finished /\ Promoting
    /\ RunsWhatIsRecorded /\ CommittedIntact
-----------------------------------------------------------------------------
(* Rows.                                                                   *)

LEMMA OneUnitBlocks ==
    /\ NFrames = 1 /\ Frames = {0} /\ Units = 0 .. NBlocks - 1 /\ 0 \in Units
    /\ \A u \in Units, b \in Nat : u \in Nat /\ u % NFrames = 0 /\ (u \in UnitsOf(b) <=> u = b)
  <1>1. NFrames = 1 /\ NBlocks \in Nat \ {0}  BY LoaderAssumption, SizesAssumption
  <1>2. Frames = {0} /\ Units = 0 .. NBlocks - 1 /\ 0 \in Units
    BY <1>1 DEF Frames, Units
  <1>3. \A u \in Nat : u % 1 = 0 /\ u \div 1 = u  OBVIOUS
  <1>4. QED  BY <1>1, <1>2, <1>3 DEF UnitsOf

(* A row of plausible units is a row of files.                             *)
LEMMA RowOfFiles ==
    ASSUME NEW row \in Rows, \A u \in Units : row[u] \in UnitsAt(u)
    PROVE  row \in RowsOfFiles
  <1>1. \A u \in Units : row[u] \in UNION {UnitsAt(v) : v \in Units}  OBVIOUS
  <1>2. row \in [Units -> UNION {UnitsAt(v) : v \in Units}]
    BY <1>1 DEF Rows
  <1>3. QED  BY <1>2 DEF RowsOfFiles

LEMMA PlausibleUnits ==
    /\ \A row \in RowsOfFiles, u \in Units : row[u] \in UnitsAt(u)
    /\ \A u \in Units : Blank \in UnitsAt(u) /\ Torn \in UnitsAt(u)
    /\ BlankRow \in RowsOfFiles
  <1>1. \A row \in RowsOfFiles, u \in Units : row[u] \in UnitsAt(u)
    BY DEF RowsOfFiles
  <1>2. \A u \in Units : Blank \in UnitsAt(u) /\ Torn \in UnitsAt(u)
    BY DEF UnitsAt
  <1>3. \A u \in Units : BlankRow[u] \in UnitsAt(u)  BY <1>2 DEF BlankRow
  <1>4. QED  BY <1>1, <1>2, <1>3, BlankRowType, RowOfFiles

(* A matching sum of a recorded length is a whole file.                    *)
LEMMA SumIsAFile ==
    ASSUME FlashOfFiles, NEW p \in Partitions, NEW f \in Files, NEW size \in 1 .. NBlocks,
           FirmwareSum(flash[p], size) = SumFunction(f)
    PROVE  size = Len(f) /\ Begins(flash[p], f)
  <1>1. flash[p] \in RowsOfFiles  BY DEF FlashOfFiles
  <1>2. QED  BY <1>1, FirmwareAssumption

LEMMA FileSizes ==
    ASSUME NEW f \in Files
    PROVE  Len(f) \in 1 .. NBlocks /\ \A u \in 0 .. Len(f) - 1 : u \in Units
  <1>1. Len(f) \in 1 .. NBlocks  BY LoaderAssumption
  <1>2. QED  BY <1>1, OneUnitBlocks, SizesAssumption

(* One block is programmed: its unit becomes the one that was sent, if it  *)
(* was blank, and the others stay.                                         *)
LEMMA ProgrammedRow ==
    ASSUME NEW row \in RowsOfFiles, row \in Rows, NEW b \in Nat, NEW buf \in [Frames -> Nat],
           NEW f \in Files, b < Len(f), buf[0] = f[b + 1]
    PROVE  Programmed(row, b, buf) \in RowsOfFiles
  <1> DEFINE new == Programmed(row, b, buf)
  <1>1. new \in Rows  BY ProgrammedType
  <1>2. ASSUME NEW u \in Units  PROVE new[u] \in UnitsAt(u)
    <2>1. new[u] = row[u] \/ (u = b /\ new[u] = buf[0])
      BY OneUnitBlocks DEF Programmed
    <2>2. CASE u = b /\ new[u] = buf[0]  BY <2>2 DEF UnitsAt
    <2>3. QED  BY <2>1, <2>2, PlausibleUnits
  <1> HIDE DEF new
  <1>3. QED  BY <1>1, <1>2, RowOfFiles DEF new
-----------------------------------------------------------------------------
(* The engine inside a board.                                              *)

(* What the rest of a board sees of an engine step that records nothing.   *)
Unrecorded ==
    /\ target' = target /\ meta' = meta /\ ctx'.reset = ctx.reset
    /\ \A p \in Partitions : p # target => flash'[p] = flash[p]
    /\ FlashOfFiles' /\ Announced'

(* The handlers leave the wish for a reset alone.                          *)
LEMMA ResetsKept ==
    ASSUME TypeOK
    PROVE  /\ Heard.reset = ctx.reset /\ Heard.sum = ctx.sum
           /\ \A c \in Contexts : Reset0(c).reset = c.reset
           /\ \A c \in Contexts : \A u : Stored(c, u).reset = c.reset
           /\ Aged.reset = ctx.reset
           /\ \A c \in Contexts : Dropped(c).reset = c.reset
           /\ NextBlock.reset = ctx.reset
           /\ \A m : Negotiated(m).reset = ctx.reset /\ Tailed(m).reset = ctx.reset
  <1>1. ctx \in Contexts /\ Heard \in Contexts  BY HeardType DEF TypeOK
  <1>2. Heard.reset = ctx.reset /\ Heard.sum = ctx.sum  BY <1>1 DEF Heard, Contexts
  <1>3. \A c \in Contexts : Reset0(c).reset = c.reset /\ Reset0(c) \in Contexts
    BY ResetType DEF Reset0, Contexts
  <1>4. \A c \in Contexts : \A u : Stored(c, u).reset = c.reset  BY DEF Stored, Contexts
  <1>5. Aged.reset = ctx.reset  BY <1>1 DEF Aged, Contexts
  <1>6. \A c \in Contexts : Dropped(c).reset = c.reset  BY DEF Dropped, Contexts
  <1>7. NextBlock.reset = ctx.reset  BY <1>1, <1>2 DEF NextBlock, Contexts
  <1>8. \A m : Negotiated(m).reset = ctx.reset
    BY <1>1, <1>2, <1>3 DEF Negotiated, Contexts
  <1>9. \A m : Tailed(m).reset = ctx.reset
    BY <1>1, <1>2 DEF Tailed, Contexts
  <1>10. QED
    BY <1>2, <1>3, <1>4, <1>5, <1>6, <1>7, <1>8, <1>9

(* A step that leaves the flash as it is and stays in its session.         *)
LEMMA KeepUnrecorded ==
    ASSUME TypeOK, FlashOfFiles, Announced, Keep, ctx'.reset = ctx.reset,
           \/ st' \in {"IDLE", "START"}
           \/ ctx'.sum = ctx.sum
              /\ st \in {"DATA_TRANSFER", "VERIFY_PENDING", "REBOOT_PENDING"}
    PROVE  Unrecorded
  <1>1. target' = target /\ meta' = meta /\ flash' = flash  BY KeepTypes
  <1>2. FlashOfFiles'  BY <1>1 DEF FlashOfFiles
  <1>3. Announced'  BY DEF Announced
  <1>4. QED  BY <1>1, <1>2, <1>3 DEF Unrecorded

(* The block that fits turns a row of files into one.                      *)
LEMMA WrittenRow ==
    ASSUME FsmInv, FlashOfFiles, NEW m \in Messages, Fits(m), BlockEnds(m)
    PROVE  Written(m) \in RowsOfFiles
  <1>1. /\ ctx.acc = 0 /\ Filled(m) \in [Frames -> Nat] /\ ctx \in Contexts
        /\ target \in Partitions /\ flash[target] \in Rows /\ ctx.block \in Nat
    BY BlockTypes, OnTheWire, OneUnitBlocks DEF FsmInv, TypeOK, Contexts
  <1>2. Filled(m)[0] = m.unit
    BY <1>1, OneUnitBlocks DEF Filled, Contexts
  <1>3. PICK f \in Files : ctx.block < Len(f) /\ m.unit = f[ctx.block + 1]
    BY DEF Fits, BlockEnds
  <1>4. flash[target] \in RowsOfFiles  BY <1>1 DEF FlashOfFiles
  <1>5. QED
    BY <1>1, <1>2, <1>3, <1>4, ProgrammedRow DEF Written

(* So is what is taken unit by unit from two rows.                         *)
LEMMA MixedRow ==
    ASSUME NEW r1 \in RowsOfFiles, NEW r2 \in RowsOfFiles,
           NEW row, row = [u \in Units |-> row[u]],
           \A u \in Units : row[u] \in {r1[u], r2[u]}
    PROVE  row \in RowsOfFiles
  <1>1. \A u \in Units : row[u] \in UnitsAt(u)  BY DEF RowsOfFiles
  <1>2. \A u \in Units : row[u] \in UNION {UnitsAt(v) : v \in Units}
    BY <1>1
  <1>3. row \in [Units -> UNION {UnitsAt(v) : v \in Units}]
    BY <1>2
  <1>4. QED  BY <1>1, <1>3 DEF RowsOfFiles

(* A step that may write the target only.                                  *)
LEMMA TargetWritten ==
    ASSUME TypeOK, FlashOfFiles, NEW row \in RowsOfFiles,
           flash' \in {flash, [flash EXCEPT ![target] = row]}
    PROVE  /\ FlashOfFiles'
           /\ \A p \in Partitions : p # target => flash'[p] = flash[p]
  BY DEF FlashOfFiles, TypeOK

LEMMA EraseUnrecorded ==
    ASSUME FsmInv, FlashOfFiles, Announced, NEW m \in Messages,
           IdleStart(m) \/ IdleEraseFails(m)
    PROVE  Unrecorded
  <1>1. /\ TypeOK /\ target' = target /\ meta' = meta
        /\ ctx' = Negotiated(m) /\ st' \in {"IDLE", "START"}
    BY DEF FsmInv, IdleStart, IdleEraseFails, Answer
  <1>2. ctx'.reset = ctx.reset  BY <1>1, ResetsKept
  <1>3. Announced'  BY <1>1 DEF Announced
  <1>4. PICK row \in RowsOfFiles : flash' = [flash EXCEPT ![target] = row]
    <2>1. \A n : WipedTo(n) \in RowsOfFiles
      <3>1. flash[target] \in RowsOfFiles /\ BlankRow \in RowsOfFiles
        BY <1>1, PlausibleUnits DEF FlashOfFiles, TypeOK
      <3>2. TAKE n
      <3>3. PICK row : row = WipedTo(n)  OBVIOUS
      <3>4. /\ row = [u \in Units |-> row[u]]
            /\ \A u \in Units : row[u] \in {BlankRow[u], flash[target][u]}
        BY <3>3 DEF WipedTo, BlankRow
      <3>5. row \in RowsOfFiles  BY <3>1, <3>4, MixedRow
      <3>6. QED  BY <3>3, <3>5
    <2>2. CASE IdleStart(m)  BY <2>2, PlausibleUnits DEF IdleStart
    <2>3. CASE IdleEraseFails(m)  BY <2>1, <2>3 DEF IdleEraseFails
    <2>4. QED  BY <2>2, <2>3
  <1>5. QED  BY <1>1, <1>2, <1>3, <1>4, TargetWritten DEF Unrecorded

LEMMA BlockUnrecorded ==
    ASSUME FsmInv, FlashOfFiles, Announced, NEW m \in Messages, Fits(m),
           BlockWriteFails(m) \/ BlockMismatch(m) \/ BlockCommit(m)
    PROVE  Unrecorded
  <1>1. /\ TypeOK /\ BlockEnds(m) /\ target' = target /\ meta' = meta
        /\ \/ st' = "IDLE" /\ ctx' = Tailed(m)
           \/ ctx' = NextBlock
    BY DEF FsmInv, BlockWriteFails, BlockMismatch, BlockCommit, Answer
  <1>2. ctx'.reset = ctx.reset  BY <1>1, ResetsKept
  <1>3. Announced'
    BY <1>1, BlockTypes, OnTheWire, NextBlockType DEF Announced, BlockEnds
  <1>4. Written(m) \in RowsOfFiles /\ flash[target] \in RowsOfFiles
    BY <1>1, WrittenRow DEF FlashOfFiles, TypeOK
  <1>5. \A n : WrittenTo(m, n) \in RowsOfFiles
    <2>1. TAKE n
    <2>2. PICK row : row = WrittenTo(m, n)  OBVIOUS
    <2>3. /\ row = [u \in Units |-> row[u]]
          /\ \A u \in Units : row[u] \in {Written(m)[u], flash[target][u]}
      BY <2>2 DEF WrittenTo
    <2>4. row \in RowsOfFiles  BY <1>4, <2>3, MixedRow
    <2>5. QED  BY <2>2, <2>4
  <1>6. PICK row \in RowsOfFiles : flash' \in {flash, [flash EXCEPT ![target] = row]}
    <2>1. CASE BlockWriteFails(m)  BY <1>5, <2>1 DEF BlockWriteFails
    <2>2. CASE BlockMismatch(m)  BY <1>4, <2>2 DEF BlockMismatch
    <2>3. CASE BlockCommit(m)  BY <1>4, <2>3 DEF BlockCommit
    <2>4. QED  BY <2>1, <2>2, <2>3
  <1>7. QED  BY <1>1, <1>2, <1>3, <1>6, TargetWritten DEF Unrecorded

LEMMA SessionUnrecorded ==
    ASSUME FsmInv, FlashOfFiles, Announced, NEW m \in Messages,
           \/ DataStart(m) \/ DataStartElsewhere(m) \/ Data(m) \/ DataOutOfOrder(m)
           \/ BlockBad(m) \/ DataUnexpected(m) \/ VerifyUnexpected(m) \/ VerifyPass(m)
           \/ RebootUnexpected(m)
    PROVE  Unrecorded
  <1>1. TypeOK /\ Heard \in Contexts  BY HeardType DEF FsmInv
  <1>2. Keep /\ st \in {"DATA_TRANSFER", "VERIFY_PENDING", "REBOOT_PENDING"}
    BY DEF DataStart, DataStartElsewhere, Data, DataOutOfOrder, BlockBad, BlockEnds,
           DataUnexpected, VerifyUnexpected, VerifyPass, RebootUnexpected
  <1>3. CASE ctx' = Heard
    BY <1>1, <1>2, <1>3, ResetsKept, KeepUnrecorded
  <1>4. CASE DataStart(m)
    BY <1>1, <1>2, <1>4, ResetsKept, KeepUnrecorded DEF DataStart, Answer, Contexts
  <1>5. CASE DataOutOfOrder(m)
    BY <1>1, <1>2, <1>5, ResetsKept, KeepUnrecorded DEF DataOutOfOrder, Answer, Contexts
  <1>6. CASE Data(m)
    <2> DEFINE d == Stored(Heard, m.unit)
    <2>1. m.unit \in Nat  BY <1>6, WireFields, OnTheWire DEF Data
    <2>2. d \in Contexts /\ d.sum = ctx.sum /\ d.reset = ctx.reset
      BY <1>1, <2>1, HeardType, StoredType, ResetsKept
    <2>3. ctx' = [d EXCEPT !.seq = @ + 1, !.active = TRUE, !.blockAge = 0]
      BY <1>6 DEF Data, Answer
    <2> HIDE DEF d
    <2>4. ctx'.sum = ctx.sum /\ ctx'.reset = ctx.reset  BY <2>2, <2>3 DEF Contexts
    <2>5. QED  BY <1>1, <1>2, <2>4, KeepUnrecorded
  <1>7. CASE BlockBad(m)
    <2>1. BlockEnds(m) /\ ctx' = [Tailed(m) EXCEPT !.acc = 0]
      BY <1>7 DEF BlockBad, Answer
    <2>2. /\ Tailed(m) \in Contexts /\ Tailed(m).sum = ctx.sum
          /\ Tailed(m).reset = ctx.reset
      BY <1>1, <2>1, BlockTypes, OnTheWire, ResetsKept
    <2>3. ctx'.sum = ctx.sum /\ ctx'.reset = ctx.reset  BY <2>1, <2>2 DEF Contexts
    <2>4. QED  BY <1>1, <1>2, <2>3, KeepUnrecorded
  <1>8. QED
    BY <1>3, <1>4, <1>5, <1>6, <1>7
       DEF DataStartElsewhere, DataUnexpected, VerifyUnexpected, VerifyPass,
           RebootUnexpected, Answer

LEMMA OutsideUnrecorded ==
    ASSUME FsmInv, FlashOfFiles, Announced, NEW m \in Messages,
           \/ Cancel(m) \/ IdleIgnore(m) \/ IdleReject(m) \/ StartAgain(m)
           \/ StartUnexpected(m) \/ VerifyFail(m)
    PROVE  Unrecorded
  <1>1. TypeOK /\ Heard \in Contexts  BY HeardType DEF FsmInv
  <1>2. Keep /\ st' \in {"IDLE", "START"}
    BY DEF Cancel, IdleIgnore, IdleReject, StartAgain, StartUnexpected, VerifyFail, Answer
  <1>3. \/ ctx' = Heard \/ ctx' = Negotiated(m)
        \/ ctx' = [Reset0(Heard) EXCEPT !.active = FALSE]
    BY DEF Cancel, IdleIgnore, IdleReject, StartAgain, StartUnexpected, VerifyFail, Answer
  <1>4. Reset0(Heard) \in Contexts /\ Reset0(Heard).reset = ctx.reset
    BY <1>1, ResetType, ResetsKept
  <1>5. ctx'.reset = ctx.reset
    BY <1>1, <1>3, <1>4, ResetsKept DEF Contexts
  <1>6. QED  BY <1>1, <1>2, <1>5, KeepUnrecorded

LEMMA MetadataUnrecorded ==
    ASSUME FsmInv, FlashOfFiles, NEW m \in Messages, Metadata(m)
    PROVE  Unrecorded
  <1>1. /\ TypeOK /\ Keep /\ m.cmd = "METADATA" /\ ctx' = [Heard EXCEPT !.sum = m.sum]
        /\ Heard \in Contexts
    BY HeardType DEF FsmInv, Metadata, Answer
  <1>2. ctx'.sum = m.sum /\ ctx'.reset = ctx.reset
    BY <1>1, ResetsKept DEF Contexts
  <1>3. \E f \in Files : m.sum = SumFunction(f)  BY <1>1, FirmwareAssumption
  <1>4. Announced'  BY <1>2, <1>3 DEF Announced
  <1>5. target' = target /\ meta' = meta /\ flash' = flash  BY <1>1, KeepTypes
  <1>6. FlashOfFiles'  BY <1>5 DEF FlashOfFiles
  <1>7. QED  BY <1>2, <1>4, <1>5, <1>6 DEF Unrecorded

LEMMA MessageUnrecorded ==
    ASSUME FsmInv, FlashOfFiles, Announced, NEW m \in Messages, Fits(m), ProcessMsg(m),
           ~Reboot(m)
    PROVE  Unrecorded
  <1>1. CASE IdleStart(m) \/ IdleEraseFails(m)  BY <1>1, EraseUnrecorded
  <1>2. CASE BlockWriteFails(m) \/ BlockMismatch(m) \/ BlockCommit(m)
    BY <1>2, BlockUnrecorded
  <1>3. CASE Metadata(m)  BY <1>3, MetadataUnrecorded
  <1>4. CASE \/ DataStart(m) \/ DataStartElsewhere(m) \/ Data(m) \/ DataOutOfOrder(m)
             \/ BlockBad(m) \/ DataUnexpected(m) \/ VerifyUnexpected(m) \/ VerifyPass(m)
             \/ RebootUnexpected(m)
    BY <1>4, SessionUnrecorded
  <1>5. CASE \/ Cancel(m) \/ IdleIgnore(m) \/ IdleReject(m) \/ StartAgain(m)
             \/ StartUnexpected(m) \/ VerifyFail(m)
    BY <1>5, OutsideUnrecorded
  <1>6. QED  BY <1>1, <1>2, <1>3, <1>4, <1>5, Zenon DEF ProcessMsg

LEMMA TickUnrecorded ==
    ASSUME FsmInv, FlashOfFiles, Announced, Tick
    PROVE  Unrecorded /\ flash' = flash
  <1>1. TypeOK /\ Keep  BY DEF FsmInv, Tick, TickIdle, TickBusy
  <1>2. /\ Aged \in Contexts /\ Aged.sum = ctx.sum /\ Aged.reset = ctx.reset
        /\ Dropped(Aged) \in Contexts /\ Dropped(Aged).sum = ctx.sum
        /\ Dropped(Aged).reset = ctx.reset
    BY <1>1, AgedType, DroppedType, ResetsKept
  <1>3. CASE TickIdle
    <2>1. st' = "IDLE" /\ ctx' = [Aged EXCEPT !.idleAge = 0]
      BY <1>3 DEF TickIdle, Answer
    <2>2. ctx'.reset = ctx.reset  BY <1>2, <2>1 DEF Contexts
    <2>3. QED  BY <1>1, <2>1, <2>2, KeepUnrecorded, KeepTypes
  <1>4. CASE TickBusy
    <2>1. PICK c \in {Aged, Dropped(Aged)} :
             \/ st' = "IDLE" /\ ctx' = [c EXCEPT !.idleAge = 0]
             \/ st' = st /\ ctx' = c
      BY <1>4 DEF TickBusy, Answer
    <2>2. c \in Contexts /\ c.sum = ctx.sum /\ c.reset = ctx.reset  BY <1>2
    <2>3. ctx'.reset = ctx.reset  BY <2>1, <2>2 DEF Contexts
    <2>4. CASE st' = "IDLE"  BY <1>1, <2>3, <2>4, KeepUnrecorded, KeepTypes
    <2>5. CASE st' = st /\ ctx' = c /\ st' # "IDLE"
      BY <1>1, <2>2, <2>3, <2>5, KeepUnrecorded, KeepTypes DEF TypeOK, States
    <2>6. QED  BY <2>1, <2>4, <2>5
  <1>5. QED  BY <1>3, <1>4 DEF Tick
-----------------------------------------------------------------------------
(* The board's steps, by what they do to the session.                      *)

(* Without a session only the types of the engine's variables matter.      *)
LEMMA NoSession ==
    ASSUME st' = "IDLE", ctx' \in Contexts, resp'.kind \in Kinds,
           target' \in Partitions, flash' \in [Partitions -> Rows], meta' \in Metas,
           faults' \in 0 .. MaxFaults
    PROVE  FsmInv' /\ Announced'
  BY DEF FsmInv, TypeOK, AheadBlank, SessionSettled, Announced, States, Kinds

LEMMA RestartStep ==
    ASSUME LoaderInv, Restart, UNCHANGED single, sick' \in BOOLEAN,
           flash' \in [Partitions -> Rows], meta' \in Metas, faults' \in 0 .. MaxFaults,
           FlashOfFiles', MetaNamed', CommittedIntact'
    PROVE  LoaderInv'
  <1>1. /\ mode' = "decide" /\ st' = "IDLE" /\ ctx' = Fresh /\ resp' = Silent
        /\ target' = "A" /\ copied' = 0 /\ roll' = Roll0 /\ single' = single
    BY DEF Restart
  <1>2. FsmInv' /\ Announced'
    BY <1>1, FreshType, ResponseKinds, NoSession DEF Partitions
  <1>3. /\ 0 \in 0 .. NBlocks
        /\ Roll0 \in [started : BOOLEAN, armed : BOOLEAN,
                      age : 0 .. RollbackDelay + IdleRollback + 1, idleDone : BOOLEAN]
    BY SizesAssumption, LoaderAssumption DEF Roll0
  <1>4. LoaderTypes'
    BY <1>1, <1>3 DEF LoaderInv, LoaderTypes, Modes
  <1>5. Apart' /\ Finished' /\ Promoting' /\ RunsWhatIsRecorded'
    BY <1>1 DEF Apart, Finished, Promoting, RunsWhatIsRecorded, Fresh
  <1>6. QED  BY <1>2, <1>4, <1>5 DEF LoaderInv

(* What the metadata name and the flash holds stays so.                    *)
LEMMA StillNamed ==
    ASSUME MetaNamed, CommittedIntact, UNCHANGED <<meta, single>>,
           ~single /\ meta.size > 0 => flash'[meta.part] = flash[meta.part]
    PROVE  MetaNamed' /\ CommittedIntact'
  <1>1. MetaNamed'  BY DEF MetaNamed, Names
  <1>2. CommittedIntact'
    BY DEF CommittedIntact, Holds, Names, Begins
  <1>3. QED  BY <1>1, <1>2

(* A step of a session that records nothing.                               *)
LEMMA SessionStep ==
    ASSUME LoaderInv, mode = "boot", UNCHANGED <<mode, copied, sick, single>>,
           FsmInv', Unrecorded, Finished', ctx.reset => flash' = flash,
           roll' \in [started : BOOLEAN, armed : BOOLEAN,
                      age : 0 .. RollbackDelay + IdleRollback + 1, idleDone : BOOLEAN]
    PROVE  LoaderInv'
  <1>1. LoaderTypes'  BY DEF LoaderInv, LoaderTypes
  <1>2. Apart'  BY DEF LoaderInv, Apart, Unrecorded
  <1>3. meta.part \in Partitions  BY DEF LoaderInv, FsmInv, TypeOK, Metas
  <1>4. ~single /\ meta.size > 0 => flash'[meta.part] = flash[meta.part]
    BY <1>3 DEF LoaderInv, Apart, Unrecorded
  <1>5. MetaNamed' /\ CommittedIntact'
    BY <1>4, StillNamed DEF LoaderInv, Unrecorded
  <1>6. Promoting' /\ RunsWhatIsRecorded'  BY DEF Promoting, RunsWhatIsRecorded
  <1>7. QED  BY <1>1, <1>2, <1>5, <1>6 DEF LoaderInv, Unrecorded

-----------------------------------------------------------------------------
(* Frames of the host.                                                     *)

(* After the REBOOT only a CANCEL comes, which changes nothing.            *)
LEMMA NothingAfterReboot ==
    ASSUME LoaderInv, ctx.reset, NEW m \in Messages, InTurn(m), ProcessMsg(m)
    PROVE  Cancel(m)
  <1>1. st = "IDLE" /\ resp.kind = "ACK"  BY DEF LoaderInv, Finished
  <1>2. m.cmd = "CANCEL"  BY <1>1 DEF InTurn, Answered
  <1>3. /\ ~IdleIgnore(m) /\ ~IdleReject(m) /\ ~IdleStart(m) /\ ~IdleEraseFails(m)
        /\ ~StartAgain(m) /\ ~StartUnexpected(m) /\ ~Metadata(m)
        /\ ~DataStart(m) /\ ~DataStartElsewhere(m) /\ ~Data(m) /\ ~DataOutOfOrder(m)
        /\ ~BlockBad(m) /\ ~BlockWriteFails(m) /\ ~BlockMismatch(m) /\ ~BlockCommit(m)
        /\ ~DataUnexpected(m) /\ ~VerifyUnexpected(m) /\ ~VerifyPass(m) /\ ~VerifyFail(m)
        /\ ~RebootUnexpected(m) /\ ~Reboot(m)
    BY <1>1, <1>2
       DEF IdleIgnore, IdleReject, IdleStart, IdleEraseFails, StartAgain, StartUnexpected,
           Metadata, DataStart, DataStartElsewhere, Data, DataOutOfOrder, BlockBad,
           BlockWriteFails, BlockMismatch, BlockCommit, BlockEnds, DataUnexpected,
           VerifyUnexpected, VerifyPass, VerifyFail, RebootUnexpected, Reboot, Rebooted
  <1>4. QED  BY <1>3, Zenon DEF ProcessMsg

LEMMA ReceiveStep ==
    ASSUME LoaderInv, mode = "boot", UNCHANGED <<single, mode, copied, roll, sick>>,
           NEW m \in Messages, Fits(m), InTurn(m), ProcessMsg(m), ~Reboot(m)
    PROVE  LoaderInv'
  <1>1. FsmInv' /\ Unrecorded
    BY OnTheWire, MessageStep, MessageUnrecorded DEF LoaderInv
  <1>2. CASE ctx.reset
    <2>1. Cancel(m)  BY <1>2, NothingAfterReboot
    <2>2. Finished' /\ flash' = flash
      BY <2>1 DEF Cancel, Answer, Keep, Finished, Ack
    <2>3. QED  BY <1>1, <2>2, SessionStep DEF LoaderInv, LoaderTypes
  <1>3. CASE ~ctx.reset
    <2>1. Finished'  BY <1>1, <1>3 DEF Finished, Unrecorded
    <2>2. QED  BY <1>1, <1>3, <2>1, SessionStep DEF LoaderInv, LoaderTypes
  <1>4. QED  BY <1>2, <1>3

(* The commit: the verified sum is one of the files', so the target holds  *)
(* that file, whole.                                                       *)
LEMMA CommitsAFile ==
    ASSUME LoaderInv, st = "REBOOT_PENDING"
    PROVE  /\ ctx.size \in 1 .. NBlocks
           /\ \E f \in Files :
                Names(NewMeta, f) /\ Begins(flash[NewMeta.part], f)
  <1>1. /\ ctx.size \in 1 .. NBlocks /\ FirmwareSum(flash[target], ctx.size) = ctx.sum
        /\ target \in Partitions
    BY LoaderAssumption, SizesAssumption
       DEF LoaderInv, FsmInv, SessionSettled, FlashSum, TypeOK
  <1>2. PICK f \in Files : ctx.sum = SumFunction(f)  BY DEF LoaderInv, Announced
  <1>3. ctx.size = Len(f) /\ Begins(flash[target], f)
    BY <1>1, <1>2, SumIsAFile DEF LoaderInv
  <1>4. QED  BY <1>1, <1>2, <1>3 DEF NewMeta, Names

LEMMA RebootedStep ==
    ASSUME LoaderInv, mode = "boot", UNCHANGED <<single, mode, copied, roll, sick>>,
           NEW m \in Messages, Rebooted(m),
           SaveMeta(NewMeta) \/ (UNCHANGED meta /\ Sound)
    PROVE  LoaderInv'
  <1> DEFINE c == [Heard EXCEPT !.reset = TRUE]
  <1>1. /\ TypeOK /\ st = "REBOOT_PENDING" /\ flash' = flash /\ target' = target
        /\ st' = "IDLE" /\ ctx' = c /\ resp' = Ack("REBOOT") /\ Heard \in Contexts
    BY HeardType DEF LoaderInv, FsmInv, Rebooted, Answer
  <1>2. c \in Contexts  BY <1>1, Zenon DEF Contexts
  <1>3. c.reset  BY <1>1 DEF Contexts
  <1> HIDE DEF c
  <1>4. meta' \in Metas /\ faults' \in 0 .. MaxFaults
    BY <1>1, NewMetaType, SizesAssumption DEF SaveMeta, Sound, Faulty, TypeOK
  <1>5. FsmInv' /\ Announced'
    BY <1>1, <1>2, <1>4, ResponseKinds, NoSession DEF TypeOK
  <1>6. MetaNamed' /\ CommittedIntact'
    <2>1. CASE meta' = meta  BY <1>1, <2>1, StillNamed DEF LoaderInv
    <2>2. CASE meta' = NewMeta
      BY <1>1, <2>2, CommitsAFile DEF MetaNamed, CommittedIntact, Holds, Names, Begins
    <2>3. QED  BY <2>1, <2>2 DEF SaveMeta
  <1>7. Apart' /\ Finished' /\ Promoting' /\ RunsWhatIsRecorded'
    BY <1>1, <1>3 DEF Apart, Finished, Promoting, RunsWhatIsRecorded, Ack
  <1>8. LoaderTypes' /\ FlashOfFiles'
    BY <1>1 DEF LoaderInv, LoaderTypes, FlashOfFiles
  <1>9. QED  BY <1>5, <1>6, <1>7, <1>8 DEF LoaderInv

LEMMA HostStep ==
    ASSUME LoaderInv, UNCHANGED single, NEW m \in Messages, Receive(m)
    PROVE  LoaderInv'
  <1>1. /\ mode = "boot" /\ UNCHANGED <<mode, copied, roll, sick>>
        /\ Fits(m) /\ InTurn(m)
        /\ \/ Rebooted(m) /\ UNCHANGED meta /\ Sound
           \/ ProcessMsg(m)
    BY DEF Receive
  <1>2. CASE Rebooted(m) /\ UNCHANGED meta /\ Sound  BY <1>1, <1>2, RebootedStep
  <1>3. CASE Reboot(m)  BY <1>1, <1>3, RebootedStep DEF Reboot
  <1>4. CASE ProcessMsg(m) /\ ~Reboot(m)  BY <1>1, <1>4, ReceiveStep
  <1>5. QED  BY <1>1, <1>2, <1>3, <1>4
-----------------------------------------------------------------------------
(* The polling callback.                                                   *)

(* Saving a record that differs from the old one in its flag only.         *)
LEMMA FlagStored ==
    ASSUME LoaderInv, flash' = flash, UNCHANGED single, NEW b \in {0, 1},
           \/ meta' = [meta EXCEPT !.flag = b] \/ meta' = meta
    PROVE  meta' \in Metas /\ MetaNamed' /\ CommittedIntact'
  <1>1. meta \in Metas  BY DEF LoaderInv, FsmInv, TypeOK
  <1>2. /\ meta' \in Metas /\ meta'.part = meta.part
        /\ meta'.size = meta.size /\ meta'.sum = meta.sum
    BY <1>1 DEF Metas
  <1>3. MetaNamed'  BY <1>2 DEF LoaderInv, MetaNamed, Names
  <1>4. CommittedIntact'
    BY <1>2 DEF LoaderInv, CommittedIntact, Holds, Names, Begins
  <1>5. QED  BY <1>2, <1>3, <1>4

LEMMA FaultsCounted ==
    ASSUME LoaderInv, Sound \/ Faulty
    PROVE  faults' \in 0 .. MaxFaults
  BY SizesAssumption DEF LoaderInv, FsmInv, TypeOK, Sound, Faulty

LEMMA QuietRestart ==
    ASSUME LoaderInv, Restart, UNCHANGED single, UNCHANGED Stored0
    PROVE  LoaderInv'
  <1>1. /\ flash' = flash /\ meta' = meta /\ faults' = faults /\ sick' = sick
    BY DEF Stored0
  <1>2. MetaNamed' /\ CommittedIntact'  BY <1>1, StillNamed DEF LoaderInv
  <1>3. /\ flash' \in [Partitions -> Rows] /\ meta' \in Metas
        /\ faults' \in 0 .. MaxFaults /\ sick' \in BOOLEAN /\ FlashOfFiles'
    BY <1>1 DEF LoaderInv, FsmInv, TypeOK, LoaderTypes, FlashOfFiles
  <1>4. QED  BY <1>2, <1>3, RestartStep

LEMMA TickTypes ==
    ASSUME LoaderInv, Tick
    PROVE  FsmInv' /\ Unrecorded /\ flash' = flash
  BY TickIdleStep, TickBusyStep, TickUnrecorded DEF LoaderInv, Tick

LEMMA RollTypes ==
    ASSUME LoaderInv
    PROVE  LET Rolls == [started : BOOLEAN, armed : BOOLEAN,
                         age : 0 .. RollbackDelay + IdleRollback + 1, idleDone : BOOLEAN]
           IN  /\ [Roll0 EXCEPT !.started = TRUE] \in Rolls
               /\ [roll EXCEPT !.armed = TRUE, !.age = 0] \in Rolls
               /\ \A d \in {RollbackDelay, IdleRollback} :
                    /\ [roll EXCEPT !.age = Older(@, d)] \in Rolls
                    /\ [roll EXCEPT !.age = Older(@, d), !.idleDone = @ \/ IdleDue] \in Rolls
  <1> DEFINE Ages == 0 .. RollbackDelay + IdleRollback + 1
             Rolls == [started : BOOLEAN, armed : BOOLEAN, age : Ages, idleDone : BOOLEAN]
  <1>1. roll \in Rolls  BY DEF LoaderInv, LoaderTypes
  <1>2. RollbackDelay \in Nat /\ IdleRollback \in Nat  BY LoaderAssumption
  <1>3. 0 \in Ages  BY <1>2
  <1>4. roll.age \in Ages  BY <1>1, Zenon
  <1>5. \A d \in {RollbackDelay, IdleRollback} : Older(roll.age, d) \in Ages
    BY <1>2, <1>4 DEF Older
  <1>6. (roll.idleDone \/ IdleDue) \in BOOLEAN  BY Zenon
  <1> HIDE DEF Ages
  <1>7. [Roll0 EXCEPT !.started = TRUE] \in Rolls  BY <1>3 DEF Roll0
  <1>8. [roll EXCEPT !.armed = TRUE, !.age = 0] \in Rolls
    BY <1>1, <1>3, Zenon
  <1>9. ASSUME NEW d \in {RollbackDelay, IdleRollback}
        PROVE  /\ [roll EXCEPT !.age = Older(@, d)] \in Rolls
               /\ [roll EXCEPT !.age = Older(@, d), !.idleDone = @ \/ IdleDue] \in Rolls
    <2> DEFINE a == Older(roll.age, d)
               i == roll.idleDone \/ IdleDue
    <2>1. a \in Ages /\ i \in BOOLEAN  BY <1>5, <1>6
    <2> HIDE DEF a, i
    <2>2. [roll EXCEPT !.age = a] \in Rolls  BY <1>1, <2>1, Zenon
    <2>3. [roll EXCEPT !.age = a, !.idleDone = i] \in Rolls  BY <1>1, <2>1, Zenon
    <2>4. QED  BY <2>2, <2>3 DEF a, i
  <1>10. QED  BY <1>7, <1>8, <1>9 DEF Ages

LEMMA CallbackStep ==
    ASSUME LoaderInv, UNCHANGED single, Callback
    PROVE  LoaderInv'
  <1>1. CASE CallbackResets  BY <1>1, QuietRestart DEF CallbackResets
  <1>2. CASE CallbackInSession
    <2>1. FsmInv' /\ Unrecorded /\ Finished'
      BY <1>2, TickTypes DEF CallbackInSession, Unrecorded, Finished
    <2>2. QED  BY <1>2, <2>1, RollTypes, SessionStep DEF CallbackInSession
  <1>3. CASE CallbackIdles
    <2>1. FsmInv' /\ Unrecorded /\ Finished'
      BY <1>3, TickTypes DEF CallbackIdles, Unrecorded, Finished
    <2>2. roll' \in [started : BOOLEAN, armed : BOOLEAN,
                     age : 0 .. RollbackDelay + IdleRollback + 1, idleDone : BOOLEAN]
      BY <1>3, RollTypes DEF CallbackIdles
    <2>3. QED  BY <1>3, <2>1, <2>2, SessionStep DEF CallbackIdles
  <1>4. CASE CallbackRollsBack
    <2>1. /\ flash' = flash /\ sick' = sick /\ Restart /\ (Sound \/ Faulty)
          /\ meta' = [meta EXCEPT !.flag = 0] \/ meta' = meta
      BY <1>4 DEF CallbackRollsBack, Store, SaveMeta, FlagCleared
    <2>2. meta' \in Metas /\ MetaNamed' /\ CommittedIntact' /\ faults' \in 0 .. MaxFaults
      BY <2>1, FlagStored, FaultsCounted
    <2>3. flash' \in [Partitions -> Rows] /\ sick' \in BOOLEAN /\ FlashOfFiles'
      BY <2>1 DEF LoaderInv, FsmInv, TypeOK, LoaderTypes, FlashOfFiles
    <2>4. QED  BY <2>1, <2>2, <2>3, RestartStep
  <1>5. QED  BY <1>1, <1>2, <1>3, <1>4 DEF Callback
-----------------------------------------------------------------------------
(* The start of the board.                                                 *)

LEMMA OutsideStep ==
    ASSUME LoaderInv, mode # "boot", UNCHANGED <<st, ctx, resp, single, roll>>,
           target' \in Partitions, mode' \in Modes, copied' \in 0 .. NBlocks,
           sick' \in BOOLEAN, flash' \in [Partitions -> Rows], meta' \in Metas,
           faults' \in 0 .. MaxFaults,
           FlashOfFiles', MetaNamed', CommittedIntact', Apart', Promoting',
           RunsWhatIsRecorded'
    PROVE  LoaderInv'
  <1>1. /\ st = "IDLE" /\ ~ctx.reset /\ ctx \in Contexts /\ resp.kind \in Kinds
    BY DEF LoaderInv, FsmInv, LoaderTypes, Finished, TypeOK, Kinds
  <1>2. FsmInv' /\ Announced'  BY <1>1, NoSession
  <1>3. LoaderTypes'  BY <1>1 DEF LoaderInv, LoaderTypes
  <1>4. Finished'  BY <1>1 DEF Finished
  <1>5. QED  BY <1>2, <1>3, <1>4 DEF LoaderInv

LEMMA StoredTypes ==
    ASSUME LoaderInv
    PROVE  /\ target \in Partitions /\ flash \in [Partitions -> Rows] /\ meta \in Metas
           /\ meta.part \in Partitions /\ meta.size \in Nat
           /\ faults \in 0 .. MaxFaults /\ sick \in BOOLEAN /\ copied \in 0 .. NBlocks
           /\ single \in BOOLEAN /\ FlashOfFiles /\ MetaNamed /\ CommittedIntact
  BY DEF LoaderInv, FsmInv, TypeOK, LoaderTypes, Metas

(* What metadata name is no longer than a partition.                       *)
LEMMA NamedFits ==
    ASSUME MetaNamed, meta.size > 0
    PROVE  meta.size \in 1 .. NBlocks
  BY FileSizes DEF MetaNamed, Names

(* A matching sum is a whole file: the check of the boot decision.         *)
LEMMA DecidesOnAFile ==
    ASSUME LoaderInv, NEW p \in Partitions, SumMatches(p)
    PROVE  \E f \in Files : Holds(p, f)
  <1>1. meta.size \in 1 .. NBlocks
    BY NamedFits DEF LoaderInv, SumMatches
  <1>2. PICK f \in Files : meta.size = Len(f) /\ meta.sum = SumFunction(f)
    BY <1>1 DEF LoaderInv, MetaNamed, Names
  <1>3. FirmwareSum(flash[p], meta.size) = SumFunction(f)  BY <1>2 DEF SumMatches
  <1>4. Begins(flash[p], f)  BY <1>1, <1>3, SumIsAFile DEF LoaderInv
  <1>5. QED  BY <1>2, <1>4 DEF Holds, Names

LEMMA DecideStep ==
    ASSUME LoaderInv, UNCHANGED single, Decide
    PROVE  LoaderInv'
  <1>1. /\ mode = "decide" /\ UNCHANGED <<st, ctx, target, resp>> /\ UNCHANGED copied
        /\ UNCHANGED <<flash, meta, faults, sick, roll, single>>
    BY DEF Decide, Engine, Stored0
  <1>2. /\ mode' \in {"enter", "erase", "app"}
        /\ mode' \in {"erase", "app"} => SumMatches(RunPartition)
        /\ mode' = "erase" => RunPartition = "B"
        /\ mode' = "app" => RunPartition # "B"
    BY DEF Decide
  <1>3. RunPartition \in Partitions /\ (RunPartition = "B" => ~single /\ meta.part = "B")
    BY StoredTypes DEF RunPartition, Partitions
  <1>4. MetaNamed' /\ CommittedIntact'  BY <1>1, StillNamed, StoredTypes
  <1>5. RunsWhatIsRecorded'
    <2>1. SUFFICES ASSUME mode' = "app"
                   PROVE  \E f \in Files : Holds("A", f)'
      BY DEF RunsWhatIsRecorded
    <2>2. SumMatches("A") /\ "A" \in Partitions  BY <1>2, <1>3, <2>1 DEF Partitions
    <2>3. PICK f \in Files : Holds("A", f)  BY <2>2, DecidesOnAFile
    <2>4. Holds("A", f)'  BY <1>1, <2>3 DEF Holds, Names, Begins
    <2>5. QED  BY <2>4
  <1>6. Promoting'
    BY <1>1, <1>2, <1>3 DEF LoaderInv, Promoting, SumMatches
  <1>7. Apart' /\ FlashOfFiles' /\ mode' \in Modes
    BY <1>1, <1>2 DEF LoaderInv, Apart, FlashOfFiles, Modes
  <1>8. QED  BY <1>1, <1>4, <1>5, <1>6, <1>7, StoredTypes, OutsideStep

LEMMA EnterStep ==
    ASSUME LoaderInv, UNCHANGED single, EnterBoot
    PROVE  LoaderInv'
  <1>1. /\ mode = "enter" /\ mode' = "boot" /\ target' = UpgradePartition /\ copied' = 0
        /\ UNCHANGED <<st, ctx, resp, flash, meta, faults, sick, roll, single>>
    BY DEF EnterBoot, Stored0
  <1>2. MetaNamed' /\ CommittedIntact'  BY <1>1, StillNamed, StoredTypes
  <1>3. /\ target' \in Partitions
        /\ single \/ meta.size = 0 \/ target' # meta.part
    BY <1>1, StoredTypes DEF UpgradePartition, Partitions
  <1>4. Apart' /\ Promoting' /\ RunsWhatIsRecorded' /\ FlashOfFiles'
    BY <1>1, <1>3 DEF LoaderInv, Apart, Promoting, RunsWhatIsRecorded, FlashOfFiles
  <1>5. 0 \in 0 .. NBlocks /\ "boot" \in Modes  BY SizesAssumption DEF Modes
  <1>6. QED  BY <1>1, <1>2, <1>3, <1>4, <1>5, StoredTypes, OutsideStep
-----------------------------------------------------------------------------
(* The promotion of B into A: B is the recorded partition and stays.       *)

(* What a step that writes only A leaves of the recorded partition B.      *)
LEMMA BStays ==
    ASSUME LoaderInv, mode \in {"erase", "copy"}, UNCHANGED <<single, meta>>,
           NEW row \in RowsOfFiles, row \in Rows,
           flash' \in {flash, [flash EXCEPT !["A"] = row]}
    PROVE  /\ flash' \in [Partitions -> Rows] /\ FlashOfFiles'
           /\ MetaNamed' /\ CommittedIntact' /\ flash'["B"] = flash["B"]
  <1>1. meta.part = "B" /\ "A" \in Partitions /\ "B" \in Partitions
    BY DEF LoaderInv, Promoting, Partitions
  <1>2. flash' \in [Partitions -> Rows] /\ flash'["B"] = flash["B"]
    BY <1>1, StoredTypes
  <1>3. FlashOfFiles'  BY StoredTypes DEF FlashOfFiles
  <1>4. MetaNamed' /\ CommittedIntact'  BY <1>1, <1>2, StillNamed, StoredTypes
  <1>5. QED  BY <1>2, <1>3, <1>4

LEMMA EraseStep ==
    ASSUME LoaderInv, UNCHANGED single, PromoteErase
    PROVE  LoaderInv'
  <1>1. /\ mode = "erase" /\ UNCHANGED <<st, ctx, target, resp>> /\ UNCHANGED copied
        /\ UNCHANGED <<meta, sick, roll, single>>
        /\ flash' \in {flash, [flash EXCEPT !["A"] = BlankRow]}
        /\ \/ mode' = "copy" /\ flash' = [flash EXCEPT !["A"] = BlankRow] /\ Sound
           \/ mode' = "enter" /\ Faulty
    BY DEF PromoteErase, Engine
  <1>2. /\ flash' \in [Partitions -> Rows] /\ FlashOfFiles'
        /\ MetaNamed' /\ CommittedIntact'
    BY <1>1, BStays, BlankRowType, PlausibleUnits
  <1>3. copied = 0 /\ ~single /\ meta.part = "B" /\ meta.size > 0
    BY <1>1 DEF LoaderInv, Promoting
  <1>4. Promoting'
    <2>1. CASE mode' = "copy"
      <3>1. flash'["A"] = BlankRow
        BY <1>1, <2>1, StoredTypes DEF Partitions
      <3>2. \A u \in Units : BlankRow[u] = Blank  BY DEF BlankRow
      <3>3. \A u \in Units : ~(u < 0)  BY OneUnitBlocks, SizesAssumption
      <3>4. QED  BY <1>1, <1>3, <2>1, <3>1, <3>2, <3>3, StoredTypes DEF Promoting
    <2>2. CASE mode' = "enter"  BY <2>2 DEF Promoting
    <2>3. QED  BY <1>1, <2>1, <2>2
  <1>5. faults' \in 0 .. MaxFaults  BY <1>1, FaultsCounted
  <1>6. Apart' /\ RunsWhatIsRecorded' /\ mode' \in Modes
    BY <1>1 DEF Apart, RunsWhatIsRecorded, Modes
  <1>7. QED  BY <1>1, <1>2, <1>4, <1>5, <1>6, StoredTypes, OutsideStep

(* The unit that is copied was blank, so it lands.                         *)
LEMMA CopiedRow ==
    ASSUME LoaderInv, mode = "copy", copied < meta.size
    PROVE  LET row == Programmed(flash["A"], copied, [f \in Frames |-> flash["B"][copied]])
           IN  /\ copied \in Units /\ row \in Rows /\ row \in RowsOfFiles
               /\ \A u \in Units : row[u] = IF u < copied + 1 THEN flash["B"][u] ELSE Blank
  <1> DEFINE buf == [f \in Frames |-> flash["B"][copied]]
             row == Programmed(flash["A"], copied, buf)
  <1>1. /\ meta.size \in 1 .. NBlocks /\ copied \in Nat /\ copied \in Units
    BY NamedFits, StoredTypes, OneUnitBlocks, SizesAssumption DEF LoaderInv, Promoting
  <1>2. /\ flash["A"] \in Rows /\ flash["B"] \in Rows
        /\ flash["A"] \in RowsOfFiles /\ flash["B"] \in RowsOfFiles
    BY StoredTypes DEF Partitions, FlashOfFiles
  <1>3. \A u \in Units : flash["A"][u] = IF u < copied THEN flash["B"][u] ELSE Blank
    BY DEF LoaderInv, Promoting
  <1>4. buf \in [Frames -> Nat]  BY <1>1, <1>2 DEF Rows
  <1>5. row \in Rows  BY <1>1, <1>2, <1>4, ProgrammedType
  <1>6. ASSUME NEW u \in Units
        PROVE  row[u] = IF u < copied + 1 THEN flash["B"][u] ELSE Blank
    <2>1. u \in Nat /\ u % NFrames = 0 /\ 0 \in Frames /\ (u \in UnitsOf(copied) <=> u = copied)
      BY <1>1, OneUnitBlocks
    <2>2. buf[0] = flash["B"][copied]  BY <2>1
    <2>3. row[u] = IF u = copied /\ flash["A"][u] = Blank THEN buf[0] ELSE flash["A"][u]
      BY <2>1 DEF Programmed
    <2>4. CASE u = copied  BY <1>1, <1>3, <2>2, <2>3, <2>4
    <2>5. CASE u # copied  BY <1>1, <1>3, <2>1, <2>3, <2>5
    <2>6. QED  BY <2>4, <2>5
  <1> HIDE DEF row
  <1>7. row \in RowsOfFiles
    BY <1>2, <1>5, <1>6, RowOfFiles, PlausibleUnits
  <1>8. QED  BY <1>1, <1>5, <1>6, <1>7 DEF row

LEMMA CopyStep ==
    ASSUME LoaderInv, UNCHANGED single, PromoteCopy
    PROVE  LoaderInv'
  <1> DEFINE row == Programmed(flash["A"], copied, [f \in Frames |-> flash["B"][copied]])
  <1>1. /\ mode = "copy" /\ copied < meta.size /\ UNCHANGED <<st, ctx, target, resp>>
        /\ UNCHANGED <<meta, sick, roll, single>>
        /\ \/ /\ flash' = [flash EXCEPT !["A"] = row] /\ copied' = copied + 1
              /\ mode' = "copy" /\ Sound
           \/ flash' = flash /\ copied' = copied /\ mode' = "enter" /\ Faulty
    BY DEF PromoteCopy, Engine, Copied
  <1>2. /\ copied \in Units /\ row \in Rows /\ row \in RowsOfFiles
        /\ \A u \in Units : row[u] = IF u < copied + 1 THEN flash["B"][u] ELSE Blank
    BY <1>1, CopiedRow
  <1> HIDE DEF row
  <1>3. /\ flash' \in [Partitions -> Rows] /\ FlashOfFiles'
        /\ MetaNamed' /\ CommittedIntact' /\ flash'["B"] = flash["B"]
    BY <1>1, <1>2, BStays
  <1>4. copied' \in 0 .. NBlocks
    BY <1>1, <1>2, OneUnitBlocks, StoredTypes, SizesAssumption
  <1>5. ~single /\ meta.part = "B" /\ meta.size > 0  BY <1>1 DEF LoaderInv, Promoting
  <1>6. Promoting'
    <2>1. CASE mode' = "copy"
      <3>1. flash'["A"] = row /\ copied' = copied + 1
        BY <1>1, <2>1, StoredTypes DEF Partitions
      <3>2. copied + 1 <= meta.size  BY <1>1, StoredTypes
      <3>3. QED  BY <1>1, <1>2, <1>3, <1>5, <2>1, <3>1, <3>2 DEF Promoting
    <2>2. CASE mode' = "enter"  BY <2>2 DEF Promoting
    <2>3. QED  BY <1>1, <2>1, <2>2
  <1>7. faults' \in 0 .. MaxFaults  BY <1>1, FaultsCounted
  <1>8. Apart' /\ RunsWhatIsRecorded' /\ mode' \in Modes
    BY <1>1 DEF Apart, RunsWhatIsRecorded, Modes
  <1>9. QED  BY <1>1, <1>3, <1>4, <1>6, <1>7, <1>8, StoredTypes, OutsideStep

(* A complete copy is the recorded file, whether or not the record of its  *)
(* new place is saved.                                                     *)
LEMMA RecordStep ==
    ASSUME LoaderInv, UNCHANGED single, PromoteRecord
    PROVE  LoaderInv'
  <1>1. /\ mode = "copy" /\ copied = meta.size /\ UNCHANGED <<st, ctx, target, resp>>
        /\ UNCHANGED <<flash, copied, sick, roll, single>> /\ (Sound \/ Faulty)
        /\ meta' = [meta EXCEPT !.part = "A"] \/ meta' = meta
        /\ mode' \in {"app", "enter"}
    BY DEF PromoteRecord, Engine, Store, SaveMeta
  <1>2. /\ ~single /\ meta.part = "B" /\ meta.size > 0
        /\ \A u \in Units : u < meta.size => flash["A"][u] = flash["B"][u]
    BY <1>1 DEF LoaderInv, Promoting
  <1>3. PICK f \in Files : Holds("B", f)
    BY <1>2 DEF LoaderInv, CommittedIntact
  <1>4. Begins(flash["A"], f) /\ Begins(flash["B"], f) /\ Names(meta, f)
    <2>1. meta.size = Len(f) /\ Begins(flash["B"], f)
      BY <1>3 DEF Holds, Names
    <2>2. ASSUME NEW u \in 0 .. Len(f) - 1  PROVE flash["A"][u] = f[u + 1]
      <3>1. u \in Units /\ u < meta.size  BY <2>1, <2>2, FileSizes
      <3>2. QED  BY <1>2, <2>1, <2>2, <3>1 DEF Begins
    <2>3. QED  BY <1>3, <2>1, <2>2 DEF Holds, Begins
  <1>5. /\ meta' \in Metas /\ meta'.part \in {"A", "B"}
        /\ meta'.size = meta.size /\ meta'.sum = meta.sum
    BY <1>1, <1>2, StoredTypes DEF Metas, Partitions
  <1>6. Holds("A", f)' /\ Holds("B", f)' /\ Names(meta, f)'
    BY <1>1, <1>4, <1>5 DEF Holds, Names, Begins
  <1>7. MetaNamed' /\ CommittedIntact' /\ RunsWhatIsRecorded'
    BY <1>5, <1>6, Zenon DEF MetaNamed, CommittedIntact, RunsWhatIsRecorded
  <1>8. faults' \in 0 .. MaxFaults  BY <1>1, FaultsCounted
  <1>9. Apart' /\ Promoting' /\ FlashOfFiles' /\ mode' \in Modes
    BY <1>1 DEF LoaderInv, Apart, Promoting, FlashOfFiles, Modes
  <1>10. QED  BY <1>1, <1>5, <1>7, <1>8, <1>9, StoredTypes, OutsideStep
-----------------------------------------------------------------------------
(* The application and the supply.                                         *)

LEMMA RequestStep ==
    ASSUME LoaderInv, UNCHANGED single, AppRequest
    PROVE  LoaderInv'
  <1>1. /\ mode = "app" /\ flash' = flash /\ sick' = sick /\ (Sound \/ Faulty)
        /\ meta' = [meta EXCEPT !.flag = 1] \/ meta' = meta
    BY DEF AppRequest, SaveMeta
  <1>2. /\ meta' \in Metas /\ MetaNamed' /\ CommittedIntact' /\ faults' \in 0 .. MaxFaults
    BY <1>1, FlagStored, FaultsCounted
  <1>3. /\ flash' \in [Partitions -> Rows] /\ sick' \in BOOLEAN /\ FlashOfFiles'
    BY <1>1, StoredTypes DEF FlashOfFiles
  <1>4. CASE Restart  BY <1>2, <1>3, <1>4, RestartStep
  <1>5. CASE meta' = meta /\ UNCHANGED <<mode, copied, roll, Engine>>
    <2>1. UNCHANGED <<st, ctx, target, resp>>  BY <1>5 DEF Engine
    <2>2. Apart' /\ Promoting' /\ mode' \in Modes
      BY <1>1, <1>5 DEF Apart, Promoting, Modes
    <2>3. RunsWhatIsRecorded'
      BY <1>1, <1>5 DEF LoaderInv, RunsWhatIsRecorded, Holds, Names, Begins
    <2>4. QED  BY <1>1, <1>2, <1>3, <1>5, <2>1, <2>2, <2>3, StoredTypes, OutsideStep
  <1>6. QED  BY <1>4, <1>5 DEF AppRequest

(* What an erase or a programming that is cut may touch is not the         *)
(* recorded partition.                                                     *)
LEMMA CutElsewhere ==
    ASSUME LoaderInv, NEW p \in Partitions, Erasing(p) \/ \E u \in Units : Programming(p, u),
           ~single, meta.size > 0
    PROVE  p # meta.part
  <1>1. CASE mode \in {"erase", "copy"}
    BY <1>1 DEF LoaderInv, Promoting, Erasing, Programming
  <1>2. CASE mode = "boot"
    <2>1. ~ctx.reset /\ p = target
      BY <1>2 DEF LoaderInv, Finished, Erasing, Programming, Answered
    <2>2. QED  BY <1>2, <2>1 DEF LoaderInv, Apart
  <1>3. QED  BY <1>1, <1>2 DEF Erasing, Programming

(* A power failure that damages a partition other than the recorded one.   *)
LEMMA CutStep ==
    ASSUME LoaderInv, UNCHANGED single, Restart, UNCHANGED <<meta, faults, sick>>,
           NEW p \in Partitions, ~single /\ meta.size > 0 => p # meta.part,
           NEW row \in Rows, \A u \in Units : row[u] \in {flash[p][u], Blank, Torn},
           flash' = [flash EXCEPT ![p] = row]
    PROVE  LoaderInv'
  <1>1. flash[p] \in RowsOfFiles  BY StoredTypes DEF FlashOfFiles
  <1>2. row \in RowsOfFiles
    BY <1>1, RowOfFiles, PlausibleUnits
  <1>3. flash' \in [Partitions -> Rows] /\ FlashOfFiles'
    BY <1>2, StoredTypes DEF FlashOfFiles
  <1>4. MetaNamed' /\ CommittedIntact'
    BY StoredTypes, StillNamed
  <1>5. QED  BY <1>3, <1>4, StoredTypes, RestartStep

LEMMA PowerStep ==
    ASSUME LoaderInv, UNCHANGED single,
           PowerFail \/ PowerFailErase \/ PowerFailProgram \/ PowerFailSave
    PROVE  LoaderInv'
  <1>1. CASE PowerFail  BY <1>1, QuietRestart DEF PowerFail
  <1>2. CASE PowerFailErase
    <2>1. PICK p \in Partitions, S \in SUBSET Units :
            /\ Erasing(p)
            /\ flash' = [flash EXCEPT ![p] = [u \in Units |-> IF u \in S THEN Blank ELSE @[u]]]
      BY <1>2 DEF PowerFailErase
    <2> DEFINE row == [u \in Units |-> IF u \in S THEN Blank ELSE flash[p][u]]
    <2>2. flash[p] \in Rows  BY StoredTypes
    <2>3. row \in Rows /\ \A u \in Units : row[u] \in {flash[p][u], Blank, Torn}
      BY <2>2, SizesAssumption DEF Rows
    <2>4. flash' = [flash EXCEPT ![p] = row]  BY <2>1
    <2>5. Restart /\ UNCHANGED <<meta, faults, sick>>  BY <1>2 DEF PowerFailErase
    <2>6. ~single /\ meta.size > 0 => p # meta.part  BY <2>1, CutElsewhere
    <2> HIDE DEF row
    <2>7. QED  BY <2>3, <2>4, <2>5, <2>6, CutStep
  <1>3. CASE PowerFailProgram
    <2>1. PICK p \in Partitions, u \in Units :
            Programming(p, u) /\ flash' = [flash EXCEPT ![p][u] = Torn]
      BY <1>3 DEF PowerFailProgram
    <2> DEFINE row == [flash[p] EXCEPT ![u] = Torn]
    <2>2. flash[p] \in Rows  BY StoredTypes
    <2>3. row \in Rows /\ \A v \in Units : row[v] \in {flash[p][v], Blank, Torn}
      BY <2>2, LoaderAssumption DEF Rows
    <2>4. flash' = [flash EXCEPT ![p] = row]  BY <2>1
    <2>5. Restart /\ UNCHANGED <<meta, faults, sick>>  BY <1>3 DEF PowerFailProgram
    <2>6. ~single /\ meta.size > 0 => p # meta.part  BY <2>1, CutElsewhere
    <2> HIDE DEF row
    <2>7. QED  BY <2>3, <2>4, <2>5, <2>6, CutStep
  <1>4. CASE PowerFailSave
    <2>1. /\ mode = "decide" /\ sick' \in BOOLEAN /\ UNCHANGED <<mode, copied, roll>>
          /\ UNCHANGED <<st, ctx, target, flash, meta, resp, faults>>
      BY <1>4 DEF PowerFailSave, vars
    <2>2. MetaNamed' /\ CommittedIntact'  BY <2>1, StillNamed, StoredTypes
    <2>3. Apart' /\ Promoting' /\ RunsWhatIsRecorded' /\ FlashOfFiles' /\ mode' \in Modes
      BY <2>1 DEF LoaderInv, Apart, Promoting, RunsWhatIsRecorded, FlashOfFiles, Modes
    <2>4. QED  BY <2>1, <2>2, <2>3, StoredTypes, OutsideStep
  <1>5. QED  BY <1>1, <1>2, <1>3, <1>4
-----------------------------------------------------------------------------
LEMMA LoaderInitInv ==
    ASSUME LoaderInit
    PROVE  LoaderInv
  <1>1. FsmInv  BY InitInv DEF LoaderInit
  <1>2. /\ st = "IDLE" /\ ~ctx.reset /\ flash = FirstImage /\ meta \in FirstMeta
        /\ mode = "decide" /\ copied = 0 /\ roll = Roll0 /\ ~sick
        /\ sick \in BOOLEAN /\ single \in BOOLEAN
    BY LoaderAssumption DEF LoaderInit, Init, Fresh
  <1>3. LoaderTypes
    BY <1>2, LoaderAssumption, SizesAssumption DEF LoaderTypes, Modes, Roll0
  <1>4. FlashOfFiles  BY <1>2, FirmwareAssumption DEF FlashOfFiles
  <1>5. MetaNamed /\ CommittedIntact
    BY <1>2, FirmwareAssumption DEF MetaNamed, CommittedIntact, Holds
  <1>6. Announced /\ Apart /\ Finished /\ Promoting /\ RunsWhatIsRecorded
    BY <1>2 DEF Announced, Apart, Finished, Promoting, RunsWhatIsRecorded
  <1>7. QED  BY <1>1, <1>3, <1>4, <1>5, <1>6 DEF LoaderInv

LEMMA LoaderNextInv ==
    ASSUME LoaderInv, [LoaderNext]_loaderVars
    PROVE  LoaderInv'
  <1>1. CASE UNCHANGED single /\ \E m \in Messages : Receive(m)  BY <1>1, HostStep, Zenon
  <1>2. CASE UNCHANGED single /\ AppRequest  BY <1>2, RequestStep
  <1>3. CASE UNCHANGED single
             /\ (PowerFail \/ PowerFailErase \/ PowerFailProgram \/ PowerFailSave)
    BY <1>3, PowerStep
  <1>4. CASE UNCHANGED single /\ Decide  BY <1>4, DecideStep
  <1>5. CASE UNCHANGED single /\ PromoteErase  BY <1>5, EraseStep
  <1>6. CASE UNCHANGED single /\ PromoteCopy  BY <1>6, CopyStep
  <1>7. CASE UNCHANGED single /\ PromoteRecord  BY <1>7, RecordStep
  <1>8. CASE UNCHANGED single /\ EnterBoot  BY <1>8, EnterStep
  <1>9. CASE UNCHANGED single /\ Callback  BY <1>9, CallbackStep
  <1>10. CASE UNCHANGED loaderVars
    BY <1>10 DEF loaderVars, vars, LoaderInv, FsmInv, TypeOK, AheadBlank, SessionSettled,
        FlashSum, Received, LoaderTypes, FlashOfFiles, MetaNamed, Announced, Apart,
        Finished, Promoting, RunsWhatIsRecorded, CommittedIntact, Holds, Names, Begins
  <1>11. QED
    BY <1>1, <1>2, <1>3, <1>4, <1>5, <1>6, <1>7, <1>8, <1>9, <1>10, Zenon
       DEF LoaderNext, SystemNext

(* The board's invariant holds for partitions and files of every size and  *)
(* any number of failures.                                                 *)
THEOREM LoaderInvariant == LoaderSpec => []LoaderInv
  BY LoaderInitInv, LoaderNextInv, PTL DEF LoaderSpec

(* The state of the board keeps its types: a promotion never copies beyond *)
(* the partition, and there is no session outside the bootloader.          *)
THEOREM LoaderTypesKept == LoaderSpec => []LoaderTypeOK
  <1>1. LoaderInv => LoaderTypeOK
    BY DEF LoaderInv, FsmInv, LoaderTypes, LoaderTypeOK
  <1>2. QED  BY <1>1, LoaderInvariant, PTL

(* No order of sessions, cancels, timeouts, flash failures and power       *)
(* failures makes the board jump into half a firmware or one that its      *)
(* metadata do not name.                                                   *)
THEOREM RunsWhole == LoaderSpec => []RunsWhatIsRecorded
  <1>1. LoaderInv => RunsWhatIsRecorded  BY DEF LoaderInv
  <1>2. QED  BY <1>1, LoaderInvariant, PTL

(* With two partitions the recorded firmware stays whole until another one *)
(* is recorded.                                                            *)
THEOREM CommittedStaysWhole == LoaderSpec => []CommittedIntact
  <1>1. LoaderInv => CommittedIntact  BY DEF LoaderInv
  <1>2. QED  BY <1>1, LoaderInvariant, PTL

=============================================================================
