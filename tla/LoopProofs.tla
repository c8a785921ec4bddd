----------------------------- MODULE LoopProofs -----------------------------
(***************************************************************************)
(* What the main loop of the boards runs on loses nothing: the frames of   *)
(* the RS485 driver, the lines of the flash log, the bytes of the receiver *)
(* and the software timers, for any sizes, bounds, timers and widths of    *)
(* the indices and of the clock, and interrupts that come at any point.    *)
(*                                                                         *)
(* The sender.  FramesKept speaks of the frames only; what carries it from *)
(* one step of the main loop to the next is what still holds of DE and of  *)
(* the transfer when the interrupt has come in between: DriveKept.         *)
(*                                                                         *)
(* The log and the receiver.  Their indices run round a ring, so the       *)
(* invariants name the places without the wrap: records in the queue by    *)
(* their number (Queue), bytes by how many the line has carried (InKept,   *)
(* OutKept), and division says which place of the ring that is.            *)
(*                                                                         *)
(* The timers.  A timer that is being called back is in no list while the  *)
(* callback may stop or start any timer: Kept says what the lists hold     *)
(* apart from the timers that are away.                                    *)
(***************************************************************************)
EXTENDS MCMainLoop, Integers, FiniteSetTheorems, SequenceTheorems, WellFoundedInduction, TLAPS

-----------------------------------------------------------------------------
(* A frame that has been made is one that was requested.                   *)
MadeIsFrame == at \in {"check", "push"} => made \in Frames

(* A send that met no transfer finds DE as it left it, since no transfer   *)
(* can end that has not begun; so does a flush, and its queue is not empty.*)
DriveKept ==
    /\ at = "check" /\ made \notin joined => de /\ dma = None
    /\ at = "flush" => de /\ dma = None /\ queue # <<>>

SendInv == SendTypeOK /\ FramesKept /\ MadeIsFrame /\ DriveKept

-----------------------------------------------------------------------------
(* How started \o queue stays what was accepted.                           *)
LEMMA PassedOn ==
    ASSUME NEW S, NEW s \in Seq(S), NEW q \in Seq(S), q # <<>>
    PROVE  Append(s, Head(q)) \o Tail(q) = s \o q
<1>1. /\ Head(q) \in S /\ Tail(q) \in Seq(S)
      /\ Append(s, Head(q)) \in Seq(S)
  BY HeadTailProperties, AppendProperties
<1>2. Len(Append(s, Head(q)) \o Tail(q)) = Len(s \o q)
  BY <1>1, ConcatProperties, AppendProperties, HeadTailProperties
<1>3. \A i \in 1 .. Len(s \o q) :
        (Append(s, Head(q)) \o Tail(q))[i] = (s \o q)[i]
  BY <1>1, <1>2, ConcatProperties, AppendProperties, HeadTailProperties
<1> QED
  BY <1>1, <1>2, <1>3, ConcatProperties, SeqEqual

(* Nothing is queued.                                                      *)
LEMMA QueueEmpty ==
    ASSUME NEW S, NEW s \in Seq(S)
    PROVE  s \o <<>> = s
BY ConcatEmptySeq

-----------------------------------------------------------------------------
(* What a transfer does to the frames, whoever starts it.                  *)
LEMMA TransferTypes ==
    ASSUME SendTypeOK, NEW f \in Frames, Transfer(f)
    PROVE  /\ dma' \in Frames /\ buffer' = dma' /\ started' \in Seq(Frames)
           /\ cut' \subseteq Frames
           /\ de => cut' = cut
           /\ cut' \subseteq cut \cup {f}
BY AppendProperties DEF SendTypeOK, Transfer

(* None is not a frame.                                                    *)
LEMMA NoneIsNoFrame == None \notin Frames
BY DEF None, Frames

-----------------------------------------------------------------------------
(* The steps of the sender and its interrupts keep the invariant.          *)
LEMMA SendInitInv == SendInit => SendInv
<1> SUFFICES ASSUME SendInit PROVE SendInv
  OBVIOUS
<1>1. <<>> \in Seq(Frames) /\ Len(<<>>) = 0 /\ <<>> \o <<>> = <<>>
  BY EmptySeq, ConcatEmptySeq
<1>2. SendTypeOK
  <2>1. heard \in 0 .. MaxFrames /\ made \in 0 .. heard /\ Len(queue) <= Depth
    BY <1>1, SendAssumption DEF SendInit
  <2>2. at \in Places /\ {de, busy} \subseteq BOOLEAN
          /\ {dma, buffer} \subseteq Frames \cup {None}
    BY DEF SendInit, Places
  <2> QED BY <1>1, <2>1, <2>2 DEF SendInit, SendTypeOK
<1>3. FramesKept
  BY <1>1 DEF SendInit, FramesKept, NothingLost, CutOnlyWhenJoined
<1>4. MadeIsFrame /\ DriveKept
  BY DEF SendInit, MadeIsFrame, DriveKept
<1> QED BY <1>2, <1>3, <1>4 DEF SendInv

LEMMA HearInv == SendInv /\ Hear => SendInv'
<1> SUFFICES ASSUME SendInv, Hear PROVE SendInv'
  OBVIOUS
<1>1. heard' \in 0 .. MaxFrames /\ made \in 0 .. heard'
  BY SendAssumption DEF SendInv, SendTypeOK, Hear
<1>2. SendTypeOK'
  BY <1>1 DEF SendInv, SendTypeOK, Hear, uart, history
<1>3. FramesKept' /\ MadeIsFrame' /\ DriveKept'
  BY DEF SendInv, Hear, uart, history, FramesKept, NothingLost, CutOnlyWhenJoined,
         MadeIsFrame, DriveKept
<1> QED BY <1>2, <1>3 DEF SendInv

LEMMA SendHighInv == SendInv /\ SendHigh => SendInv'
<1> SUFFICES ASSUME SendInv, SendHigh PROVE SendInv'
  OBVIOUS
<1>1. made' \in Frames /\ made' <= heard
  BY SendAssumption DEF SendInv, SendTypeOK, SendHigh, Frames
<1>2. SendTypeOK'
  BY <1>1 DEF SendInv, SendTypeOK, SendHigh, Frames, Places
<1>3. FramesKept'
  BY DEF SendInv, SendHigh, FramesKept, NothingLost, CutOnlyWhenJoined
<1>4. MadeIsFrame' /\ DriveKept'
  BY <1>1 DEF SendHigh, MadeIsFrame, DriveKept
<1> QED BY <1>2, <1>3, <1>4 DEF SendInv

LEMMA CheckInv == SendInv /\ Check => SendInv'
<1> SUFFICES ASSUME SendInv, Check PROVE SendInv'
  OBVIOUS
<1>1. made \in Frames /\ UNCHANGED <<heard, made, de, busy, queue, joined>>
  BY DEF SendInv, MadeIsFrame, Check
<1>2. CASE ~TxBusy /\ queue = <<>>
  <2>1. at' = "mark" /\ Transfer(made) /\ accepted' = Append(accepted, made)
    BY <1>2 DEF Check
  <2>2. accepted = started /\ accepted \in Seq(Frames)
    BY <1>2, QueueEmpty DEF SendInv, SendTypeOK, FramesKept, NothingLost
  <2>3. started' = accepted' /\ accepted' \in Seq(Frames) /\ accepted' \o <<>> = accepted'
    BY <1>1, <2>1, <2>2, AppendProperties, QueueEmpty DEF Transfer
  <2>4. SendTypeOK'
    BY <1>1, <2>1, <2>3, TransferTypes DEF SendInv, SendTypeOK, Places
  <2>5. NothingLost'
    BY <1>1, <1>2, <2>1, <2>3 DEF NothingLost, Transfer
  <2>6. CutOnlyWhenJoined'
    BY <1>1, <2>1, TransferTypes DEF SendInv, Check, FramesKept, CutOnlyWhenJoined, DriveKept
  <2> QED BY <2>1, <2>4, <2>5, <2>6 DEF SendInv, FramesKept, MadeIsFrame, DriveKept
<1>3. CASE ~(~TxBusy /\ queue = <<>>)
  BY <1>1, <1>3 DEF Check, SendInv, SendTypeOK, FramesKept, NothingLost, CutOnlyWhenJoined,
                    MadeIsFrame, DriveKept, Places
<1> QED BY <1>2, <1>3

LEMMA MarkInv == SendInv /\ Mark => SendInv'
BY DEF SendInv, Mark, history, SendTypeOK, FramesKept, NothingLost, CutOnlyWhenJoined,
       MadeIsFrame, DriveKept, Places

LEMMA PushInv == SendInv /\ Push => SendInv'
<1> SUFFICES ASSUME SendInv, Push PROVE SendInv'
  OBVIOUS
<1>1. made \in Frames
        /\ UNCHANGED <<heard, made, de, busy, dma, buffer, started, cut, joined>>
  BY DEF SendInv, MadeIsFrame, Push
<1>2. CASE Len(queue) < Depth
  <2>1. queue' = Append(queue, made) /\ accepted' = Append(accepted, made)
    BY <1>2 DEF Push
  <2>2. {queue, accepted, started} \subseteq Seq(Frames) /\ accepted = started \o queue
    BY DEF SendInv, SendTypeOK, FramesKept, NothingLost
  <2>3. /\ queue' \in Seq(Frames) /\ accepted' \in Seq(Frames)
        /\ Len(queue') = Len(queue) + 1
    BY <1>1, <2>1, <2>2, AppendProperties
  <2>4. Len(queue') <= Depth
    <3>1. queue \in Seq(Frames)
      BY <2>2
    <3>2. Len(queue) \in Nat
      BY <3>1, LenProperties
    <3> QED BY <1>2, <2>3, <3>2, SendAssumption
  <2>5. accepted' = started \o queue'
    <3>1. queue \in Seq(Frames) /\ started \in Seq(Frames) /\ <<made>> \in Seq(Frames)
      BY <1>1, <2>2
    <3>2. queue' = queue \o <<made>>
      BY <1>1, <2>1, <3>1, AppendIsConcat
    <3>3. accepted' = accepted \o <<made>>
      BY <1>1, <2>1, <2>2, AppendIsConcat
    <3>4. (started \o queue) \o <<made>> = started \o (queue \o <<made>>)
      BY <3>1, ConcatAssociative
    <3>5. started' = started
      BY <1>1
    <3> QED BY <2>2, <3>2, <3>3, <3>4, <3>5
  <2> QED
    BY <1>1, <2>3, <2>4, <2>5
       DEF Push, SendInv, SendTypeOK, FramesKept, NothingLost, CutOnlyWhenJoined,
           MadeIsFrame, DriveKept, Places
<1>3. CASE ~(Len(queue) < Depth)
  BY <1>1, <1>3 DEF Push, SendInv, SendTypeOK, FramesKept, NothingLost, CutOnlyWhenJoined,
                    MadeIsFrame, DriveKept, Places
<1> QED BY <1>2, <1>3

LEMMA FlushInv == SendInv /\ Flush => SendInv'
BY DEF SendInv, Flush, FlushWaits, TxBusy, history, SendTypeOK, FramesKept, NothingLost,
       CutOnlyWhenJoined, MadeIsFrame, DriveKept, Places

LEMMA FlushStartInv == SendInv /\ FlushStart => SendInv'
<1> SUFFICES ASSUME SendInv, FlushStart PROVE SendInv'
  OBVIOUS
<1>1. /\ queue # <<>> /\ de /\ at' = "markFlush" /\ Transfer(Head(queue))
      /\ queue' = Tail(queue)
      /\ UNCHANGED <<heard, made, de, busy, accepted, joined>>
  BY DEF SendInv, DriveKept, FlushStart
<1>2. Head(queue) \in Frames /\ queue' \in Seq(Frames) /\ Len(queue') <= Depth
  BY <1>1, HeadTailProperties, LenProperties, SendAssumption DEF SendInv, SendTypeOK
<1>3. started' \o queue' = accepted'
  BY <1>1, PassedOn DEF SendInv, SendTypeOK, FramesKept, NothingLost, Transfer
<1>4. SendTypeOK'
  BY <1>1, <1>2, TransferTypes DEF SendInv, SendTypeOK, Places
<1>5. FramesKept'
  BY <1>1, <1>2, <1>3, TransferTypes
     DEF SendInv, FramesKept, NothingLost, CutOnlyWhenJoined
<1> QED BY <1>1, <1>4, <1>5 DEF SendInv, MadeIsFrame, DriveKept

LEMMA RecheckInv == SendInv /\ Recheck => SendInv'
BY DEF SendInv, Recheck, history, SendTypeOK, FramesKept, NothingLost, CutOnlyWhenJoined,
       MadeIsFrame, DriveKept, Places

LEMMA CompleteInv == SendInv /\ Complete => SendInv'
BY DEF SendInv, Complete, history, SendTypeOK, FramesKept, NothingLost, CutOnlyWhenJoined,
       MadeIsFrame, DriveKept, None

LEMMA ReceiveErrorInv == SendInv /\ ReceiveError => SendInv'
BY DEF SendInv, ReceiveError, history, SendTypeOK, FramesKept, NothingLost,
       CutOnlyWhenJoined, MadeIsFrame, DriveKept

(* So every step does.                                                     *)
LEMMA SendNextInv == SendInv /\ [SendNext]_sendVars => SendInv'
<1>1. SendInv /\ UNCHANGED sendVars => SendInv'
  BY DEF sendVars, uart, history, SendInv, SendTypeOK, FramesKept, NothingLost,
         CutOnlyWhenJoined, MadeIsFrame, DriveKept
<1> QED
  BY <1>1, HearInv, SendHighInv, CheckInv, MarkInv, PushInv, FlushInv, FlushStartInv,
     RecheckInv, CompleteInv, ReceiveErrorInv DEF SendNext, MainLoop

(* Every accepted frame is transferred once and in the order of the calls, *)
(* its buffer stays as it is meanwhile, and it goes out with DE low only   *)
(* when its send met an earlier transfer.                                  *)
THEOREM SendKeepsFrames == SendSpec => []FramesKept
<1>1. SendInv => FramesKept
  BY DEF SendInv
<1> QED BY SendInitInv, SendNextInv, <1>1, PTL DEF SendSpec

-----------------------------------------------------------------------------
(* Division, for the rings: any divisor.                                   *)
LEMMA Divided ==
    ASSUME NEW x \in Int, NEW d \in Nat \ {0}
    PROVE  x \div d \in Int /\ x % d \in 0 .. d - 1 /\ x = d * (x \div d) + (x % d)
OBVIOUS

(* The division that has this remainder is the one.                        *)
LEMMA Divides ==
    ASSUME NEW d \in Nat \ {0}, NEW q \in Int, NEW r \in 0 .. d - 1
    PROVE  (d * q + r) % d = r /\ (d * q + r) \div d = q
OBVIOUS

(* Multiples of a divisor.                                                 *)
LEMMA Multiples ==
    ASSUME NEW d \in Nat \ {0}, NEW a \in Int, NEW b \in Int
    PROVE  /\ d * a \in Int /\ d * (a + b) = d * a + d * b /\ d * (a - b) = d * a - d * b
           /\ d * 1 = d /\ (a \in Nat => d * a \in Nat)
           /\ a > b => d * a >= d * b + d
           /\ d * a > d * b => a > b
OBVIOUS

(* How far a place of a ring is behind another one, or before it.          *)
LEMMA Ahead ==
    ASSUME NEW a \in Nat, NEW b \in Nat, NEW d \in Nat \ {0}, a >= b, a < b + d
    PROVE  ((a % d) + d - (b % d)) % d = a - b
<1> DEFINE p == a \div d
           q == b \div d
           x == a % d
           y == b % d
           c == q - p + 1
<1>1. /\ p \in Int /\ q \in Int /\ x \in 0 .. d - 1 /\ y \in 0 .. d - 1
      /\ a = d * p + x /\ b = d * q + y
  BY Divided
<1> HIDE DEF p, q, x, y
<1>2. c \in Int /\ d * c = d * q - d * p + d
  BY <1>1
<1>3. x + d - y = d * c + (a - b)
  BY <1>1, <1>2
<1>4. a - b \in 0 .. d - 1
  OBVIOUS
<1> HIDE DEF c
<1>5. (x + d - y) % d = a - b
  BY <1>2, <1>3, <1>4, Divides
<1> QED BY <1>5 DEF x, y

(* The same the other way round.                                           *)
LEMMA Before ==
    ASSUME NEW a \in Nat, NEW b \in Nat, NEW d \in Nat \ {0}, a < b, b < a + d
    PROVE  ((a % d) + d - (b % d)) % d = a + d - b
<1> DEFINE p == a \div d
           q == b \div d
           x == a % d
           y == b % d
           c == q - p
<1>1. /\ p \in Int /\ q \in Int /\ x \in 0 .. d - 1 /\ y \in 0 .. d - 1
      /\ a = d * p + x /\ b = d * q + y
  BY Divided
<1> HIDE DEF p, q, x, y
<1>2. c \in Int /\ d * c = d * q - d * p
  BY <1>1
<1>3. x + d - y = d * c + (a + d - b)
  BY <1>1, <1>2
<1>4. a + d - b \in 0 .. d - 1
  OBVIOUS
<1> HIDE DEF c
<1>5. (x + d - y) % d = a + d - b
  BY <1>2, <1>3, <1>4, Divides
<1> QED BY <1>5 DEF x, y

-----------------------------------------------------------------------------
Units == Nat \X Nat
UnitsOf(n) == {Blank} \cup ((1 .. n) \X (1 .. RecordSize))
(* The line that is queued and not yet shown.                              *)
Behind == IF doing = "put" /\ put.len = RecordSize THEN 1 ELSE 0
Amounts == 0 .. RecordSize

LogTypes ==
    /\ pendingBuf \in [0 .. QueueSize - 1 -> UnitsOf(lines)]
    /\ pendingIn \in Nat /\ pendingOut \in Nat /\ pendingOut <= pendingIn
    /\ lines \in 0 .. MaxLines /\ doing \in {"idle", "put", "save"}
    /\ due \in BOOLEAN /\ short \in BOOLEAN /\ nested \in BOOLEAN
    /\ put \in [len : Amounts, from : Nat]
    /\ doing = "put" => pendingOut <= put.from /\ put.from <= pendingIn
    /\ doing = "save" => pendingIn - pendingOut >= RecordSize
    /\ logged \in Seq(Nat) /\ record \in Seq(Units) /\ saved \in Seq(Seq(Units))

(* The records in the queue, from the head to the last that was copied in. *)
Place(k) == <<logged[1 + (k \div RecordSize)], 1 + (k % RecordSize)>>
Queue ==
    /\ RecordSize * Len(logged) - pendingOut <= QueueSize
    /\ \A k \in pendingOut .. RecordSize * Len(logged) - 1 : Unit(k) = Place(k)
Flashed == \A n \in 1 .. Len(saved) : saved[n] = Record(logged[n])
Accepted ==
    /\ doing = "put" => put.from = pendingIn /\ put.len \in {0, RecordSize}
    /\ Len(saved) + Behind <= Len(logged)
    /\ pendingIn = RecordSize * (Len(logged) - Behind)
    /\ pendingOut = RecordSize * Len(saved)
    /\ Queue /\ Flashed
    /\ doing = "save" => record = Record(logged[Len(saved) + 1])

LogInv == LogTypes /\ (~short /\ ~nested => Accepted)

-----------------------------------------------------------------------------
(* The sizes of the log.                                                   *)
LEMMA LogSizes ==
    /\ RecordSize \in Nat \ {0} /\ QueueSize \in Nat \ {0} /\ MaxLines \in Nat
    /\ QueueSize >= RecordSize /\ 0 \in Amounts /\ RecordSize \in Amounts
    /\ 0 .. QueueSize - 1 # {}
BY LogAssumption DEF Amounts

(* Units of lines.                                                         *)
LEMMA UnitTypes ==
    ASSUME NEW n \in Nat
    PROVE  UnitsOf(n) \subseteq Units /\ UnitsOf(n) \subseteq UnitsOf(n + 1)
<1>1. 1 .. n \subseteq Nat /\ 1 .. RecordSize \subseteq Nat /\ 1 .. n \subseteq 1 .. n + 1
  BY LogSizes
<1> QED BY <1>1 DEF UnitsOf, Units, Blank

(* What fits into the queue.                                               *)
LEMMA FittingRange ==
    ASSUME LogTypes
    PROVE  /\ Fitting \in Amounts
           /\ Waiting <= QueueSize => Waiting + Fitting <= QueueSize
           /\ Waiting \in Nat /\ Waiting = pendingIn - pendingOut
<1>1. Waiting \in Nat /\ Waiting = pendingIn - pendingOut
  BY DEF LogTypes, Waiting
<1>2. CASE Waiting > QueueSize
  BY <1>1, <1>2, LogSizes DEF Fitting
<1>3. CASE Waiting + RecordSize <= QueueSize
  BY <1>1, <1>3, LogSizes DEF Fitting
<1>4. CASE ~(Waiting > QueueSize) /\ ~(Waiting + RecordSize <= QueueSize)
  <2>1. Fitting = QueueSize - Waiting
    BY <1>4 DEF Fitting
  <2> QED BY <1>1, <1>4, <2>1, LogSizes DEF Amounts
<1> QED BY <1>1, <1>2, <1>3, <1>4

(* A line that is copied in.                                               *)
LEMMA CopyTypes ==
    ASSUME LogTypes, NEW len \in Amounts, Copy(len)
    PROVE  /\ lines' \in 0 .. MaxLines /\ lines' = lines + 1
           /\ pendingBuf' \in [0 .. QueueSize - 1 -> UnitsOf(lines')]
           /\ \A k \in 0 .. QueueSize - 1 :
                pendingBuf'[k] = IF Offset(k) <= len THEN <<lines', Offset(k)>> ELSE pendingBuf[k]
<1>1. lines \in Nat /\ lines' \in 0 .. MaxLines /\ lines' = lines + 1 /\ lines' \in 1 .. lines'
  BY LogSizes DEF Copy, LogTypes
<1>2. pendingBuf' = [k \in 0 .. QueueSize - 1 |->
                       IF Offset(k) <= len THEN <<lines', Offset(k)>> ELSE pendingBuf[k]]
  BY DEF Copy, LogTypes
<1>3. \A k \in 0 .. QueueSize - 1 :
        (IF Offset(k) <= len THEN <<lines', Offset(k)>> ELSE pendingBuf[k]) \in UnitsOf(lines')
  <2> TAKE k \in 0 .. QueueSize - 1
  <2>1. CASE Offset(k) <= len
    <3> DEFINE x == k + QueueSize - (pendingIn % QueueSize)
    <3>1. pendingIn % QueueSize \in 0 .. QueueSize - 1
      <4>1. pendingIn \in Int /\ QueueSize \in Nat \ {0}
        BY LogSizes DEF LogTypes
      <4> QED BY <4>1, Divided
    <3>2. x \in Int
      BY <3>1, LogSizes
    <3> HIDE DEF x
    <3>3. x % QueueSize \in 0 .. QueueSize - 1
      BY <3>2, LogSizes, Divided
    <3>4. Offset(k) = 1 + (x % QueueSize)
      BY DEF Offset, x
    <3>5. Offset(k) \in 1 .. RecordSize
      BY <2>1, <3>3, <3>4, LogSizes DEF Amounts
    <3> QED BY <1>1, <2>1, <3>5 DEF UnitsOf
  <2>2. CASE ~(Offset(k) <= len)
    <3>1. pendingBuf[k] \in UnitsOf(lines)
      BY DEF LogTypes
    <3> QED BY <1>1, <2>2, <3>1, UnitTypes
  <2> QED BY <2>1, <2>2
<1> QED BY <1>1, <1>2, <1>3

(* Where it goes: behind the queue's content, which stays.                 *)
LEMMA CopyPlaces ==
    ASSUME LogTypes, NEW len \in Amounts, Copy(len), Waiting + len <= QueueSize,
           NEW a \in pendingOut .. pendingIn + len - 1
    PROVE  Unit(a)' = IF a >= pendingIn THEN <<lines', 1 + (a - pendingIn)>> ELSE Unit(a)
<1>1. /\ pendingIn \in Nat /\ pendingOut \in Nat /\ a \in Nat /\ QueueSize \in Nat \ {0}
      /\ len \in Nat /\ Waiting = pendingIn - pendingOut /\ pendingOut <= pendingIn
  BY LogSizes, FittingRange DEF LogTypes, Amounts
<1>2. a % QueueSize \in 0 .. QueueSize - 1
  BY <1>1, Divided
<1>3. Unit(a)' = IF Offset(a % QueueSize) <= len
                 THEN <<lines', Offset(a % QueueSize)>> ELSE Unit(a)
  BY <1>2, CopyTypes DEF Unit
<1>4. CASE a >= pendingIn
  <2>1. a < pendingIn + QueueSize
    BY <1>1
  <2>2. ((a % QueueSize) + QueueSize - (pendingIn % QueueSize)) % QueueSize = a - pendingIn
    BY <1>1, <1>4, <2>1, Ahead
  <2>3. Offset(a % QueueSize) = 1 + (a - pendingIn) /\ 1 + (a - pendingIn) <= len
    BY <1>1, <2>2 DEF Offset
  <2> QED BY <1>3, <1>4, <2>3
<1>5. CASE a < pendingIn
  <2>1. pendingIn <= a + QueueSize
    BY <1>1
  <2>2. ~(Offset(a % QueueSize) <= len)
    <3>1. CASE pendingIn = a + QueueSize
      <4>1. len = 0
        BY <1>1, <3>1
      <4> DEFINE x == (a % QueueSize) + QueueSize - (pendingIn % QueueSize)
      <4>2. x \in Int
        <5>1. pendingIn % QueueSize \in 0 .. QueueSize - 1
          BY <1>1, Divided
        <5> QED BY <1>1, <1>2, <5>1
      <4> HIDE DEF x
      <4>3. x % QueueSize \in 0 .. QueueSize - 1
        BY <1>1, <4>2, Divided
      <4>4. Offset(a % QueueSize) = 1 + (x % QueueSize)
        BY DEF Offset, x
      <4> QED BY <1>1, <4>1, <4>3, <4>4
    <3>2. CASE pendingIn < a + QueueSize
      <4>1. ((a % QueueSize) + QueueSize - (pendingIn % QueueSize)) % QueueSize
              = a + QueueSize - pendingIn
        BY <1>1, <1>5, <3>2, Before
      <4>2. Offset(a % QueueSize) = 1 + (a + QueueSize - pendingIn)
        BY <4>1 DEF Offset
      <4> QED BY <1>1, <4>2
    <3> QED BY <1>1, <2>1, <3>1, <3>2
  <2> QED BY <1>1, <1>3, <1>5, <2>2
<1> QED BY <1>1, <1>4, <1>5

-----------------------------------------------------------------------------
(* What putting a line leaves, of the main loop or of an interrupt.        *)
LEMMA PutTypes ==
    ASSUME LogTypes, Copy(Fitting), Queued(Fitting)
    PROVE  /\ lines' \in 0 .. MaxLines
           /\ pendingBuf' \in [0 .. QueueSize - 1 -> UnitsOf(lines')]
           /\ logged' \in Seq(Nat) /\ short' \in BOOLEAN
           /\ Fitting \in Amounts /\ pendingIn + Fitting \in Nat
           /\ pendingOut <= pendingIn + Fitting
           /\ ~short' => ~short
<1>1. /\ Fitting \in Amounts /\ Fitting \in Nat
      /\ pendingIn \in Nat /\ pendingOut \in Nat /\ pendingOut <= pendingIn
  BY FittingRange, LogSizes DEF LogTypes, Amounts
<1>2. /\ lines' \in 0 .. MaxLines /\ lines' \in Nat
      /\ pendingBuf' \in [0 .. QueueSize - 1 -> UnitsOf(lines')]
  BY <1>1, CopyTypes
<1>3. logged' \in Seq(Nat)
  BY <1>2, AppendProperties DEF Queued, LogTypes
<1>4. short' \in BOOLEAN /\ (~short' => ~short)
  BY DEF Queued, LogTypes
<1> QED BY <1>1, <1>2, <1>3, <1>4

(* The queue and the accepted lines before a line is put and after.        *)
Lengthened ==
    /\ Fitting \in {0, RecordSize}
    /\ RecordSize * Len(logged') = pendingIn + Fitting
    /\ Len(logged') = Len(logged) + (IF Fitting = RecordSize THEN 1 ELSE 0)
    /\ pendingIn = RecordSize * Len(logged)
    /\ RecordSize * Len(logged') - pendingOut <= QueueSize
    /\ \A k \in pendingOut .. RecordSize * Len(logged') - 1 : Unit(k)' = Place(k)'
    /\ \A n \in 1 .. Len(logged) : n \in 1 .. Len(logged') /\ logged'[n] = logged[n]

(* A kfifo_put that is not short keeps the queue.                          *)
LEMMA PutKeeps ==
    ASSUME LogTypes, Copy(Fitting), Queued(Fitting), ~short', Accepted, doing # "put",
           pendingOut' = pendingOut
    PROVE  Lengthened
<1> DEFINE n == Len(logged)
           N == Len(logged')
<1>1. /\ RecordSize \in Nat \ {0} /\ QueueSize \in Nat \ {0} /\ n \in Nat
      /\ pendingIn \in Nat /\ pendingOut \in Nat /\ pendingOut <= pendingIn
      /\ Fitting \in Amounts /\ Fitting \in 0 .. RecordSize
      /\ Waiting = pendingIn - pendingOut /\ lines \in Nat
  <2>1. n \in Nat
    BY LenProperties DEF LogTypes
  <2> QED BY <2>1, LogSizes, FittingRange DEF LogTypes, Amounts
<1>2. Fitting \in {0, RecordSize}
  <2>1. ~(Fitting \in 1 .. RecordSize - 1)
    BY Zenon DEF Queued
  <2> QED BY <1>1, <2>1
<1>3. /\ pendingIn = RecordSize * n /\ pendingIn - pendingOut <= QueueSize
      /\ \A k \in pendingOut .. pendingIn - 1 : Unit(k) = Place(k)
  <2>1. Behind = 0 /\ n - 0 = n
    BY <1>1 DEF Behind
  <2> QED BY <2>1 DEF Accepted, Queue
<1>4. Waiting + Fitting <= QueueSize
  BY <1>1, <1>3, FittingRange
<1>5. logged' = IF Fitting = RecordSize THEN Append(logged, lines') ELSE logged
  BY DEF Queued
<1>6. lines' = lines + 1 /\ lines' \in Nat
  BY <1>1, CopyTypes
<1>7. /\ N = n + (IF Fitting = RecordSize THEN 1 ELSE 0)
      /\ \A i \in 1 .. n : i \in 1 .. N /\ logged'[i] = logged[i]
      /\ Fitting = RecordSize => logged'[n + 1] = lines'
  <2>1. CASE Fitting = RecordSize
    BY <1>1, <1>5, <1>6, <2>1, AppendProperties DEF LogTypes
  <2>2. CASE Fitting # RecordSize
    BY <1>1, <1>5, <2>2
  <2> QED BY <2>1, <2>2
<1> HIDE DEF n, N
<1>8. RecordSize * N = pendingIn + Fitting
  <2>1. CASE Fitting = RecordSize
    <3>1. N = n + 1
      BY <1>7, <2>1
    <3>2. RecordSize * (n + 1) = RecordSize * n + RecordSize * 1 /\ RecordSize * 1 = RecordSize
      BY <1>1, Multiples
    <3> QED BY <1>1, <1>3, <2>1, <3>1, <3>2
  <2>2. CASE Fitting # RecordSize
    <3>1. N = n /\ Fitting = 0
      BY <1>1, <1>2, <1>7, <2>2
    <3> QED BY <1>1, <1>3, <3>1
  <2> QED BY <2>1, <2>2
<1>9. \A k \in pendingOut .. pendingIn + Fitting - 1 : Unit(k)' = Place(k)'
  <2> TAKE k \in pendingOut .. pendingIn + Fitting - 1
  <2>1. Unit(k)' = IF k >= pendingIn THEN <<lines', 1 + (k - pendingIn)>> ELSE Unit(k)
    BY <1>1, <1>4, CopyPlaces
  <2>2. k \in Int /\ k \in Nat
    BY <1>1
  <2>3. CASE k >= pendingIn
    <3>1. k - pendingIn \in 0 .. RecordSize - 1 /\ Fitting = RecordSize
      BY <1>1, <1>2, <2>2, <2>3
    <3>2. k = RecordSize * n + (k - pendingIn)
      BY <1>1, <1>3, <2>2
    <3>3. k % RecordSize = k - pendingIn /\ k \div RecordSize = n
      BY <1>1, <3>1, <3>2, Divides
    <3>4. logged'[1 + n] = lines'
      BY <1>1, <1>7, <3>1
    <3> QED BY <2>1, <2>3, <3>3, <3>4 DEF Place
  <2>4. CASE k < pendingIn
    <3>1. Unit(k)' = Unit(k) /\ Unit(k) = Place(k)
      BY <1>1, <1>3, <2>1, <2>2, <2>4
    <3> DEFINE q == k \div RecordSize
               r == k % RecordSize
    <3>2. q \in Int /\ r \in 0 .. RecordSize - 1 /\ k = RecordSize * q + r
      BY <1>1, <2>2, Divided
    <3> HIDE DEF q, r
    <3>3. q \in Nat
      <4>1. ASSUME q < 0 PROVE FALSE
        <5>1. RecordSize * 0 >= RecordSize * q + RecordSize /\ RecordSize * 0 = 0
          BY <1>1, <3>2, <4>1, Multiples
        <5>2. RecordSize * q \in Int
          BY <1>1, <3>2, Multiples
        <5> QED BY <1>1, <2>2, <3>2, <5>1, <5>2
      <4> QED BY <3>2, <4>1
    <3>4. q < n
      <4>1. RecordSize * q \in Int
        BY <1>1, <3>2, Multiples
      <4>2. RecordSize * n > RecordSize * q
        BY <1>1, <1>3, <2>2, <2>4, <3>2, <4>1
      <4> QED BY <1>1, <3>2, <4>2, Multiples
    <3>5. 1 + q \in 1 .. n
      BY <1>1, <3>3, <3>4
    <3>6. logged'[1 + q] = logged[1 + q]
      BY <1>7, <3>5
    <3> QED BY <3>1, <3>6 DEF Place, q
  <2> QED BY <1>1, <2>2, <2>3, <2>4
<1>10. RecordSize * N - pendingOut <= QueueSize
  BY <1>1, <1>4, <1>8
<1>11. pendingOut .. RecordSize * N - 1 = pendingOut .. pendingIn + Fitting - 1
  <2>1. RecordSize * N - 1 = pendingIn + Fitting - 1
    BY <1>1, <1>8
  <2> QED BY <2>1
<1> QED BY <1>2, <1>3, <1>7, <1>8, <1>9, <1>10, <1>11 DEF Lengthened, n, N

(* What follows for the accepted lines, but for the main loop's own state. *)
LEMMA LengthenedKeeps ==
    ASSUME LogTypes, Accepted, doing # "put", Lengthened, UNCHANGED <<pendingOut, saved>>
    PROVE  /\ Len(saved) \in Nat /\ Len(logged) \in Nat /\ Len(saved) <= Len(logged)
           /\ Queue' /\ Flashed' /\ pendingOut' = RecordSize * Len(saved')
<1>1. Len(saved) \in Nat /\ Len(logged) \in Nat
  BY LenProperties DEF LogTypes
<1>2. Len(saved) <= Len(logged)
  BY <1>1 DEF Accepted, Behind
<1>3. Queue'
  BY DEF Lengthened, Queue
<1>4. \A n \in 1 .. Len(saved) : n \in 1 .. Len(logged) /\ saved[n] = Record(logged[n])
  BY <1>1, <1>2 DEF Accepted, Flashed
<1>5. Flashed'
  BY <1>4 DEF Flashed, Lengthened
<1> QED BY <1>1, <1>2, <1>3, <1>5 DEF Accepted

-----------------------------------------------------------------------------
(* The steps of the log keep its invariant.                                *)
LEMMA LogInitInv == LogInit => LogInv
<1> SUFFICES ASSUME LogInit PROVE LogInv
  OBVIOUS
<1>1. \A S : <<>> \in Seq(S)
  OBVIOUS
<1>2. Len(<<>>) = 0 /\ 1 .. Len(<<>>) = {}
  OBVIOUS
<1>3. /\ pendingIn = 0 /\ pendingOut = 0 /\ lines = 0 /\ doing = "idle" /\ put = NoPut
      /\ record = <<>> /\ due = TRUE /\ logged = <<>> /\ short = FALSE /\ nested = FALSE
      /\ saved = <<>>
      /\ pendingBuf = [k \in 0 .. QueueSize - 1 |-> Blank]
  BY DEF LogInit
<1>4. pendingBuf \in [0 .. QueueSize - 1 -> UnitsOf(lines)]
  BY <1>3 DEF UnitsOf
<1>5. put \in [len : Amounts, from : Nat]
  BY <1>3, LogSizes DEF NoPut
<1>6. lines \in 0 .. MaxLines
  BY <1>3, LogSizes
<1>7. due \in BOOLEAN /\ short \in BOOLEAN /\ nested \in BOOLEAN
  BY <1>3
<1>8. LogTypes
  BY <1>1, <1>3, <1>4, <1>5, <1>6, <1>7 DEF LogTypes
<1>9. RecordSize * 0 = 0 /\ QueueSize \in Nat /\ 0 .. 0 - 1 = {}
  BY LogSizes
<1>10. Behind = 0
  BY <1>3 DEF Behind
<1>11. Queue /\ Flashed
  BY <1>2, <1>3, <1>9 DEF Queue, Flashed
<1>12. Accepted
  BY <1>2, <1>3, <1>9, <1>10, <1>11 DEF Accepted
<1> QED BY <1>8, <1>12 DEF LogInv

(* A line is copied into the queue.                                        *)
LEMMA PutBeginInv ==
    ASSUME LogInv, doing # "put", PutBegin, UNCHANGED <<record, due>>
    PROVE  LogInv'
<1>1. /\ Copy(Fitting) /\ Queued(Fitting) /\ doing' = "put"
      /\ put' = [len |-> Fitting, from |-> pendingIn]
      /\ UNCHANGED <<pendingIn, pendingOut, nested, saved, record, due>>
      /\ LogTypes
  BY DEF PutBegin, LogInv
<1>2. /\ lines' \in 0 .. MaxLines
      /\ pendingBuf' \in [0 .. QueueSize - 1 -> UnitsOf(lines')]
      /\ logged' \in Seq(Nat) /\ short' \in BOOLEAN
      /\ Fitting \in Amounts /\ (~short' => ~short)
  BY <1>1, PutTypes
<1>3. put' \in [len : Amounts, from : Nat] /\ put'.from = pendingIn /\ put'.len = Fitting
  BY <1>1, <1>2 DEF LogTypes
<1>4. pendingOut <= pendingIn /\ pendingIn <= pendingIn
  BY <1>1 DEF LogTypes
<1>5. LogTypes'
  BY <1>1, <1>2, <1>3, <1>4 DEF LogTypes
<1>6. ASSUME ~short', ~nested' PROVE Accepted'
  <2>1. Accepted
    BY <1>1, <1>2, <1>6 DEF LogInv
  <2>2. Lengthened
    BY <1>1, <1>6, <2>1, PutKeeps
  <2>3. /\ Len(saved) \in Nat /\ Len(logged) \in Nat /\ Len(saved) <= Len(logged)
        /\ Queue' /\ Flashed' /\ pendingOut' = RecordSize * Len(saved')
    BY <1>1, <2>1, <2>2, LengthenedKeeps
  <2>4. Behind' = (IF Fitting = RecordSize THEN 1 ELSE 0)
    BY <1>1, <1>3 DEF Behind
  <2>5. Len(saved)' + Behind' <= Len(logged)' /\ Len(logged)' - Behind' = Len(logged)
    BY <1>1, <2>2, <2>3, <2>4 DEF Lengthened
  <2> QED BY <1>1, <1>3, <2>2, <2>3, <2>5 DEF Accepted, Lengthened
<1> QED BY <1>5, <1>6 DEF LogInv

(* The index moves.                                                        *)
LEMMA PutEndInv == LogInv /\ PutEnd => LogInv'
<1> SUFFICES ASSUME LogInv, PutEnd PROVE LogInv'
  OBVIOUS
<1>1. /\ doing = "put" /\ doing' = "idle" /\ put' = NoPut
      /\ pendingIn' \in {pendingIn + put.len, put.from + put.len}
      /\ UNCHANGED <<pendingBuf, pendingOut, lines, record, due, logged, short, nested, saved>>
      /\ LogTypes
  BY DEF PutEnd, log, LogInv
<1>2. /\ put.len \in Nat /\ put.from \in Nat /\ pendingIn \in Nat /\ pendingOut \in Nat
      /\ pendingOut <= put.from /\ put.from <= pendingIn
  BY <1>1, LogSizes DEF LogTypes, Amounts
<1>3. pendingIn' \in Nat /\ pendingOut <= pendingIn'
  BY <1>1, <1>2
<1>4. put' \in [len : Amounts, from : Nat]
  BY <1>1, LogSizes DEF NoPut
<1>5. LogTypes'
  BY <1>1, <1>3, <1>4 DEF LogTypes
<1>6. ASSUME ~short', ~nested' PROVE Accepted'
  <2>1. Accepted
    BY <1>1, <1>6 DEF LogInv
  <2>2. Behind' = 0 /\ Behind = IF put.len = RecordSize THEN 1 ELSE 0
    BY <1>1 DEF Behind
  <2>3. Len(saved) \in Nat /\ Len(logged) \in Nat /\ RecordSize \in Nat \ {0}
    BY <1>1, LenProperties, LogSizes DEF LogTypes
  <2>4. pendingIn' = RecordSize * Len(logged)
    <3>1. pendingIn' = pendingIn + put.len /\ put.len \in {0, RecordSize}
      BY <1>1, <2>1 DEF Accepted
    <3>2. pendingIn = RecordSize * (Len(logged) - Behind)
      BY <2>1 DEF Accepted
    <3>3. CASE put.len = RecordSize
      <4>1. Behind = 1
        BY <2>2, <3>3
      <4>2. RecordSize * (Len(logged) - 1) = RecordSize * Len(logged) - RecordSize * 1
            /\ RecordSize * 1 = RecordSize /\ RecordSize * Len(logged) \in Int
        BY <2>3, Multiples
      <4> QED BY <2>3, <3>1, <3>2, <3>3, <4>1, <4>2
    <3>4. CASE put.len # RecordSize
      <4>1. Behind = 0 /\ put.len = 0
        BY <2>2, <3>1, <3>4
      <4> QED BY <1>2, <2>3, <3>1, <3>2, <4>1
    <3> QED BY <3>3, <3>4
  <2>5. Len(saved) <= Len(logged)
    BY <2>1, <2>2, <2>3 DEF Accepted
  <2>6. Queue' /\ Flashed'
    BY <1>1, <2>1 DEF Accepted, Queue, Flashed, Unit, Place
  <2>7. pendingOut = RecordSize * Len(saved)
    BY <2>1 DEF Accepted
  <2> QED BY <1>1, <2>2, <2>3, <2>4, <2>5, <2>6, <2>7 DEF Accepted
<1> QED BY <1>5, <1>6 DEF LogInv

(* A line logged by an interrupt.                                          *)
LEMMA LineInterruptInv == LogInv /\ LineInterrupt => LogInv'
<1> SUFFICES ASSUME LogInv, LineInterrupt PROVE LogInv'
  OBVIOUS
<1>1. /\ Copy(Fitting) /\ Queued(Fitting) /\ pendingIn' = pendingIn + Fitting
      /\ nested' = (nested \/ doing = "put")
      /\ UNCHANGED <<pendingOut, doing, put, record, due, saved>>
      /\ LogTypes
  BY DEF LineInterrupt, LogInv
<1>2. /\ lines' \in 0 .. MaxLines
      /\ pendingBuf' \in [0 .. QueueSize - 1 -> UnitsOf(lines')]
      /\ logged' \in Seq(Nat) /\ short' \in BOOLEAN
      /\ Fitting \in Amounts /\ pendingIn' \in Nat /\ pendingOut <= pendingIn'
      /\ ~short' => ~short
  BY <1>1, PutTypes
<1>3. Fitting \in Nat /\ pendingIn \in Nat /\ pendingOut \in Nat /\ RecordSize \in Nat
  BY <1>1, <1>2, LogSizes DEF Amounts, LogTypes
<1>4. /\ doing = "put" => pendingOut <= put.from /\ put.from <= pendingIn'
      /\ doing = "save" => pendingIn' - pendingOut >= RecordSize
  <2>1. put.from \in Nat
    BY <1>1 DEF LogTypes
  <2> QED BY <1>1, <1>3, <2>1 DEF LogTypes
<1>5. nested' \in BOOLEAN
  BY <1>1 DEF LogTypes
<1>6. LogTypes'
  BY <1>1, <1>2, <1>4, <1>5 DEF LogTypes
<1>7. ASSUME ~short', ~nested' PROVE Accepted'
  <2>1. Accepted /\ doing # "put"
    BY <1>1, <1>2, <1>7 DEF LogInv
  <2>2. Lengthened
    BY <1>1, <1>7, <2>1, PutKeeps
  <2>3. /\ Len(saved) \in Nat /\ Len(logged) \in Nat /\ Len(saved) <= Len(logged)
        /\ Queue' /\ Flashed' /\ pendingOut' = RecordSize * Len(saved')
    BY <1>1, <2>1, <2>2, LengthenedKeeps
  <2>4. Behind' = 0
    BY <1>1, <2>1 DEF Behind
  <2>5. Len(saved)' + Behind' <= Len(logged)' /\ Len(logged)' - Behind' = Len(logged')
    BY <1>1, <2>2, <2>3, <2>4 DEF Lengthened
  <2>6. doing = "save" => record = Record(logged'[Len(saved) + 1])
    <3> SUFFICES ASSUME doing = "save" PROVE record = Record(logged'[Len(saved) + 1])
      OBVIOUS
    <3>1. RecordSize \in Nat \ {0} /\ RecordSize * Len(logged) > RecordSize * Len(saved)
      <4>1. pendingIn - pendingOut >= RecordSize
        BY <1>1 DEF LogTypes
      <4> QED BY <1>1, <1>3, <2>2, <2>3, <4>1, LogSizes DEF Lengthened
    <3>2. Len(logged) > Len(saved)
      BY <2>3, <3>1, Multiples
    <3>3. Len(saved) + 1 \in 1 .. Len(logged)
      BY <2>3, <3>2
    <3> QED BY <2>1, <2>2, <3>3 DEF Accepted, Lengthened
  <2> QED BY <1>1, <2>1, <2>2, <2>3, <2>5, <2>6 DEF Accepted, Lengthened
<1> QED BY <1>6, <1>7 DEF LogInv

(* The main loop takes a record.                                           *)
LEMMA StepInv == LogInv /\ Step => LogInv'
<1> SUFFICES ASSUME LogInv, Step PROVE LogInv'
  OBVIOUS
<1>1. /\ doing = "idle" /\ doing' = "save" /\ record' = Content(RecordSize) /\ Waiting >= RecordSize
      /\ UNCHANGED <<pendingBuf, pendingIn, pendingOut, lines, put, due, logged, short, nested, saved>>
      /\ LogTypes
  BY DEF Step, PeekWhole, pending, log, LogInv
<1>2. /\ pendingIn \in Nat /\ pendingOut \in Nat /\ RecordSize \in Nat \ {0}
      /\ QueueSize \in Nat \ {0} /\ pendingIn - pendingOut >= RecordSize /\ lines \in Nat
  BY <1>1, LogSizes, FittingRange DEF LogTypes
<1> DEFINE units == [i \in 1 .. RecordSize |-> Unit(pendingOut + i - 1)]
<1>3. record' = units
  BY <1>1 DEF Content
<1>4. \A i \in 1 .. RecordSize : Unit(pendingOut + i - 1) \in Units
  <2> TAKE i \in 1 .. RecordSize
  <2>1. pendingOut + i - 1 \in Int
    BY <1>2
  <2>2. (pendingOut + i - 1) % QueueSize \in 0 .. QueueSize - 1
    BY <1>2, <2>1, Divided
  <2>3. Unit(pendingOut + i - 1) \in UnitsOf(lines)
    BY <1>1, <2>2 DEF Unit, LogTypes
  <2> QED BY <1>2, <2>3, UnitTypes
<1>5. units \in Seq(Units)
  <2>1. units \in [1 .. RecordSize -> Units]
    BY <1>4
  <2> QED BY <1>2, <2>1, SeqDef
<1>6. LogTypes'
  BY <1>1, <1>2, <1>3, <1>5 DEF LogTypes
<1>7. ASSUME ~short', ~nested' PROVE Accepted'
  <2>1. Accepted
    BY <1>1, <1>7 DEF LogInv
  <2>2. Behind = 0 /\ Behind' = 0
    BY <1>1 DEF Behind
  <2> DEFINE m == Len(saved)
             n == Len(logged)
  <2>3. m \in Nat /\ n \in Nat
    BY <1>1, LenProperties DEF LogTypes
  <2>4. pendingIn = RecordSize * n /\ pendingOut = RecordSize * m
    BY <2>1, <2>2, <2>3 DEF Accepted
  <2>5. \A k \in pendingOut .. pendingIn - 1 : Unit(k) = Place(k)
    BY <2>1, <2>4 DEF Accepted, Queue
  <2>6. \A i \in 1 .. RecordSize : Unit(pendingOut + i - 1) = <<logged[m + 1], i>>
    <3> TAKE i \in 1 .. RecordSize
    <3> DEFINE k == pendingOut + i - 1
    <3>1. k \in pendingOut .. pendingIn - 1
      BY <1>2
    <3>2. i - 1 \in 0 .. RecordSize - 1 /\ m \in Int
      BY <1>2, <2>3
    <3> HIDE DEF m, n
    <3>3. k = RecordSize * m + (i - 1)
      BY <1>2, <2>4
    <3>4. k % RecordSize = i - 1 /\ k \div RecordSize = m
      BY <1>2, <3>2, <3>3, Divides
    <3>5. 1 + m = m + 1 /\ 1 + (i - 1) = i
      BY <2>3, <3>2
    <3> HIDE DEF k
    <3>6. Unit(k) = Place(k)
      BY <2>5, <3>1
    <3>7. Place(k) = <<logged[m + 1], i>>
      BY <3>4, <3>5 DEF Place
    <3> QED BY <3>6, <3>7 DEF k
  <2>7. record' = Record(logged[m + 1])
    <3>1. units = [i \in 1 .. RecordSize |-> <<logged[m + 1], i>>]
      BY <2>6
    <3> QED BY <1>3, <3>1 DEF Record
  <2>8. Queue' /\ Flashed'
    BY <1>1, <2>1 DEF Accepted, Queue, Flashed, Unit, Place
  <2> QED BY <1>1, <2>1, <2>2, <2>7, <2>8 DEF Accepted
<1> QED BY <1>6, <1>7 DEF LogInv

(* The record is saved.                                                    *)
LEMMA SaveOkInv == LogInv /\ SaveOk => LogInv'
<1> SUFFICES ASSUME LogInv, SaveOk PROVE LogInv'
  OBVIOUS
<1>1. /\ doing = "save" /\ doing' = "idle" /\ saved' = Append(saved, record) /\ due' = FALSE
      /\ pendingOut' = pendingOut + RecordSize
      /\ UNCHANGED <<pendingBuf, pendingIn, lines, put, record, logged, short, nested>>
      /\ LogTypes
  BY DEF SaveOk, log, LogInv
<1>2. /\ pendingIn \in Nat /\ pendingOut \in Nat /\ RecordSize \in Nat \ {0}
      /\ QueueSize \in Nat \ {0} /\ pendingIn - pendingOut >= RecordSize
  BY <1>1, LogSizes DEF LogTypes
<1>3. pendingOut' \in Nat /\ pendingOut' <= pendingIn
  BY <1>1, <1>2
<1> DEFINE m == Len(saved)
           n == Len(logged)
<1>4. /\ m \in Nat /\ n \in Nat /\ saved' \in Seq(Seq(Units)) /\ Len(saved') = m + 1
      /\ \A i \in 1 .. m : saved'[i] = saved[i]
      /\ saved'[m + 1] = record
  BY <1>1, LenProperties, AppendProperties DEF LogTypes
<1>5. due' \in BOOLEAN
  BY <1>1
<1>6. LogTypes'
  BY <1>1, <1>3, <1>4, <1>5 DEF LogTypes
<1>7. ASSUME ~short', ~nested' PROVE Accepted'
  <2>1. Accepted
    BY <1>1, <1>7 DEF LogInv
  <2>2. Behind = 0 /\ Behind' = 0
    BY <1>1 DEF Behind
  <2>3. pendingIn = RecordSize * n /\ pendingOut = RecordSize * m
    BY <1>4, <2>1, <2>2 DEF Accepted
  <2>4. RecordSize * (m + 1) = RecordSize * m + RecordSize
    BY <1>2, <1>4
  <2>5. m < n
    <3> HIDE DEF m, n
    <3>1. RecordSize * n > RecordSize * m
      BY <1>2, <2>3
    <3> QED BY <1>2, <1>4, <3>1, Multiples
  <2>6. pendingOut' = RecordSize * Len(saved') /\ Len(saved') + 0 <= n /\ n - 0 = n
    BY <1>1, <1>4, <2>3, <2>4, <2>5
  <2>7. Queue'
    <3>1. RecordSize * n - pendingOut' <= QueueSize
      BY <1>1, <1>2, <2>1, <2>3 DEF Accepted, Queue
    <3>2. \A k \in pendingOut' .. RecordSize * n - 1 : k \in pendingOut .. RecordSize * n - 1
      BY <1>1, <1>2
    <3>3. \A k \in pendingOut .. RecordSize * n - 1 : Unit(k)' = Place(k)'
      BY <1>1, <2>1 DEF Accepted, Queue, Unit, Place
    <3> QED BY <1>1, <3>1, <3>2, <3>3 DEF Queue
  <2>8. Flashed'
    <3>1. record = Record(logged[m + 1])
      BY <1>1, <2>1 DEF Accepted
    <3>2. \A i \in 1 .. m : saved[i] = Record(logged[i])
      BY <2>1 DEF Accepted, Flashed
    <3>3. \A i \in 1 .. m + 1 : i \in 1 .. m \/ i = m + 1
      BY <1>4
    <3> HIDE DEF m
    <3> QED BY <1>1, <1>4, <3>1, <3>2, <3>3 DEF Flashed
  <2> QED BY <1>1, <2>2, <2>3, <2>6, <2>7, <2>8 DEF Accepted
<1> QED BY <1>6, <1>7 DEF LogInv

(* The time between two saves has passed.                                  *)
LEMMA ElapseInv == LogInv /\ Elapse => LogInv'
<1> SUFFICES ASSUME LogInv, Elapse PROVE LogInv'
  OBVIOUS
<1>1. /\ due' = TRUE
      /\ UNCHANGED <<pendingBuf, pendingIn, pendingOut, lines, doing, put, record, logged, short,
                     nested, saved>>
  BY DEF Elapse, pending, log
<1>2. LogTypes'
  BY <1>1 DEF LogInv, LogTypes
<1>3. ~short /\ ~nested => Accepted'
  BY <1>1 DEF LogInv, Accepted, Behind, Queue, Flashed, Unit, Place
<1> QED BY <1>1, <1>2, <1>3 DEF LogInv

(* Standing still keeps it, so every step does.                            *)
LEMMA LogStutterInv == LogInv /\ UNCHANGED logVars => LogInv'
<1> SUFFICES ASSUME LogInv, UNCHANGED logVars PROVE LogInv'
  OBVIOUS
<1>1. UNCHANGED <<pendingBuf, pendingIn, pendingOut, lines, doing, put, record, due, logged, short,
                  nested, saved>>
  BY DEF logVars, pending, log
<1>2. LogTypes'
  BY <1>1 DEF LogInv, LogTypes
<1>3. ~short /\ ~nested => Accepted'
  BY <1>1 DEF LogInv, Accepted, Behind, Queue, Flashed, Unit, Place
<1> QED BY <1>1, <1>2, <1>3 DEF LogInv

LEMMA LogNextInv == LogInv /\ [LogNext]_logVars => LogInv'
<1> SUFFICES ASSUME LogInv, [LogNext]_logVars PROVE LogInv'
  OBVIOUS
<1>1. CASE Line
  BY <1>1, PutBeginInv DEF Line
<1>2. CASE SaveFails
  BY <1>2, PutBeginInv DEF SaveFails
<1> QED BY <1>1, <1>2, LineInterruptInv, PutEndInv, StepInv, SaveOkInv, ElapseInv, LogStutterInv
        DEF LogNext, LogLoop

(* What the invariant says of types.                                       *)
LEMMA InvLogTypes == LogInv => LogTypeOK
<1> SUFFICES ASSUME LogInv PROVE LogTypeOK
  OBVIOUS
<1>1. /\ DOMAIN pendingBuf = 0 .. QueueSize - 1 /\ QueueSize \in Nat \ {0}
      /\ \A k \in 0 .. QueueSize - 1 : pendingBuf[k] \in UnitsOf(lines)
  BY LogSizes DEF LogInv, LogTypes
<1>2. \A k \in 0 .. QueueSize - 1 : k % QueueSize = k
  BY <1>1
<1>3. {Unit(k) : k \in DOMAIN pendingBuf} \subseteq UnitsOf(lines)
  BY <1>1, <1>2 DEF Unit
<1> QED BY <1>1, <1>3 DEF LogInv, LogTypes, LogTypeOK, UnitsOf

(* What it says of the lines.                                              *)
LEMMA InvLogKept == LogInv => LogKept
<1> SUFFICES ASSUME LogInv, ~short, ~nested PROVE
        /\ Len(saved) <= Len(Shown)
        /\ \A n \in DOMAIN saved : saved[n] = Record(Shown[n])
        /\ pendingIn = RecordSize * Len(Shown)
        /\ pendingOut = RecordSize * Len(saved)
        /\ \A k \in pendingOut .. pendingIn - 1 : Unit(k) = UnitOf(k)
  BY DEF LogKept
<1> DEFINE m == Len(saved)
           n == Len(logged) - Behind
<1>1. LogTypes /\ Accepted
  BY DEF LogInv
<1>2. m \in Nat /\ Len(logged) \in Nat /\ DOMAIN saved = 1 .. m /\ Behind \in {0, 1}
  BY <1>1, LenProperties DEF LogTypes, Behind
<1>3. m <= n /\ n \in 0 .. Len(logged) /\ n \in Nat
  BY <1>1, <1>2 DEF Accepted
<1>4. Shown = SubSeq(logged, 1, n)
  BY DEF Shown, Behind
<1> HIDE DEF m, n
<1>5. Len(Shown) = n /\ \A i \in 1 .. n : Shown[i] = logged[i]
  <2>1. \A i \in 1 .. n : logged[i] \in Nat
    BY <1>1, <1>2, <1>3, ElementOfSeq DEF LogTypes
  <2>2. 1 \in Int /\ n \in Int
    BY <1>3
  <2>3. /\ Len(SubSeq(logged, 1, n)) = IF 1 <= n THEN n - 1 + 1 ELSE 0
        /\ \A i \in 1 .. n - 1 + 1 : SubSeq(logged, 1, n)[i] = logged[1 + i - 1]
    BY <1>1, <2>1, <2>2, SubSeqProperties DEF LogTypes
  <2>4. Len(Shown) = n
    BY <1>3, <1>4, <2>3
  <2>5. \A i \in 1 .. n : i \in 1 .. n - 1 + 1 /\ 1 + i - 1 = i
    BY <1>3
  <2>6. \A i \in 1 .. n : Shown[i] = logged[i]
    BY <1>4, <2>3, <2>5
  <2> QED BY <2>4, <2>6
<1>6. pendingIn = RecordSize * n /\ pendingOut = RecordSize * m
  BY <1>1 DEF Accepted, m, n
<1>7. \A i \in 1 .. m : saved[i] = Record(Shown[i])
  <2>1. \A i \in 1 .. m : i \in 1 .. n
    BY <1>2, <1>3
  <2> QED BY <1>1, <1>5, <2>1 DEF Accepted, Flashed, m
<1>8. \A k \in pendingOut .. pendingIn - 1 : Unit(k) = UnitOf(k)
  <2> TAKE k \in pendingOut .. pendingIn - 1
  <2> DEFINE q == k \div RecordSize
             r == k % RecordSize
  <2>1. /\ RecordSize \in Nat \ {0} /\ k \in Nat /\ pendingOut \in Nat /\ pendingIn \in Nat
        /\ RecordSize * Len(logged) \in Int
    BY <1>1, <1>2, LogSizes, Multiples DEF LogTypes
  <2>2. q \in Int /\ r \in 0 .. RecordSize - 1 /\ k = RecordSize * q + r
    BY <2>1, Divided
  <2> HIDE DEF q, r
  <2>3. RecordSize * q \in Int /\ RecordSize * 0 = 0
    BY <2>1, <2>2, Multiples
  <2>4. RecordSize * n > RecordSize * q
    BY <1>6, <2>1, <2>2, <2>3
  <2>5. q < n
    BY <1>3, <2>1, <2>2, <2>4, Multiples
  <2>6. ASSUME q < 0 PROVE FALSE
    <3>1. RecordSize * 0 >= RecordSize * q + RecordSize
      BY <2>1, <2>2, <2>6, Multiples
    <3> QED BY <2>1, <2>2, <2>3, <3>1
  <2>7. 1 + q \in 1 .. n
    BY <1>3, <2>2, <2>5, <2>6
  <2>8. k \in pendingOut .. RecordSize * Len(logged) - 1
    <3>1. RecordSize * Len(logged) >= RecordSize * n
      <4>1. CASE n = Len(logged)
        BY <2>1, <4>1
      <4>2. CASE Len(logged) > n
        <5>1. RecordSize * Len(logged) >= RecordSize * n + RecordSize
          BY <1>2, <1>3, <2>1, <4>2, Multiples
        <5> QED BY <1>6, <2>1, <5>1
      <4> QED BY <1>2, <1>3, <4>1, <4>2
    <3> QED BY <1>6, <2>1, <3>1
  <2>9. Unit(k) = Place(k)
    BY <1>1, <2>8 DEF Accepted, Queue
  <2> QED BY <1>5, <2>7, <2>9 DEF Place, UnitOf, q
<1> QED BY <1>2, <1>3, <1>5, <1>6, <1>7, <1>8 DEF m

(* The log's queue, its record and the lines it has accepted, together.    *)
THEOREM LogInvariant == LogSpec => []LogInv
BY LogInitInv, LogNextInv, PTL DEF LogSpec

(* Every variable of the log stays in its type (srv_log_flash.c).          *)
THEOREM LogTypesCorrect == LogSpec => []LogTypeOK
BY LogInvariant, InvLogTypes, PTL

(* The log in flash and the queue together are the accepted lines, whole,  *)
(* each once and in order, whatever saves failed and were tried again      *)
(* (srv_log_flash.c), for any sizes.                                       *)
THEOREM LinesKept == LogSpec => []LogKept
BY LogInvariant, InvLogKept, PTL

-----------------------------------------------------------------------------
(* Bytes that the line has carried since the FIFO was last reset.          *)
Carried == sent - since

(* Without the wrap of the indices: i bytes are in since then, o are out.  *)
InKept(i) ==
    /\ i \in 0 .. Carried /\ Carried - i < Size
    /\ in = i % Width
OutKept(i, o) ==
    /\ o \in 0 .. i /\ i - o <= Size
    /\ out = o % Width
    /\ place = "advance" => from = out /\ Len(got) <= i - o
OnceKept(o) ==
    /\ Carried - o <= Size /\ ~twice
    /\ last <= since + o /\ (errors = 0 => last = o)
    /\ place = "advance" => \A k \in 1 .. Len(got) : got[k] = since + o + k

ReceiveTypes ==
    /\ ReceiveTypeOK /\ got \in Seq(0 .. MaxBytes)
    /\ place = "advance" => Len(got) >= 1 /\ Len(got) <= todo
    /\ since <= sent /\ (errors = 0 => since = 0)

(* What the receiver keeps.                                                *)
ReceiveInv ==
    /\ ReceiveTypes
    /\ hand = Carried % Size
    /\ \A j \in 0 .. Carried - 1 : Carried - j <= Size => ring[j % Size] = since + j + 1
    /\ \E i \in 0 .. Carried :
          InKept(i) /\ (~torn => \E o \in 0 .. i : OutKept(i, o) /\ (~overrun => OnceKept(o)))
    /\ errors = 0 /\ ~overrun => ~torn /\ ~skipped

-----------------------------------------------------------------------------
(* Values modulo a number.                                                 *)
LEMMA ModSum ==
    ASSUME NEW a \in Nat, NEW b \in Int, NEW d \in Nat \ {0}, a + b \in Nat
    PROVE  ((a % d) + b) % d = (a + b) % d
<1> DEFINE p == a \div d
           x == a % d
           q == (x + b) \div d
           y == (x + b) % d
           c == p + q
<1>1. p \in Int /\ x \in 0 .. d - 1 /\ a = d * p + x
  BY Divided
<1>2. x + b \in Int
  BY <1>1
<1> HIDE DEF p, x
<1>3. q \in Int /\ y \in 0 .. d - 1 /\ x + b = d * q + y
  BY <1>2, Divided
<1> HIDE DEF q, y
<1>4. c \in Int /\ d * c = d * p + d * q
  BY <1>1, <1>3
<1>5. a + b = d * c + y
  BY <1>1, <1>3, <1>4
<1> HIDE DEF c
<1>6. (d * c + y) % d = y
  BY <1>3, <1>4, Divides
<1> QED BY <1>5, <1>6 DEF y, x

(* The width of the indices is a multiple of the size.                     *)
LEMMA ModMod ==
    ASSUME NEW a \in Nat, NEW d \in Nat \ {0}, NEW k \in Nat \ {0}
    PROVE  (a % (k * d)) % d = a % d
<1> DEFINE w == k * d
           p == a \div w
           x == a % w
           q == x \div d
           y == x % d
           c == k * p + q
<1>0. w \in Nat \ {0}
  OBVIOUS
<1>1. w = k * d
  OBVIOUS
<1> HIDE DEF w
<1>2. p \in Int /\ x \in 0 .. w - 1 /\ a = w * p + x
  BY <1>0, Divided
<1>3. x \in Int
  BY <1>0, <1>2
<1> HIDE DEF p, x
<1>4. q \in Int /\ y \in 0 .. d - 1 /\ x = d * q + y
  BY <1>3, Divided
<1> HIDE DEF q, y
<1>5. c \in Int /\ d * c = w * p + d * q
  <2>1. k * p \in Int /\ d * (k * p) = (k * d) * p
    BY <1>2
  <2> DEFINE e == k * p
  <2>2. e \in Int /\ d * e = w * p
    BY <1>1, <2>1
  <2> HIDE DEF e
  <2>3. e + q \in Int /\ d * (e + q) = d * e + d * q
    BY <1>4, <2>2
  <2> QED BY <2>2, <2>3 DEF e
<1>6. a = d * c + y
  <2> DEFINE e == w * p
             f == d * q
  <2>1. e \in Int /\ f \in Int
    BY <1>0, <1>2, <1>4
  <2>2. a = e + x /\ x = f + y /\ d * c = e + f
    BY <1>2, <1>4, <1>5
  <2> HIDE DEF e, f
  <2> QED BY <1>4, <2>1, <2>2
<1> HIDE DEF c
<1>7. (d * c + y) % d = y
  BY <1>4, <1>5, Divides
<1> QED BY <1>6, <1>7 DEF y, x, w

(* Places less than a size apart differ.                                   *)
LEMMA Apart ==
    ASSUME NEW a \in Nat, NEW b \in Nat, NEW d \in Nat \ {0}, a < b, b < a + d
    PROVE  a % d # b % d
<1>1. ((b % d) + d - (a % d)) % d = b - a
  <2>1. b >= a
    OBVIOUS
  <2> QED BY <2>1, Ahead
<1>2. a % d \in 0 .. d - 1
  BY Divided
<1>3. SUFFICES ASSUME a % d = b % d PROVE FALSE
  OBVIOUS
<1>4. (b % d) + d - (a % d) = d /\ d % d = 0
  BY <1>2, <1>3
<1> QED BY <1>1, <1>4

(* The sizes of the receiver.                                              *)
LEMMA Sizes ==
    /\ Size \in Nat \ {0} /\ Width \in Nat \ {0} /\ Size + Size <= Width
    /\ \A a \in Nat : (a % Width) % Size = a % Size
<1>1. Size \in Nat \ {0}
  BY ReceiveAssumption
<1>2. PICK k \in 2 .. Width : Width = k * Size
  BY ReceiveAssumption
<1>3. k \in Nat \ {0} /\ k > 1 /\ k \in Int
  BY <1>2
<1>4. k * Size = Size * k /\ Size * 1 = Size /\ Size * k >= Size * 1 + Size /\ Size * k \in Nat
  <2>1. k * Size = Size * k
    BY <1>1, <1>3
  <2> QED BY <1>1, <1>3, <2>1, Multiples
<1>5. Width \in Nat \ {0} /\ Size + Size <= Width
  BY <1>1, <1>2, <1>4
<1>6. ASSUME NEW a \in Nat PROVE (a % Width) % Size = a % Size
  <2>1. (a % (k * Size)) % Size = a % Size
    BY <1>1, <1>3, ModMod
  <2> QED BY <1>2, <2>1
<1> QED BY <1>1, <1>5, <1>6

(* Only their types.                                                       *)
LEMMA SizeTypes == Size \in Nat \ {0} /\ Width \in Nat \ {0}
BY Sizes

(* What the counts say of the differences that the code works with.        *)
LEMMA MovedIs ==
    ASSUME NEW i, Carried \in Nat, hand = Carried % Size, InKept(i)
    PROVE  Moved = Carried - i /\ i \in Nat /\ Carried - i \in Nat
<1>1. i \in Nat /\ Carried >= i /\ Carried < i + Size /\ Carried - i \in Nat
  BY Sizes DEF InKept
<1>2. in % Size = i % Size
  BY <1>1, Sizes DEF InKept
<1>3. ((Carried % Size) + Size - (i % Size)) % Size = Carried - i
  BY <1>1, Sizes, Ahead
<1> QED BY <1>1, <1>2, <1>3 DEF Moved

(* What the FIFO holds.                                                    *)
LEMMA HeldIs ==
    ASSUME NEW i \in Nat, NEW o, in = i % Width, OutKept(i, o)
    PROVE  Held = i - o /\ o \in Nat /\ i - o \in Nat
<1>1. o \in Nat /\ i >= o /\ i < o + Width /\ i - o \in Nat
  BY Sizes DEF OutKept
<1>2. ((i % Width) + Width - (o % Width)) % Width = i - o
  BY <1>1, Sizes, Ahead
<1> QED BY <1>1, <1>2 DEF Held, Wrap, OutKept

-----------------------------------------------------------------------------
(* Initially nothing has come in.                                          *)
LEMMA ReceiveInitInv == ReceiveInit => ReceiveInv
<1> SUFFICES ASSUME ReceiveInit PROVE ReceiveInv
  OBVIOUS
<1>1. /\ sent = 0 /\ since = 0 /\ hand = 0 /\ in = 0 /\ out = 0 /\ errors = 0
      /\ torn = FALSE /\ overrun = FALSE /\ place = "idle" /\ got = <<>> /\ last = 0
      /\ twice = FALSE /\ skipped = FALSE
  BY DEF ReceiveInit
<1>2. 0 % Size = 0 /\ 0 % Width = 0
  BY Sizes
<1>3. Carried = 0
  BY <1>1 DEF Carried
<1>4. ReceiveTypes
  <2>1. ReceiveTypeOK
    <3>1. /\ 0 \in 0 .. Size - 1 /\ 0 \in 0 .. Width - 1 /\ 0 \in 0 .. MaxBytes
          /\ 0 \in 0 .. MaxErrors /\ 0 <= Chunk
      BY Sizes, ReceiveAssumption
    <3>2. Len(got) = 0
      BY <1>1
    <3>3. ring \in [0 .. Size - 1 -> 0 .. MaxBytes] /\ todo = 0 /\ from = 0 /\ event = FALSE
      BY <3>1 DEF ReceiveInit
    <3> QED BY <1>1, <3>1, <3>2, <3>3 DEF ReceiveTypeOK
  <2> QED BY <1>1, <2>1 DEF ReceiveTypes
<1>5. InKept(0) /\ OutKept(0, 0) /\ OnceKept(0)
  BY <1>1, <1>2, <1>3, Sizes DEF InKept, OutKept, OnceKept
<1>6. \E i \in 0 .. Carried :
         InKept(i) /\ (~torn => \E o \in 0 .. i : OutKept(i, o) /\ (~overrun => OnceKept(o)))
  BY <1>3, <1>5
<1>7. \A j \in 0 .. Carried - 1 : Carried - j <= Size => ring[j % Size] = since + j + 1
  BY <1>3
<1> QED BY <1>1, <1>2, <1>3, <1>4, <1>6, <1>7 DEF ReceiveInv

(* The types of what the steps share.                                      *)
LEMMA ReceiveFacts ==
    ASSUME ReceiveTypes
    PROVE  /\ ring \in [0 .. Size - 1 -> 0 .. MaxBytes] /\ hand \in 0 .. Size - 1
           /\ sent \in 0 .. MaxBytes /\ since \in 0 .. MaxBytes /\ last \in 0 .. MaxBytes
           /\ in \in 0 .. Width - 1 /\ out \in 0 .. Width - 1 /\ from \in 0 .. Width - 1
           /\ event \in BOOLEAN /\ torn \in BOOLEAN /\ overrun \in BOOLEAN
           /\ twice \in BOOLEAN /\ skipped \in BOOLEAN
           /\ errors \in 0 .. MaxErrors /\ place \in {"idle", "read", "advance"}
           /\ todo \in 0 .. Width - 1 /\ got \in Seq(0 .. MaxBytes) /\ Len(got) <= Chunk
           /\ since <= sent /\ (errors = 0 => since = 0)
           /\ (place = "advance" => Len(got) >= 1 /\ Len(got) <= todo)
           /\ MaxBytes \in Nat /\ MaxErrors \in Nat /\ Chunk \in 1 .. Size
           /\ Carried \in Nat /\ Len(got) \in Nat
<1>1. Len(got) \in Nat
  BY LenProperties DEF ReceiveTypes
<1>2. MaxBytes \in Nat /\ MaxErrors \in Nat /\ Chunk \in 1 .. Size
  BY ReceiveAssumption
<1>3. Carried \in Nat
  BY <1>2 DEF ReceiveTypes, ReceiveTypeOK, Carried
<1> QED BY <1>1, <1>2, <1>3 DEF ReceiveTypes, ReceiveTypeOK

(* The indices are numbers.                                                *)
LEMMA IndexTypes ==
    ASSUME ReceiveTypes
    PROVE  /\ in \in Nat /\ out \in Nat /\ from \in Nat /\ todo \in 0 .. Width - 1
           /\ Width \in Nat /\ Held \in 0 .. Width - 1
<1>1. /\ in \in 0 .. Width - 1 /\ out \in 0 .. Width - 1 /\ from \in 0 .. Width - 1
      /\ todo \in 0 .. Width - 1
  BY ReceiveFacts
<1>2. Width \in Nat \ {0}
  BY SizeTypes
<1>3. in + Width - out \in Int
  BY <1>1, <1>2
<1>4. Held \in 0 .. Width - 1
  BY <1>2, <1>3, Divided DEF Held, Wrap
<1> QED BY <1>1, <1>2, <1>4

(* A byte comes in.                                                        *)
LEMMA ByteInv == ReceiveInv /\ Byte => ReceiveInv'
<1> SUFFICES ASSUME ReceiveInv, Byte PROVE ReceiveInv'
  OBVIOUS
<1> DEFINE c == Carried
<1>1. ReceiveTypes /\ hand = c % Size /\ c \in Nat
  BY ReceiveFacts DEF ReceiveInv
<1>2. /\ in' = in /\ out' = out /\ errors' = errors /\ since' = since /\ torn' = torn
      /\ place' = place /\ todo' = todo /\ got' = got /\ from' = from
      /\ last' = last /\ twice' = twice /\ skipped' = skipped
      /\ sent' = sent + 1 /\ sent < MaxBytes /\ Moved < Size - 1
  BY DEF Byte, fifo, reader, parser
<1>3. /\ ring' = [ring EXCEPT ![hand] = sent + 1]
      /\ hand' = (hand + 1) % Size
      /\ event' = (event \/ hand' = 0)
      /\ overrun' = (overrun \/ Held + Moved >= Size)
  BY <1>2 DEF Byte
<1>4. Carried' = c + 1
  BY <1>1, <1>2, ReceiveFacts DEF Carried
<1>5. hand' = (c + 1) % Size
  <2>1. ((c % Size) + 1) % Size = (c + 1) % Size
    <3>1. c \in Nat /\ c + 1 \in Nat /\ 1 \in Int /\ Size \in Nat \ {0}
      BY <1>1, Sizes
    <3> HIDE DEF c
    <3> QED BY <3>1, ModSum
  <2> QED BY <1>1, <1>3, <2>1
<1>6. ReceiveTypes'
  <2>1. hand' \in 0 .. Size - 1
    BY <1>1, <1>5, Sizes, Divided
  <2>2. sent' \in 0 .. MaxBytes /\ ring' \in [0 .. Size - 1 -> 0 .. MaxBytes]
    <3>1. sent + 1 \in 0 .. MaxBytes
      BY <1>1, <1>2, ReceiveFacts
    <3> QED BY <1>1, <1>2, <1>3, <3>1, ReceiveFacts
  <2>3. event' \in BOOLEAN
    <3>1. (event \/ hand' = 0) \in BOOLEAN
      OBVIOUS
    <3> QED BY <1>3, <3>1
  <2>4. overrun' \in BOOLEAN
    <3>1. (overrun \/ Held + Moved >= Size) \in BOOLEAN
      OBVIOUS
    <3> QED BY <1>3, <3>1
  <2>5. ReceiveTypeOK'
    BY <1>1, <1>2, <2>1, <2>2, <2>3, <2>4, ReceiveFacts DEF ReceiveTypeOK
  <2>6. since' <= sent'
    BY <1>1, <1>2, ReceiveFacts
  <2> QED BY <1>1, <1>2, <2>5, <2>6 DEF ReceiveTypes
<1>7. \A j \in 0 .. c : (c + 1) - j <= Size => ring'[j % Size] = since + j + 1
  <2> SUFFICES ASSUME NEW j \in 0 .. c, (c + 1) - j <= Size
               PROVE  ring'[j % Size] = since + j + 1
    OBVIOUS
  <2>1. j \in Nat /\ j % Size \in 0 .. Size - 1
    BY Sizes, Divided
  <2>2. CASE j = c
    <3>1. ring'[c % Size] = sent + 1
      BY <1>1, <1>3, <2>1, <2>2, ReceiveFacts
    <3>2. sent + 1 = since + c + 1
      BY <1>1, ReceiveFacts DEF Carried
    <3> QED BY <2>2, <3>1, <3>2
  <2>3. CASE j # c
    <3>1. j < c /\ c < j + Size /\ j \in 0 .. c - 1 /\ c - j <= Size
      BY <1>1, <2>1, <2>3, Sizes
    <3>2. j % Size # c % Size
      BY <1>1, <2>1, <3>1, Sizes, Apart
    <3>3. ring'[j % Size] = ring[j % Size]
      BY <1>1, <1>3, <2>1, <3>2, ReceiveFacts
    <3> QED BY <3>1, <3>3 DEF ReceiveInv
  <2> QED BY <2>2, <2>3
<1>8. PICK i \in 0 .. c :
         InKept(i) /\ (~torn => \E o \in 0 .. i : OutKept(i, o) /\ (~overrun => OnceKept(o)))
  BY DEF ReceiveInv
<1>9. Moved = c - i /\ i \in Nat /\ c - i \in Nat
  BY <1>1, <1>8, MovedIs
<1>10. InKept(i)' /\ i \in 0 .. c + 1
  <2>1. i \in 0 .. c + 1 /\ (c + 1) - i < Size
    BY <1>1, <1>2, <1>9, Sizes
  <2> QED BY <1>2, <1>4, <1>8, <2>1 DEF InKept
<1>11. ASSUME ~torn' PROVE \E o \in 0 .. i : OutKept(i, o)' /\ (~overrun' => OnceKept(o)')
  <2>1. PICK o \in 0 .. i : OutKept(i, o) /\ (~overrun => OnceKept(o))
    BY <1>2, <1>8, <1>11
  <2>2. OutKept(i, o)'
    BY <1>2, <2>1 DEF OutKept
  <2>3. Held = i - o /\ o \in Nat /\ i - o \in Nat
    BY <1>8, <1>9, <2>1, HeldIs DEF InKept
  <2>4. ASSUME ~overrun' PROVE OnceKept(o)'
    <3>1. ~overrun /\ ~(Held + Moved >= Size)
      BY <1>3, <2>4
    <3>2. (c + 1) - o <= Size
      BY <1>1, <1>9, <2>3, <3>1, Sizes
    <3> QED BY <1>2, <1>4, <2>1, <3>1, <3>2 DEF OnceKept
  <2> QED BY <2>2, <2>4
<1>12. errors' = 0 /\ ~overrun' => ~torn' /\ ~skipped'
  <2>1. ~overrun' => ~overrun
    BY <1>3
  <2> QED BY <1>2, <2>1 DEF ReceiveInv
<1>13. \E k \in 0 .. Carried' :
          InKept(k)' /\ (~torn' => \E o \in 0 .. k : OutKept(k, o)' /\ (~overrun' => OnceKept(o)'))
  BY <1>4, <1>10, <1>11
<1>14. \A j \in 0 .. Carried' - 1 : Carried' - j <= Size => ring'[j % Size] = since' + j + 1
  <2>1. Carried' - 1 = c
    BY <1>1, <1>4
  <2> QED BY <1>2, <1>4, <1>7, <2>1
<1> QED BY <1>4, <1>5, <1>6, <1>12, <1>13, <1>14 DEF ReceiveInv

(* The receive interrupt.                                                  *)
LEMMA MoveInInv == ReceiveInv /\ MoveIn => ReceiveInv'
<1> SUFFICES ASSUME ReceiveInv, MoveIn PROVE ReceiveInv'
  OBVIOUS
<1>0. PICK c : c = Carried
  OBVIOUS
<1> DEFINE full == Wrap(in' + Width - out) > Size
<1>1. ReceiveTypes /\ hand = c % Size /\ c \in Nat
  BY <1>0, ReceiveFacts DEF ReceiveInv
<1>2. /\ ring' = ring /\ hand' = hand /\ sent' = sent /\ event' = FALSE
      /\ errors' = errors /\ since' = since /\ overrun' = overrun
      /\ place' = place /\ todo' = todo /\ got' = got /\ from' = from
      /\ last' = last /\ twice' = twice /\ skipped' = skipped
      /\ in' = Wrap(in + Moved)
      /\ out' = IF Moved > 0 /\ full THEN Wrap(in' + Width - Size) ELSE out
      /\ torn' = (torn \/ (place = "advance" /\ out' # out))
  BY DEF MoveIn, MoveBy, reader, parser
<1>3. Carried' = c
  BY <1>0, <1>2 DEF Carried
<1>4. PICK i \in 0 .. c :
         InKept(i) /\ (~torn => \E o \in 0 .. i : OutKept(i, o) /\ (~overrun => OnceKept(o)))
  BY <1>0 DEF ReceiveInv
<1>5. Moved = c - i /\ i \in Nat /\ c - i \in Nat /\ c - i < Size /\ in = i % Width
  BY <1>0, <1>1, <1>4, MovedIs DEF InKept
<1>6. in' = c % Width
  <2> DEFINE b == c - i
  <2>1. b \in Int /\ i + b \in Nat /\ i + b = c
    BY <1>1, <1>5
  <2> HIDE DEF b
  <2>2. ((i % Width) + b) % Width = (i + b) % Width
    BY <1>5, <2>1, Sizes, ModSum
  <2> QED BY <1>2, <1>5, <2>1, <2>2 DEF Wrap, b
<1>7. in' \in 0 .. Width - 1
  BY <1>1, <1>6, Sizes, Divided
<1>8. out' \in 0 .. Width - 1
  <2>1. out \in 0 .. Width - 1
    BY <1>1, ReceiveFacts
  <2>2. in' + Width - Size \in Int
    BY <1>7, Sizes
  <2>3. Wrap(in' + Width - Size) \in 0 .. Width - 1
    BY <2>2, Sizes, Divided DEF Wrap
  <2> HIDE DEF full
  <2> QED BY <1>2, <2>1, <2>3
<1>9. ReceiveTypes'
  <2>1. torn' \in BOOLEAN
    <3>1. (torn \/ (place = "advance" /\ out' # out)) \in BOOLEAN
      OBVIOUS
    <3> QED BY <1>2, <3>1
  <2>2. ReceiveTypeOK'
    BY <1>1, <1>2, <1>7, <1>8, <2>1, ReceiveFacts DEF ReceiveTypeOK
  <2> QED BY <1>1, <1>2, <2>2 DEF ReceiveTypes
<1>10. InKept(c)'
  BY <1>1, <1>3, <1>6, Sizes DEF InKept
<1>11. ASSUME ~torn, NEW o \in 0 .. i, OutKept(i, o)
       PROVE  /\ OutKept(c, o)' /\ out' = out /\ c - o <= Size
              \/ /\ c - o > Size /\ out' # out
                 /\ c - Size \in 0 .. c /\ (place # "advance" => OutKept(c, c - Size)')
  <2>1. /\ o \in Nat /\ out = o % Width /\ i - o <= Size /\ o <= i /\ c >= o /\ c < o + Width
        /\ (place = "advance" => from = out /\ Len(got) <= i - o)
    BY <1>1, <1>5, <1>11, Sizes DEF OutKept
  <2>2. Wrap(in' + Width - out) = c - o
    <3>1. ((c % Width) + Width - (o % Width)) % Width = c - o
      BY <1>1, <2>1, Sizes, Ahead
    <3> QED BY <1>6, <2>1, <3>1 DEF Wrap
  <2>3. CASE c - o <= Size
    <3>1. ~full
      BY <1>1, <2>1, <2>2, <2>3, Sizes
    <3>2. out' = out
      BY <1>2, <3>1
    <3>3. i - o <= c - o /\ o \in 0 .. c
      BY <1>1, <1>5, <2>1
    <3>4. place = "advance" => from = out /\ Len(got) <= c - o
      BY <1>1, <1>5, <2>1, <3>3, ReceiveFacts
    <3>5. OutKept(c, o)'
      BY <1>2, <2>1, <2>3, <3>2, <3>3, <3>4 DEF OutKept
    <3> QED BY <2>3, <3>2, <3>5
  <2>4. CASE ~(c - o <= Size)
    <3> DEFINE q == c - Size
    <3>1. q \in Nat /\ q \in 0 .. c /\ o < q /\ q < o + Width /\ c - q = Size /\ c - o > Size
      BY <1>1, <1>5, <2>1, <2>4, Sizes
    <3>2. full
      BY <2>2, <3>1
    <3>3. Moved > 0
      BY <1>1, <1>5, <2>1, <2>4, Sizes
    <3>4. Wrap(in' + Width - Size) = q % Width
      <4> DEFINE b == Width - Size
      <4>1. b \in Int /\ c + b \in Nat /\ q + Width = c + b
        BY <1>1, <3>1, Sizes
      <4>2. in' + Width - Size = (c % Width) + b
        BY <1>1, <1>6, <1>7, Sizes
      <4> HIDE DEF b, q
      <4>3. ((c % Width) + b) % Width = (c + b) % Width
        BY <1>1, <4>1, Sizes, ModSum
      <4>4. (q + Width) % Width = q % Width
        <5> DEFINE d == q \div Width
                   y == q % Width
                   e == d + 1
        <5>1. d \in Int /\ y \in 0 .. Width - 1 /\ q = Width * d + y
          BY <3>1, Sizes, Divided
        <5> HIDE DEF d, y
        <5>2. e \in Int /\ Width * e = Width * d + Width * 1 /\ Width * 1 = Width
          BY <5>1, Sizes, Multiples
        <5>3. q + Width = Width * e + y
          BY <3>1, <5>1, <5>2, Sizes
        <5> HIDE DEF e
        <5>4. (Width * e + y) % Width = y
          BY <5>1, <5>2, Sizes, Divides
        <5> QED BY <5>3, <5>4 DEF y
      <4> QED BY <4>1, <4>2, <4>3, <4>4 DEF Wrap
    <3>5. out' = q % Width
      BY <1>2, <3>2, <3>3, <3>4
    <3>6. out' # out
      <4>1. o % Width # q % Width
        BY <2>1, <3>1, Sizes, Apart
      <4> QED BY <2>1, <3>5, <4>1
    <3>7. place # "advance" => OutKept(c, q)'
      <4>1. c - q <= Size
        BY <1>1, <3>1, Sizes
      <4> HIDE DEF q
      <4> QED BY <1>2, <3>1, <3>5, <4>1 DEF OutKept
    <3> QED BY <3>1, <3>6, <3>7
  <2> QED BY <2>3, <2>4
<1>12. ASSUME ~torn' PROVE \E o \in 0 .. c : OutKept(c, o)' /\ (~overrun' => OnceKept(o)')
  <2>1. ~torn /\ ~(place = "advance" /\ out' # out)
    BY <1>2, <1>12
  <2>2. PICK o \in 0 .. i : OutKept(i, o) /\ (~overrun => OnceKept(o))
    BY <1>4, <2>1
  <2>3. CASE OutKept(c, o)' /\ out' = out /\ c - o <= Size
    <3>1. ~overrun => OnceKept(o)'
      BY <1>0, <1>2, <1>3, <2>2 DEF OnceKept
    <3>2. o \in 0 .. c
      BY <1>1, <1>5
    <3> QED BY <1>2, <2>3, <3>1, <3>2
  <2>4. CASE c - o > Size /\ out' # out /\ c - Size \in 0 .. c /\ (place # "advance" => OutKept(c, c - Size)')
    <3>1. overrun
      <4>1. ~(c - o <= Size)
        BY <1>1, <1>5, <2>4, Sizes
      <4> QED BY <1>0, <2>2, <4>1 DEF OnceKept
    <3>2. OutKept(c, c - Size)'
      BY <2>1, <2>4
    <3> QED BY <1>2, <2>4, <3>1, <3>2
  <2> QED BY <1>11, <2>1, <2>2, <2>3, <2>4
<1>13. errors' = 0 /\ ~overrun' => ~torn' /\ ~skipped'
  <2> SUFFICES ASSUME errors = 0, ~overrun PROVE ~torn' /\ ~skipped'
    BY <1>2
  <2>1. ~torn /\ ~skipped
    BY DEF ReceiveInv
  <2>2. PICK o \in 0 .. i : OutKept(i, o) /\ OnceKept(o)
    BY <1>4, <2>1
  <2>3. ~(c - o > Size)
    BY <1>0, <1>1, <1>5, <2>2, Sizes DEF OnceKept
  <2>4. out' = out
    BY <1>11, <2>1, <2>2, <2>3
  <2> QED BY <1>2, <2>1, <2>4
<1>14. \E k \in 0 .. Carried' :
          InKept(k)' /\ (~torn' => \E o \in 0 .. k : OutKept(k, o)' /\ (~overrun' => OnceKept(o)'))
  <2>1. c \in 0 .. Carried'
    BY <1>1, <1>3
  <2> QED BY <1>10, <1>12, <2>1
<1>15. \A j \in 0 .. Carried' - 1 : Carried' - j <= Size => ring'[j % Size] = since' + j + 1
  BY <1>0, <1>2, <1>3 DEF ReceiveInv
<1> QED BY <1>1, <1>2, <1>3, <1>9, <1>13, <1>14, <1>15 DEF ReceiveInv

(* The error interrupt.                                                    *)
LEMMA ErrorInv == ReceiveInv /\ Error => ReceiveInv'
<1> SUFFICES ASSUME ReceiveInv, Error PROVE ReceiveInv'
  OBVIOUS
<1>1. ReceiveTypes
  BY DEF ReceiveInv
<1>2. /\ errors' = errors + 1 /\ errors < MaxErrors
      /\ in' = 0 /\ out' = 0 /\ hand' = 0 /\ since' = sent
      /\ torn' = (torn \/ place = "advance")
      /\ ring' = ring /\ sent' = sent /\ event' = event /\ overrun' = overrun
      /\ place' = place /\ todo' = todo /\ got' = got /\ from' = from
      /\ last' = last /\ twice' = twice /\ skipped' = skipped
  BY DEF Error, reader, parser
<1>3. Carried' = 0 /\ 0 % Size = 0 /\ 0 % Width = 0 /\ errors' # 0 /\ errors' \in 0 .. MaxErrors
  <2>1. sent \in Nat /\ errors \in Nat /\ errors + 1 \in 0 .. MaxErrors
    BY <1>1, <1>2, ReceiveFacts
  <2>2. Carried' = sent - sent
    BY <1>2 DEF Carried
  <2>3. 0 % Size = 0 /\ 0 % Width = 0
    BY Sizes
  <2> QED BY <1>2, <2>1, <2>2, <2>3
<1>4. ReceiveTypes'
  <2>1. torn' \in BOOLEAN
    <3>1. (torn \/ place = "advance") \in BOOLEAN
      OBVIOUS
    <3> QED BY <1>2, <3>1
  <2>2. errors' \in 0 .. MaxErrors /\ 0 \in 0 .. Size - 1 /\ 0 \in 0 .. Width - 1
    BY <1>3, Sizes
  <2>3. ReceiveTypeOK'
    BY <1>1, <1>2, <2>1, <2>2, ReceiveFacts DEF ReceiveTypeOK
  <2>4. since' <= sent'
    BY <1>1, <1>2, ReceiveFacts
  <2> QED BY <1>1, <1>2, <1>3, <2>3, <2>4 DEF ReceiveTypes
<1>5. InKept(0)'
  BY <1>2, <1>3, Sizes DEF InKept
<1>6. ASSUME ~torn' PROVE OutKept(0, 0)' /\ (~overrun' => OnceKept(0)')
  <2>1. ~torn /\ place # "advance"
    BY <1>2, <1>6
  <2>2. OutKept(0, 0)'
    BY <1>2, <1>3, <2>1, Sizes DEF OutKept
  <2>3. ASSUME ~overrun PROVE OnceKept(0)'
    <3>0. PICK i \in 0 .. Carried : \E o \in 0 .. i : OnceKept(o)
      BY <2>1, <2>3 DEF ReceiveInv
    <3>1. PICK o \in 0 .. i : OnceKept(o)
      BY <3>0
    <3>2. since + o <= sent
      <4>1. Carried = sent - since /\ since \in Nat /\ sent \in Nat
        BY <1>1, ReceiveFacts DEF Carried
      <4> QED BY <4>1
    <3>3. last <= sent /\ ~twice
      <4>1. last \in Nat /\ since \in Nat /\ sent \in Nat /\ o \in Nat
        BY <1>1, ReceiveFacts
      <4> QED BY <3>1, <3>2, <4>1 DEF OnceKept
    <3>4. /\ Carried' - 0 <= Size /\ ~twice' /\ last' <= since' + 0
          /\ errors' # 0 /\ place' # "advance"
      <4>1. sent \in Nat
        BY <1>1, ReceiveFacts
      <4>2. sent + 0 = sent
        BY <4>1
      <4>3. Carried' - 0 <= Size
        BY <1>3, Sizes
      <4>4. last' <= since' + 0
        BY <1>2, <3>3, <4>2
      <4> QED BY <1>2, <1>3, <2>1, <3>3, <4>3, <4>4
    <3> QED BY <3>4 DEF OnceKept
  <2> QED BY <1>2, <2>2, <2>3
<1>7. \E k \in 0 .. Carried' :
          InKept(k)' /\ (~torn' => \E o \in 0 .. k : OutKept(k, o)' /\ (~overrun' => OnceKept(o)'))
  BY <1>3, <1>5, <1>6
<1>8. \A j \in 0 .. Carried' - 1 : Carried' - j <= Size => ring'[j % Size] = since' + j + 1
  BY <1>3
<1> QED BY <1>2, <1>3, <1>4, <1>7, <1>8 DEF ReceiveInv

(* A function on 1 .. n is a sequence.                                     *)
LEMMA FunctionSeq ==
    ASSUME NEW n \in Nat, NEW S, NEW g \in [1 .. n -> S]
    PROVE  g \in Seq(S) /\ Len(g) = n
OBVIOUS

(* Steps that neither carry bytes nor move the indices.                    *)
LEMMA FifoStands ==
    ASSUME ReceiveInv, ReceiveTypes', UNCHANGED <<ring, hand, sent, fifo, faults, parser>>,
           place' = "advance" => from' = out /\ Len(got') <= Held,
           ~torn /\ ~overrun =>
              \A i \in 0 .. Carried : \A o \in 0 .. i :
                    InKept(i) /\ OutKept(i, o) /\ OnceKept(o) /\ place' = "advance"
                    => \A k \in 1 .. Len(got') : got'[k] = since + o + k
    PROVE  ReceiveInv'
<1>1. ReceiveTypes /\ Carried \in Nat
  BY ReceiveFacts DEF ReceiveInv
<1>2. /\ ring' = ring /\ hand' = hand /\ sent' = sent /\ in' = in /\ out' = out
      /\ errors' = errors /\ since' = since /\ torn' = torn /\ overrun' = overrun
      /\ last' = last /\ twice' = twice /\ skipped' = skipped
  BY DEF fifo, faults, parser
<1>3. Carried' = Carried
  BY <1>2 DEF Carried
<1>4. PICK i \in 0 .. Carried :
         InKept(i) /\ (~torn => \E o \in 0 .. i : OutKept(i, o) /\ (~overrun => OnceKept(o)))
  BY DEF ReceiveInv
<1>5. InKept(i)'
  BY <1>2, <1>3, <1>4 DEF InKept
<1>6. ASSUME ~torn' PROVE \E o \in 0 .. i : OutKept(i, o)' /\ (~overrun' => OnceKept(o)')
  <2>1. PICK o \in 0 .. i : OutKept(i, o) /\ (~overrun => OnceKept(o))
    BY <1>2, <1>4, <1>6
  <2>2. Held = i - o /\ i - o \in Nat
    BY <1>1, <1>4, <2>1, HeldIs DEF InKept
  <2>3. OutKept(i, o)'
    <3>1. place' = "advance" => from' = out' /\ Len(got') <= i - o
      BY <1>2, <2>2
    <3> QED BY <1>2, <2>1, <3>1 DEF OutKept
  <2>4. ASSUME ~overrun PROVE OnceKept(o)'
    <3>1. OnceKept(o) /\ ~torn
      BY <1>2, <1>6, <2>1, <2>4
    <3>2. place' = "advance" => \A k \in 1 .. Len(got') : got'[k] = since + o + k
      BY <1>4, <2>1, <2>4, <3>1
    <3> QED BY <1>2, <1>3, <3>1, <3>2 DEF OnceKept
  <2> QED BY <1>2, <2>3, <2>4
<1>7. \E k \in 0 .. Carried' :
          InKept(k)' /\ (~torn' => \E o \in 0 .. k : OutKept(k, o)' /\ (~overrun' => OnceKept(o)'))
  BY <1>3, <1>5, <1>6
<1> QED BY <1>2, <1>3, <1>7 DEF ReceiveInv

(* A read of what is in the FIFO.                                          *)
LEMMA ReadInv == ReceiveInv /\ Read => ReceiveInv'
<1> SUFFICES ASSUME ReceiveInv, Read PROVE ReceiveInv'
  OBVIOUS
<1>1. ReceiveTypes /\ hand = Carried % Size /\ Carried \in Nat
  BY ReceiveFacts DEF ReceiveInv
<1>2. /\ UNCHANGED <<ring, hand, sent, fifo, faults, parser>> /\ event' = event /\ todo' = todo
      /\ in' = in /\ out' = out /\ errors' = errors /\ since' = since /\ torn' = torn
      /\ overrun' = overrun /\ last' = last /\ twice' = twice /\ skipped' = skipped
      /\ ring' = ring /\ hand' = hand /\ sent' = sent
  BY DEF Read, line, fifo, faults, parser
<1>3. Held \in 0 .. Width - 1
  BY <1>1, IndexTypes
<1>4. /\ Copied \in Nat /\ Copied <= todo /\ Copied <= Held /\ Copied <= Chunk
  <2>1. todo \in Nat /\ Chunk \in Nat /\ Held \in Nat
    BY <1>1, <1>3, ReceiveFacts, SizeTypes
  <2> HIDE DEF Held
  <2> QED BY <2>1 DEF Copied, Least
<1>5. CASE Copied = 0
  <2>1. place' = "idle" /\ got' = got /\ from' = from
    BY <1>5 DEF Read
  <2>2. ReceiveTypes'
    <3>1. ReceiveTypeOK'
      BY <1>1, <1>2, <2>1, ReceiveFacts DEF ReceiveTypeOK
    <3> QED BY <1>1, <1>2, <2>1, <3>1 DEF ReceiveTypes
  <2> QED BY <1>2, <2>1, <2>2, FifoStands
<1>6. CASE Copied # 0
  <2> DEFINE n == Copied
             g == [k \in 1 .. n |-> ring[(out + k - 1) % Size]]
  <2>1. place = "read" /\ place' = "advance" /\ from' = out /\ got' = g
    BY <1>6 DEF Read
  <2>2. g \in Seq(0 .. MaxBytes) /\ Len(g) = n
    <3>1. \A k \in 1 .. n : ring[(out + k - 1) % Size] \in 0 .. MaxBytes
      <4> TAKE k \in 1 .. n
      <4>1. out + k - 1 \in Int
        BY <1>1, <1>4, ReceiveFacts
      <4>2. (out + k - 1) % Size \in 0 .. Size - 1
        BY <4>1, Sizes, Divided
      <4> QED BY <1>1, <4>2, ReceiveFacts
    <3> HIDE DEF n
    <3>2. n \in Nat
      BY <1>4 DEF n
    <3>3. g \in [1 .. n -> 0 .. MaxBytes]
      BY <3>1
    <3> DEFINE M == 0 .. MaxBytes
    <3>4. g \in [1 .. n -> M]
      BY <3>3
    <3> HIDE DEF g, M
    <3>5. g \in Seq(M) /\ Len(g) = n
      BY <3>2, <3>4, FunctionSeq
    <3> QED BY <3>5 DEF M
  <2>3. ReceiveTypes'
    <3>1. Len(got') <= Chunk /\ Len(got') <= todo /\ Len(got') >= 1
      BY <1>4, <1>6, <2>1, <2>2
    <3>2. ReceiveTypeOK'
      BY <1>1, <1>2, <2>1, <3>1, ReceiveFacts DEF ReceiveTypeOK
    <3> QED BY <1>1, <1>2, <2>1, <2>2, <3>1, <3>2 DEF ReceiveTypes
  <2>4. ASSUME NEW i \in 0 .. Carried, NEW o \in 0 .. i, InKept(i), OutKept(i, o), OnceKept(o),
               NEW k \in 1 .. Len(got')
        PROVE  got'[k] = since + o + k
    <3>1. Held = i - o /\ o \in Nat /\ i \in Nat /\ i <= Carried
      BY <1>1, <2>4, HeldIs DEF InKept
    <3>2. k \in 1 .. n
      BY <2>1, <2>2
    <3>3. got'[k] = ring[(out + k - 1) % Size]
      BY <2>1, <3>2
    <3> DEFINE j == o + k - 1
    <3>4. /\ j \in 0 .. Carried - 1 /\ Carried - j <= Size /\ since + j + 1 = since + o + k
          /\ o + (k - 1) = j /\ k - 1 \in Int /\ j \in Nat
      <4>1. Carried - o <= Size /\ since \in Nat
        BY <1>1, <2>4, ReceiveFacts DEF OnceKept
      <4>2. k \in Nat /\ k >= 1 /\ k <= i - o
        BY <1>4, <3>1, <3>2
      <4> QED BY <1>1, <3>1, <4>1, <4>2, Sizes
    <3> HIDE DEF j
    <3>5. (out + k - 1) % Size = j % Size
      <4>1. out = o % Width
        BY <2>4 DEF OutKept
      <4>2. (o % Width) % Size = o % Size
        BY <3>1, Sizes
      <4> DEFINE b == k - 1
      <4>3. b \in Int /\ o + b \in Nat /\ o + b = j
        BY <3>4
      <4>4. out \in Nat /\ out + b \in Nat /\ out + k - 1 = out + b
        <5>1. out \in Nat
          BY <1>1, ReceiveFacts, SizeTypes
        <5>2. k \in Nat /\ k >= 1
          BY <1>4, <3>2
        <5> QED BY <5>1, <5>2
      <4> HIDE DEF b
      <4>5. ((out % Size) + b) % Size = (out + b) % Size
        BY <4>3, <4>4, SizeTypes, ModSum
      <4>6. ((o % Size) + b) % Size = (o + b) % Size
        BY <3>1, <4>3, SizeTypes, ModSum
      <4> QED BY <4>1, <4>2, <4>3, <4>4, <4>5, <4>6
    <3>6. ring[j % Size] = since + j + 1
      BY <3>4 DEF ReceiveInv
    <3> QED BY <3>3, <3>4, <3>5, <3>6
  <2>5. Len(got') <= Held
    BY <1>4, <2>1, <2>2
  <2> HIDE DEF n, g
  <2> QED BY <1>2, <2>1, <2>3, <2>4, <2>5, FifoStands
<1> QED BY <1>5, <1>6

(* The end of a frame on the line.                                         *)
LEMMA LineIdleInv == ReceiveInv /\ LineIdle => ReceiveInv'
<1> SUFFICES ASSUME ReceiveInv, LineIdle PROVE ReceiveInv'
  OBVIOUS
<1>1. ReceiveTypes
  BY DEF ReceiveInv
<1>2. /\ UNCHANGED <<ring, hand, sent, fifo, faults, parser>>
      /\ event' = TRUE /\ place' = place /\ todo' = todo /\ got' = got /\ from' = from
      /\ in' = in /\ out' = out /\ errors' = errors /\ since' = since /\ torn' = torn
      /\ overrun' = overrun /\ last' = last /\ twice' = twice /\ skipped' = skipped
      /\ ring' = ring /\ hand' = hand /\ sent' = sent
  BY DEF LineIdle, fifo, faults, parser, reader
<1>3. ReceiveTypes'
  <2>1. ReceiveTypeOK'
    BY <1>1, <1>2, ReceiveFacts DEF ReceiveTypeOK
  <2> QED BY <1>1, <1>2, <2>1 DEF ReceiveTypes
<1>4. Carried' = Carried
  BY <1>2 DEF Carried
<1> QED BY <1>2, <1>3, <1>4 DEF ReceiveInv, InKept, OutKept, OnceKept

(* The parser is called.                                                   *)
LEMMA ServiceInv == ReceiveInv /\ Service => ReceiveInv'
<1> SUFFICES ASSUME ReceiveInv, Service PROVE ReceiveInv'
  OBVIOUS
<1>1. ReceiveTypes
  BY DEF ReceiveInv
<1>2. /\ UNCHANGED <<ring, hand, sent, fifo, faults, parser>>
      /\ event' = event /\ place' = "read" /\ todo' = Held /\ got' = got /\ from' = from
      /\ in' = in /\ out' = out /\ errors' = errors /\ since' = since /\ torn' = torn
      /\ overrun' = overrun /\ last' = last /\ twice' = twice /\ skipped' = skipped
      /\ ring' = ring /\ hand' = hand /\ sent' = sent
  BY DEF Service, fifo, faults, parser, line
<1>3. Held \in 0 .. Width - 1
  BY <1>1, IndexTypes
<1>4. ReceiveTypes'
  <2>1. ReceiveTypeOK'
    BY <1>1, <1>2, <1>3, ReceiveFacts DEF ReceiveTypeOK
  <2> QED BY <1>1, <1>2, <2>1 DEF ReceiveTypes
<1> QED BY <1>2, <1>4, FifoStands

(* The bytes that were copied go to the parser, and "out" moves on.        *)
LEMMA AdvanceInv == ReceiveInv /\ Advance => ReceiveInv'
<1> SUFFICES ASSUME ReceiveInv, Advance PROVE ReceiveInv'
  OBVIOUS
<1>0. PICK c : c = Carried
  OBVIOUS
<1>1. ReceiveTypes /\ c \in Nat
  BY <1>0, ReceiveFacts DEF ReceiveInv
<1>2. PICK n : n = Len(got)
  OBVIOUS
<1>3. /\ n \in Nat /\ n >= 1 /\ n <= todo /\ place = "advance"
      /\ \A k \in 1 .. n : got[k] \in 0 .. MaxBytes
  <2>1. \A k \in 1 .. Len(got) : got[k] \in 0 .. MaxBytes
    <3> DEFINE M == 0 .. MaxBytes
    <3>1. got \in Seq(M)
      BY <1>1, ReceiveFacts
    <3> HIDE DEF M
    <3>2. \A k \in 1 .. Len(got) : got[k] \in M
      BY <3>1, ElementOfSeq
    <3> QED BY <3>2 DEF M
  <2>2. place = "advance"
    BY DEF Advance
  <2> QED BY <1>1, <1>2, <2>1, <2>2, ReceiveFacts
<1>4. /\ ring' = ring /\ hand' = hand /\ sent' = sent /\ event' = event /\ in' = in
      /\ errors' = errors /\ since' = since /\ torn' = torn /\ overrun' = overrun
      /\ place' = "read" /\ todo' = todo - n /\ got' = <<>> /\ from' = from
      /\ last' = Most(last, got[n])
      /\ out' \in {Wrap(base + n) : base \in {out, from}}
  BY <1>2 DEF Advance, line, faults, ByLen
<1>5. /\ twice' = (twice \/ \E k \in 1 .. n : got[k] <= IF k = 1 THEN last ELSE got[k - 1])
      /\ skipped' = (skipped \/ \E k \in 1 .. n : got[k] > 1 + IF k = 1 THEN last ELSE got[k - 1])
  BY <1>2 DEF Advance
<1>6. Carried' = c
  BY <1>0, <1>4 DEF Carried
<1>7. ReceiveTypes'
  <2>1. last' \in 0 .. MaxBytes
    <3>1. got[n] \in 0 .. MaxBytes /\ last \in 0 .. MaxBytes
      BY <1>1, <1>3, ReceiveFacts
    <3> QED BY <1>4, <3>1 DEF Most
  <2>2. out' \in 0 .. Width - 1
    <3>1. PICK base \in {out, from} : out' = Wrap(base + n)
      BY <1>4
    <3>2. base + n \in Int
      BY <1>1, <1>3, IndexTypes
    <3> QED BY <3>1, <3>2, SizeTypes, Divided DEF Wrap
  <2>3. twice' \in BOOLEAN
    <3>1. (twice \/ \E k \in 1 .. n : got[k] <= IF k = 1 THEN last ELSE got[k - 1]) \in BOOLEAN
      OBVIOUS
    <3> QED BY <1>5, <3>1
  <2>4. skipped' \in BOOLEAN
    <3>1. (skipped \/ \E k \in 1 .. n : got[k] > 1 + IF k = 1 THEN last ELSE got[k - 1]) \in BOOLEAN
      OBVIOUS
    <3> QED BY <1>5, <3>1
  <2>5. todo' \in 0 .. Width - 1
    BY <1>1, <1>3, <1>4, IndexTypes
  <2>6. got' \in Seq(0 .. MaxBytes) /\ Len(got') = 0 /\ 0 <= Chunk
    <3>1. 0 <= Chunk
      BY <1>1, ReceiveFacts, SizeTypes
    <3> QED BY <1>4, <3>1
  <2>7. ReceiveTypeOK'
    BY <1>1, <1>4, <2>1, <2>2, <2>3, <2>4, <2>5, <2>6, ReceiveFacts DEF ReceiveTypeOK
  <2> QED BY <1>1, <1>4, <2>6, <2>7 DEF ReceiveTypes
<1>8. PICK i \in 0 .. c :
         InKept(i) /\ (~torn => \E o \in 0 .. i : OutKept(i, o) /\ (~overrun => OnceKept(o)))
  BY <1>0 DEF ReceiveInv
<1>9. InKept(i)'
  BY <1>0, <1>4, <1>6, <1>8 DEF InKept
(* What the bytes are when nothing has gone wrong.                         *)
<1>10. ASSUME NEW o \in 0 .. i, OutKept(i, o), OnceKept(o)
       PROVE  /\ last' = since + (o + n) /\ (~twice => ~twice')
              /\ (errors = 0 /\ ~skipped => ~skipped')
  <2>1. /\ o \in Nat /\ since \in Nat /\ last \in Nat /\ last <= since + o
        /\ \A k \in 1 .. n : got[k] = since + o + k
        /\ (errors = 0 => last = o /\ since = 0)
    BY <1>1, <1>2, <1>3, <1>10, ReceiveFacts DEF OnceKept
  <2>2. got[n] = since + o + n /\ last' = since + (o + n)
    <3>1. n \in 1 .. n
      BY <1>3
    <3>2. got[n] = since + o + n
      BY <2>1, <3>1
    <3> QED BY <1>3, <1>4, <2>1, <3>2 DEF Most
  <2>3. \A k \in 1 .. n : k # 1 => k - 1 \in 1 .. n /\ got[k - 1] = since + o + (k - 1)
    <3> SUFFICES ASSUME NEW k \in 1 .. n, k # 1
                 PROVE  k - 1 \in 1 .. n /\ got[k - 1] = since + o + (k - 1)
      OBVIOUS
    <3>1. k - 1 \in 1 .. n
      BY <1>3
    <3> QED BY <2>1, <3>1
  <2>4. \A k \in 1 .. n : ~(got[k] <= IF k = 1 THEN last ELSE got[k - 1])
    <3> TAKE k \in 1 .. n
    <3>1. k \in Nat /\ k >= 1 /\ got[k] = since + o + k
      BY <1>3, <2>1
    <3>2. CASE k = 1
      BY <2>1, <3>1, <3>2
    <3>3. CASE k # 1
      <4>1. got[k - 1] = since + o + (k - 1)
        BY <2>3, <3>3
      <4> QED BY <2>1, <3>1, <3>3, <4>1
    <3> QED BY <3>2, <3>3
  <2>5. ASSUME errors = 0
        PROVE  \A k \in 1 .. n : ~(got[k] > 1 + IF k = 1 THEN last ELSE got[k - 1])
    <3> TAKE k \in 1 .. n
    <3>1. k \in Nat /\ k >= 1 /\ got[k] = since + o + k
      BY <1>3, <2>1
    <3>2. CASE k = 1
      BY <2>1, <2>5, <3>1, <3>2
    <3>3. CASE k # 1
      <4>1. got[k - 1] = since + o + (k - 1)
        BY <2>3, <3>3
      <4> QED BY <2>1, <3>1, <3>3, <4>1
    <3> QED BY <3>2, <3>3
  <2> QED BY <1>5, <2>2, <2>4, <2>5
<1>11. ASSUME ~torn', NEW o \in 0 .. i, OutKept(i, o)
       PROVE  /\ o + n \in 0 .. i /\ OutKept(i, o + n)'
              /\ (~overrun /\ OnceKept(o) => OnceKept(o + n)')
  <2>1. /\ o \in Nat /\ i \in Nat /\ i <= c /\ out = o % Width /\ i - o <= Size
        /\ from = out /\ n <= i - o
    BY <1>1, <1>2, <1>3, <1>11 DEF OutKept
  <2>2. o + n \in 0 .. i /\ i - (o + n) <= Size /\ c - (o + n) <= c - o
    BY <1>1, <1>3, <2>1, SizeTypes
  <2>3. out' = (o + n) % Width
    <3>0. n \in Int /\ o + n \in Nat
      BY <1>3, <2>1
    <3>1. ((o % Width) + n) % Width = (o + n) % Width
      BY <2>1, <3>0, SizeTypes, ModSum
    <3>2. out' = Wrap(out + n)
      BY <1>4, <2>1
    <3> QED BY <2>1, <3>1, <3>2 DEF Wrap
  <2>4. OutKept(i, o + n)'
    BY <1>4, <2>2, <2>3 DEF OutKept
  <2>5. ASSUME ~overrun, OnceKept(o) PROVE OnceKept(o + n)'
    <3>1. last' = since + (o + n) /\ ~twice'
      BY <1>10, <1>11, <2>5 DEF OnceKept
    <3>2. c - (o + n) <= Size
      <4>1. c - o <= Size
        BY <1>0, <2>5 DEF OnceKept
      <4> QED BY <1>1, <1>3, <2>1, <2>2, <4>1, SizeTypes
    <3>3. since + (o + n) <= since + (o + n)
      <4>1. since \in Nat
        BY <1>1, ReceiveFacts
      <4> QED BY <1>3, <2>1, <4>1
    <3>4. errors = 0 => since + (o + n) = o + n
      <4>1. errors = 0 => since = 0
        BY <1>1, ReceiveFacts
      <4> QED BY <1>3, <2>1, <4>1
    <3> QED BY <1>4, <1>6, <3>1, <3>2, <3>3, <3>4 DEF OnceKept
  <2> QED BY <2>2, <2>4, <2>5
<1>12. ASSUME ~torn' PROVE \E o \in 0 .. i : OutKept(i, o)' /\ (~overrun' => OnceKept(o)')
  <2>1. PICK o \in 0 .. i : OutKept(i, o) /\ (~overrun => OnceKept(o))
    BY <1>4, <1>8, <1>12
  <2>2. PICK p \in 0 .. i : OutKept(i, p)' /\ (~overrun /\ OnceKept(o) => OnceKept(p)')
    BY <1>11, <1>12, <2>1
  <2> QED BY <1>4, <2>1, <2>2
<1>13. \E k \in 0 .. Carried' :
          InKept(k)' /\ (~torn' => \E o \in 0 .. k : OutKept(k, o)' /\ (~overrun' => OnceKept(o)'))
  BY <1>6, <1>9, <1>12
<1>14. errors' = 0 /\ ~overrun' => ~torn' /\ ~skipped'
  <2> SUFFICES ASSUME errors = 0, ~overrun PROVE ~torn' /\ ~skipped'
    BY <1>4
  <2>1. ~torn /\ ~skipped
    BY DEF ReceiveInv
  <2>2. PICK o \in 0 .. i : OutKept(i, o) /\ OnceKept(o)
    BY <1>8, <2>1
  <2> QED BY <1>4, <1>10, <2>1, <2>2
<1>15. /\ hand' = Carried' % Size
       /\ \A j \in 0 .. Carried' - 1 : Carried' - j <= Size => ring'[j % Size] = since' + j + 1
  BY <1>0, <1>4, <1>6 DEF ReceiveInv
<1> QED BY <1>7, <1>13, <1>14, <1>15 DEF ReceiveInv

(* Standing still keeps the invariant, so every step does.                 *)
LEMMA ReceiveStandsStill == ReceiveInv /\ UNCHANGED receiveVars => ReceiveInv'
<1> SUFFICES ASSUME ReceiveInv, UNCHANGED receiveVars PROVE ReceiveInv'
  OBVIOUS
<1>1. /\ ring' = ring /\ hand' = hand /\ sent' = sent /\ event' = event
      /\ in' = in /\ out' = out /\ errors' = errors /\ since' = since /\ torn' = torn
      /\ overrun' = overrun /\ place' = place /\ todo' = todo /\ got' = got
      /\ from' = from /\ last' = last /\ twice' = twice /\ skipped' = skipped
  BY DEF receiveVars, line, fifo, faults, reader, parser
<1>2. Carried' = Carried
  BY <1>1 DEF Carried
<1>3. ReceiveTypes'
  BY <1>1 DEF ReceiveInv, ReceiveTypes, ReceiveTypeOK
<1> QED BY <1>1, <1>2, <1>3 DEF ReceiveInv, InKept, OutKept, OnceKept

LEMMA ReceiveNextInv == ReceiveInv /\ ReceiveNext => ReceiveInv'
BY ByteInv, LineIdleInv, MoveInInv, ErrorInv, ServiceInv, ReadInv, AdvanceInv
   DEF ReceiveNext, Reading

(* What the invariant says.                                                *)
LEMMA InvBytesKept == ReceiveInv => ReceiveTypeOK /\ BytesKept
<1> SUFFICES ASSUME ReceiveInv PROVE ReceiveTypeOK /\ BytesKept
  OBVIOUS
<1>1. ReceiveTypes /\ Carried \in Nat
  BY ReceiveFacts DEF ReceiveInv
<1>2. ASSUME ~torn PROVE Held <= Size /\ (overrun \/ ~twice)
  <2>1. PICK i \in 0 .. Carried :
           InKept(i) /\ \E o \in 0 .. i : OutKept(i, o) /\ (~overrun => OnceKept(o))
    BY <1>2 DEF ReceiveInv
  <2>2. PICK o \in 0 .. i : OutKept(i, o) /\ (~overrun => OnceKept(o))
    BY <2>1
  <2>3. i \in Nat /\ in = i % Width
    BY <1>1, <2>1 DEF InKept
  <2>4. Held = i - o
    BY <2>2, <2>3, HeldIs
  <2>5. Held <= Size
    BY <2>2, <2>4 DEF OutKept
  <2> QED BY <2>2, <2>5 DEF OnceKept
<1>3. errors = 0 /\ ~overrun => ~skipped
  BY DEF ReceiveInv
<1> QED BY <1>1, <1>2, <1>3 DEF ReceiveTypes, BytesKept, OnlyOnceUnlessTorn, NoneSkipped

(* The invariant of the receiver, for any size of the ring.                *)
THEOREM ReceiveInvariant == ReceiveSpec => []ReceiveInv
<1>1. ReceiveInv /\ [ReceiveNext]_receiveVars => ReceiveInv'
  BY ReceiveNextInv, ReceiveStandsStill
<1> QED BY <1>1, ReceiveInitInv, PTL DEF ReceiveSpec

(* Unless an interrupt moves both indices inside kfifo_get, the FIFO never *)
(* holds more than the ring and the parser gets no byte twice until the    *)
(* line outruns it by a whole ring; without an error or such an overrun it *)
(* misses none (drv_uart.c, kfifo.c), for any size of the ring.            *)
THEOREM BytesStay == ReceiveSpec => []BytesKept
<1>1. ReceiveInv => BytesKept
  BY InvBytesKept
<1> QED BY <1>1, ReceiveInvariant, PTL

-----------------------------------------------------------------------------
(* The timers in a list, a list that has each of them once, and one that   *)
(* is in the order of the target times.                                    *)
Members(l) == {l[i] : i \in 1 .. Len(l)}
Once(l) == \A i, j \in 1 .. Len(l) : l[i] = l[j] => i = j
Ordered(l, f) == \A i, j \in 1 .. Len(l) : i < j => f[l[i]] <= f[l[j]]

(* Values of the clock.                                                    *)
ClockValues == 0 .. Ticks - 1

(* The timers as a record.                                                 *)
TimerState ==
    [lists : [Queues -> Seq(Timers)], target : [Timers -> ClockValues],
     left : [Timers -> Nat], active : [Timers -> BOOLEAN], fired : [Timers -> Nat]]

(* The timers in away are being called back: the others are in one list    *)
(* while they are active.                                                  *)
Placed(ls, on, away) ==
    /\ \A q \in Queues : Once(ls[q]) /\ Members(ls[q]) \subseteq {t \in Timers : on[t]} \ away
    /\ \A q, p \in Queues : q # p => Members(ls[q]) \cap Members(ls[p]) = {}
    /\ \A t \in Timers : on[t] => t \in away \/ \E q \in Queues : t \in Members(ls[q])

(* The lists, and the order of the first, apart from the repetitions.      *)
Lined(s, away) ==
    /\ s \in TimerState
    /\ Placed(s.lists, s.active, away)
    /\ Ordered(s.lists["active"], s.target)

(* The repetitions: a timer that is active has some left.                  *)
Counted(s, away) ==
    \A t \in Timers :
        /\ s.left[t] <= Repeat[t] /\ s.fired[t] <= Repeat[t]
        /\ Repeat[t] # 0 /\ s.active[t] =>
              /\ s.left[t] >= 1
              /\ s.fired[t] + s.left[t] = Repeat[t] + (IF t \in away THEN 1 ELSE 0)

Kept(s, away) == Lined(s, away) /\ Counted(s, away)

(* What the timers keep.                                                   *)
TimerInv ==
    /\ {now, tick} \subseteq 0 .. Ticks - 1 /\ pc \in {"boot", "idle", "drain", "task"}
    /\ plain \in BOOLEAN /\ alive \subseteq Timers
    /\ Kept(Whole, {})
    /\ pc = "task" => lists["active"] = <<>> \/ ~Due(Head(lists["active"]))

-----------------------------------------------------------------------------
(* A timer that is taken out of a list.                                    *)
LEMMA ListElements ==
    ASSUME NEW S, NEW l \in Seq(S)
    PROVE  /\ Len(l) \in Nat /\ Members(l) \in SUBSET S
           /\ \A i \in 1 .. Len(l) : l[i] \in S /\ l[i] \in Members(l)
BY LenProperties, ElementOfSeq DEF Members

(* Without a timer, the others stay in order.                              *)
LEMMA ListWithout ==
    ASSUME NEW S, NEW l \in Seq(S), NEW t, Once(l)
    PROVE  LET u == Without(l, t) IN
           /\ u \in Seq(S) /\ Once(u) /\ Members(u) = Members(l) \ {t}
           /\ \A f \in [S -> Nat] : Ordered(l, f) => Ordered(u, f)
<1> DEFINE places == {i \in 1 .. Len(l) : l[i] = t}
<1>1. Len(l) \in Nat /\ \A i \in 1 .. Len(l) : l[i] \in S
  BY ListElements
<1>2. CASE places = {}
  <2>1. Without(l, t) = l
    BY <1>2 DEF Without
  <2>2. t \notin Members(l)
    BY <1>2 DEF Members
  <2> QED BY <2>1, <2>2
<1>3. CASE places # {}
  <2> DEFINE k == CHOOSE i \in places : TRUE
             a == SubSeq(l, 1, k - 1)
             b == SubSeq(l, k + 1, Len(l))
             u == a \o b
             m == Len(l) - 1
  <2>1. k \in places
    BY <1>3
  <2>2. k \in 1 .. Len(l) /\ l[k] = t
    BY <2>1
  <2>3. Without(l, t) = u
    BY <1>3 DEF Without, RemoveAt
  <2> HIDE DEF k
  <2>4. /\ a \in Seq(S) /\ Len(a) = k - 1
        /\ \A i \in 1 .. k - 1 : a[i] = l[i]
    <3>1. \A i \in 1 .. k - 1 : l[i] \in S
      BY <1>1, <2>2
    <3>2. /\ a \in Seq(S)
          /\ Len(a) = IF 1 <= k - 1 THEN k - 1 - 1 + 1 ELSE 0
          /\ \A i \in 1 .. k - 1 - 1 + 1 : a[i] = l[1 + i - 1]
      BY <1>1, <2>2, <3>1, SubSeqProperties
    <3> QED BY <1>1, <2>2, <3>2
  <2>5. /\ b \in Seq(S) /\ Len(b) = Len(l) - k
        /\ \A i \in 1 .. Len(l) - k : b[i] = l[k + i]
    <3>1. \A i \in k + 1 .. Len(l) : l[i] \in S
      BY <1>1, <2>2
    <3>2. /\ b \in Seq(S)
          /\ Len(b) = IF k + 1 <= Len(l) THEN Len(l) - (k + 1) + 1 ELSE 0
          /\ \A i \in 1 .. Len(l) - (k + 1) + 1 : b[i] = l[k + 1 + i - 1]
      BY <1>1, <2>2, <3>1, SubSeqProperties
    <3> QED BY <1>1, <2>2, <3>2
  <2> HIDE DEF a, b
  <2>6. /\ u \in Seq(S) /\ Len(u) = m
        /\ \A i \in 1 .. m : u[i] = IF i <= k - 1 THEN a[i] ELSE b[i - (k - 1)]
    <3>1. /\ u \in Seq(S) /\ Len(u) = Len(a) + Len(b)
          /\ \A i \in 1 .. Len(a) + Len(b) :
                u[i] = IF i <= Len(a) THEN a[i] ELSE b[i - Len(a)]
      BY <2>4, <2>5, ConcatProperties
    <3>2. Len(a) + Len(b) = m /\ Len(a) = k - 1
      BY <1>1, <2>2, <2>4, <2>5
    <3> QED BY <3>1, <3>2
  <2> HIDE DEF u
  <2>7. \A i \in 1 .. m : u[i] = l[IF i <= k - 1 THEN i ELSE i + 1]
    <3> TAKE i \in 1 .. m
    <3>1. CASE i <= k - 1
      <4>1. i \in 1 .. k - 1
        BY <1>1, <2>2, <3>1
      <4> QED BY <2>4, <2>6, <3>1, <4>1
    <3>2. CASE ~(i <= k - 1)
      <4>1. i - (k - 1) \in 1 .. Len(l) - k /\ k + (i - (k - 1)) = i + 1
        BY <1>1, <2>2, <3>2
      <4> QED BY <2>5, <2>6, <3>2, <4>1
    <3> QED BY <3>1, <3>2
  <2> DEFINE g(i) == IF i <= k - 1 THEN i ELSE i + 1
  <2>8. /\ \A i \in 1 .. m : g(i) \in 1 .. Len(l) /\ g(i) # k
        /\ \A i, j \in 1 .. m : i < j => g(i) < g(j)
        /\ \A i, j \in 1 .. m : g(i) = g(j) => i = j
        /\ \A n \in 1 .. Len(l) : n # k => \E i \in 1 .. m : g(i) = n
    <3>1. \A n \in 1 .. Len(l) : n # k => \E i \in 1 .. m : g(i) = n
      <4> SUFFICES ASSUME NEW n \in 1 .. Len(l), n # k
                   PROVE  \E i \in 1 .. m : g(i) = n
        OBVIOUS
      <4>1. CASE n <= k - 1
        <5>1. n \in 1 .. m /\ g(n) = n
          BY <1>1, <2>2, <4>1
        <5> QED BY <5>1
      <4>2. CASE ~(n <= k - 1)
        <5>1. n - 1 \in 1 .. m /\ g(n - 1) = n
          BY <1>1, <2>2, <4>2
        <5> QED BY <5>1
      <4> QED BY <4>1, <4>2
    <3>2. \A i \in 1 .. m : g(i) \in 1 .. Len(l) /\ g(i) # k
      BY <1>1, <2>2
    <3>3. \A i, j \in 1 .. m : i < j => g(i) < g(j)
      BY <1>1, <2>2
    <3>4. \A i, j \in 1 .. m : g(i) = g(j) => i = j
      BY <1>1, <2>2
    <3> QED BY <3>1, <3>2, <3>3, <3>4
  <2>9. \A i \in 1 .. m : u[i] = l[g(i)]
    BY <2>7
  <2> HIDE DEF g, m
  <2>10. Once(u)
    BY <2>6, <2>8, <2>9 DEF Once
  <2>11. Members(u) = Members(l) \ {t}
    <3>1. ASSUME NEW x \in Members(u) PROVE x \in Members(l) \ {t}
      BY <2>2, <2>6, <2>8, <2>9 DEF Members, Once
    <3>2. ASSUME NEW x \in Members(l) \ {t} PROVE x \in Members(u)
      <4>1. PICK n \in 1 .. Len(l) : l[n] = x
        BY DEF Members
      <4>2. n # k
        BY <2>2, <4>1
      <4>3. PICK i \in 1 .. m : g(i) = n
        BY <2>8, <4>2
      <4> QED BY <2>6, <2>9, <4>1, <4>3 DEF Members
    <3> QED BY <3>1, <3>2
  <2>12. ASSUME NEW f \in [S -> Nat], Ordered(l, f) PROVE Ordered(u, f)
    <3> SUFFICES ASSUME NEW i \in 1 .. m, NEW j \in 1 .. m, i < j
                 PROVE  f[u[i]] <= f[u[j]]
      BY <2>6 DEF Ordered
    <3>1. g(i) \in 1 .. Len(l) /\ g(j) \in 1 .. Len(l) /\ g(i) < g(j)
      BY <2>8
    <3>2. f[l[g(i)]] <= f[l[g(j)]]
      BY <2>12, <3>1 DEF Ordered
    <3> QED BY <2>9, <3>2
  <2> QED BY <2>3, <2>6, <2>10, <2>11, <2>12
<1> QED BY <1>2, <1>3

(* A timer that is put into one.                                           *)
LEMMA ListInsert ==
    ASSUME NEW S, NEW l \in Seq(S), NEW t \in S, NEW k \in 1 .. Len(l) + 1,
           Once(l), t \notin Members(l)
    PROVE  LET u == InsertAt(l, k, t) IN
           /\ u \in Seq(S) /\ Once(u) /\ Members(u) = Members(l) \cup {t}
           /\ \A f \in [S -> Nat] :
                 /\ Ordered(l, f)
                 /\ \A i \in 1 .. k - 1 : f[l[i]] <= f[t]
                 /\ \A i \in k .. Len(l) : f[t] <= f[l[i]]
                 => Ordered(u, f)
<1> DEFINE a == SubSeq(l, 1, k - 1)
           b == SubSeq(l, k, Len(l))
           c == a \o <<t>>
           u == c \o b
           m == Len(l) + 1
<1>1. Len(l) \in Nat /\ \A i \in 1 .. Len(l) : l[i] \in S
  BY ListElements
<1>2. InsertAt(l, k, t) = u
  BY DEF InsertAt
<1>3. /\ a \in Seq(S) /\ Len(a) = k - 1
      /\ \A i \in 1 .. k - 1 : a[i] = l[i]
  <2>1. \A i \in 1 .. k - 1 : l[i] \in S
    BY <1>1
  <2>2. /\ a \in Seq(S)
        /\ Len(a) = IF 1 <= k - 1 THEN k - 1 - 1 + 1 ELSE 0
        /\ \A i \in 1 .. k - 1 - 1 + 1 : a[i] = l[1 + i - 1]
    BY <1>1, <2>1, SubSeqProperties
  <2> QED BY <1>1, <2>2
<1>4. /\ b \in Seq(S) /\ Len(b) = Len(l) - k + 1
      /\ \A i \in 1 .. Len(l) - k + 1 : b[i] = l[k + i - 1]
  <2>1. \A i \in k .. Len(l) : l[i] \in S
    BY <1>1
  <2>2. /\ b \in Seq(S)
        /\ Len(b) = IF k <= Len(l) THEN Len(l) - k + 1 ELSE 0
        /\ \A i \in 1 .. Len(l) - k + 1 : b[i] = l[k + i - 1]
    BY <1>1, <2>1, SubSeqProperties
  <2> QED BY <1>1, <2>2
<1> HIDE DEF a, b
<1>5. /\ c \in Seq(S) /\ Len(c) = k /\ c[k] = t
      /\ \A i \in 1 .. k - 1 : c[i] = l[i]
  <2>1. <<t>> \in Seq(S) /\ Len(<<t>>) = 1 /\ <<t>>[1] = t
    OBVIOUS
  <2> DEFINE d == <<t>>
  <2>2. d \in Seq(S) /\ Len(d) = 1 /\ d[1] = t
    BY <2>1
  <2>3. c = a \o d
    OBVIOUS
  <2> HIDE DEF c, d
  <2>4. /\ c \in Seq(S) /\ Len(c) = Len(a) + Len(d)
        /\ \A i \in 1 .. Len(a) + Len(d) :
              c[i] = IF i <= Len(a) THEN a[i] ELSE d[i - Len(a)]
    BY <1>3, <2>2, <2>3, ConcatProperties
  <2>5. k \in 1 .. Len(a) + Len(d) /\ ~(k <= Len(a)) /\ k - Len(a) = 1 /\ Len(c) = k
    BY <1>1, <1>3, <2>2, <2>4
  <2>6. c[k] = t
    BY <2>2, <2>4, <2>5
  <2>7. \A i \in 1 .. k - 1 : c[i] = l[i]
    BY <1>3, <2>2, <2>4
  <2> QED BY <2>4, <2>5, <2>6, <2>7
<1> HIDE DEF c
<1>6. /\ u \in Seq(S) /\ Len(u) = m
      /\ \A i \in 1 .. m : u[i] = IF i <= k THEN c[i] ELSE b[i - k]
  <2>1. /\ u \in Seq(S) /\ Len(u) = Len(c) + Len(b)
        /\ \A i \in 1 .. Len(c) + Len(b) :
              u[i] = IF i <= Len(c) THEN c[i] ELSE b[i - Len(c)]
    BY <1>4, <1>5, ConcatProperties
  <2>2. Len(c) + Len(b) = m
    BY <1>1, <1>4, <1>5
  <2> QED BY <1>5, <2>1, <2>2
<1> HIDE DEF u
<1>7. k \in 1 .. m /\ u[k] = t
  BY <1>1, <1>5, <1>6
<1>8. \A i \in 1 .. k - 1 : i \in 1 .. m /\ i \in 1 .. Len(l) /\ u[i] = l[i]
  <2> TAKE i \in 1 .. k - 1
  <2>1. i \in 1 .. m /\ i \in 1 .. Len(l) /\ i <= k
    BY <1>1
  <2> QED BY <1>5, <1>6, <2>1
<1>9. \A i \in k .. Len(l) : i + 1 \in 1 .. m /\ i \in 1 .. Len(l) /\ u[i + 1] = l[i]
  <2> TAKE i \in k .. Len(l)
  <2>1. i + 1 \in 1 .. m /\ ~(i + 1 <= k) /\ (i + 1) - k \in 1 .. Len(l) - k + 1
        /\ k + ((i + 1) - k) - 1 = i /\ i \in 1 .. Len(l)
    BY <1>1
  <2> QED BY <1>4, <1>6, <2>1
<1>10. \A i \in 1 .. m : \/ i = k
                         \/ i \in 1 .. k - 1
                         \/ i - 1 \in k .. Len(l) /\ (i - 1) + 1 = i
  BY <1>1
<1>11. \A i \in 1 .. Len(l) : i \in 1 .. k - 1 \/ i \in k .. Len(l)
  BY <1>1
<1>12. Members(u) = Members(l) \cup {t}
  <2>1. ASSUME NEW x \in Members(u) PROVE x \in Members(l) \cup {t}
    <3>1. PICK i \in 1 .. m : u[i] = x
      BY <1>6 DEF Members
    <3>2. CASE i = k
      BY <1>7, <3>1, <3>2
    <3>3. CASE i \in 1 .. k - 1
      BY <1>8, <3>1, <3>3 DEF Members
    <3>4. CASE i - 1 \in k .. Len(l) /\ (i - 1) + 1 = i
      BY <1>9, <3>1, <3>4 DEF Members
    <3> QED BY <1>10, <3>2, <3>3, <3>4
  <2>2. t \in Members(u)
    BY <1>6, <1>7 DEF Members
  <2>3. ASSUME NEW x \in Members(l) PROVE x \in Members(u)
    <3>1. PICK i \in 1 .. Len(l) : l[i] = x
      BY DEF Members
    <3>2. \E j \in 1 .. m : u[j] = x
      BY <1>8, <1>9, <1>11, <3>1
    <3> QED BY <1>6, <3>2 DEF Members
  <2> QED BY <2>1, <2>2, <2>3
<1>13. Once(u)
  <2> SUFFICES ASSUME NEW i \in 1 .. m, NEW j \in 1 .. m, u[i] = u[j]
               PROVE  i = j
    BY <1>6 DEF Once
  <2>1. \A n \in 1 .. Len(l) : l[n] # t
    BY DEF Members
  <2>2. \A n \in 1 .. m : n # k => u[n] # t
    <3> SUFFICES ASSUME NEW n \in 1 .. m, n # k PROVE u[n] # t
      OBVIOUS
    <3>1. CASE n \in 1 .. k - 1
      BY <1>8, <2>1, <3>1
    <3>2. CASE n - 1 \in k .. Len(l) /\ (n - 1) + 1 = n
      BY <1>9, <2>1, <3>2
    <3> QED BY <1>10, <3>1, <3>2
  <2>3. CASE i = k
    BY <1>7, <2>3, <2>2
  <2>4. CASE j = k
    BY <1>7, <2>4, <2>2
  <2>5. CASE i # k /\ j # k
    <3>1. PICK p \in 1 .. Len(l) : u[i] = l[p] /\ (IF p \in 1 .. k - 1 THEN i = p ELSE i = p + 1)
      <4>1. CASE i \in 1 .. k - 1
        BY <1>8, <4>1
      <4>2. CASE i - 1 \in k .. Len(l) /\ (i - 1) + 1 = i
        <5>1. i - 1 \in 1 .. Len(l) /\ u[i] = l[i - 1]
          BY <1>9, <4>2
        <5>2. i - 1 \notin 1 .. k - 1
          BY <4>2
        <5> QED BY <4>2, <5>1, <5>2
      <4> QED BY <1>10, <2>5, <4>1, <4>2
    <3>2. PICK q \in 1 .. Len(l) : u[j] = l[q] /\ (IF q \in 1 .. k - 1 THEN j = q ELSE j = q + 1)
      <4>1. CASE j \in 1 .. k - 1
        BY <1>8, <4>1
      <4>2. CASE j - 1 \in k .. Len(l) /\ (j - 1) + 1 = j
        <5>1. j - 1 \in 1 .. Len(l) /\ u[j] = l[j - 1]
          BY <1>9, <4>2
        <5>2. j - 1 \notin 1 .. k - 1
          BY <4>2
        <5> QED BY <4>2, <5>1, <5>2
      <4> QED BY <1>10, <2>5, <4>1, <4>2
    <3>3. p = q
      BY <3>1, <3>2 DEF Once
    <3> QED BY <3>1, <3>2, <3>3
  <2> QED BY <2>3, <2>4, <2>5
<1>14. ASSUME NEW f \in [S -> Nat], Ordered(l, f),
              \A i \in 1 .. k - 1 : f[l[i]] <= f[t],
              \A i \in k .. Len(l) : f[t] <= f[l[i]]
       PROVE  Ordered(u, f)
  <2> SUFFICES ASSUME NEW i \in 1 .. m, NEW j \in 1 .. m, i < j
               PROVE  f[u[i]] <= f[u[j]]
    BY <1>6 DEF Ordered
  <2>1. i \in Int /\ j \in Int /\ k \in Int
    BY <1>1
  <2>2. CASE i \in 1 .. k - 1 /\ j \in 1 .. k - 1
    BY <1>8, <1>14, <2>2 DEF Ordered
  <2>3. CASE i \in 1 .. k - 1 /\ j = k
    BY <1>7, <1>8, <1>14, <2>3
  <2>4. CASE i \in 1 .. k - 1 /\ j - 1 \in k .. Len(l) /\ (j - 1) + 1 = j
    <3>1. u[i] = l[i] /\ u[j] = l[j - 1] /\ i \in 1 .. Len(l) /\ j - 1 \in 1 .. Len(l)
      BY <1>8, <1>9, <2>4
    <3>2. i < j - 1
      BY <1>1, <2>4
    <3> QED BY <1>14, <3>1, <3>2 DEF Ordered
  <2>5. CASE i = k /\ j - 1 \in k .. Len(l) /\ (j - 1) + 1 = j
    BY <1>7, <1>9, <1>14, <2>5
  <2>6. CASE i - 1 \in k .. Len(l) /\ (i - 1) + 1 = i /\ j - 1 \in k .. Len(l) /\ (j - 1) + 1 = j
    <3>1. u[i] = l[i - 1] /\ u[j] = l[j - 1] /\ i - 1 \in 1 .. Len(l) /\ j - 1 \in 1 .. Len(l)
      BY <1>9, <2>6
    <3>2. i - 1 < j - 1
      BY <2>1
    <3> QED BY <1>14, <3>1, <3>2 DEF Ordered
  <2>7. \/ i \in 1 .. k - 1 /\ j \in 1 .. k - 1
        \/ i \in 1 .. k - 1 /\ j = k
        \/ i \in 1 .. k - 1 /\ j - 1 \in k .. Len(l) /\ (j - 1) + 1 = j
        \/ i = k /\ j - 1 \in k .. Len(l) /\ (j - 1) + 1 = j
        \/ /\ i - 1 \in k .. Len(l) /\ (i - 1) + 1 = i
           /\ j - 1 \in k .. Len(l) /\ (j - 1) + 1 = j
    BY <1>1
  <2> QED BY <2>2, <2>3, <2>4, <2>5, <2>6, <2>7
<1> QED BY <1>2, <1>6, <1>12, <1>13, <1>14

-----------------------------------------------------------------------------
(* What the assignments of the operations change.                          *)
LEMMA StopFields ==
    ASSUME NEW s \in TimerState, NEW t \in Timers, s.active[t]
    PROVE  /\ Stop(s, t).lists = [q \in Queues |-> Without(s.lists[q], t)]
           /\ Stop(s, t).active = [s.active EXCEPT ![t] = FALSE]
           /\ Stop(s, t).target = s.target /\ Stop(s, t).left = s.left
           /\ Stop(s, t).fired = s.fired
           /\ (Stop(s, t).lists \in [Queues -> Seq(Timers)] => Stop(s, t) \in TimerState)
BY DEF TimerState, Stop

(* The record of the timers with one field replaced.                       *)
LEMMA ListFields ==
    ASSUME NEW s \in TimerState, NEW q \in Queues, NEW x \in Seq(Timers)
    PROVE  LET r == [s EXCEPT !.lists[q] = x] IN
           /\ r \in TimerState /\ r.lists = [s.lists EXCEPT ![q] = x]
           /\ r.target = s.target /\ r.left = s.left
           /\ r.active = s.active /\ r.fired = s.fired
BY DEF TimerState

(* A callback is counted.                                                  *)
LEMMA FiredFields ==
    ASSUME NEW s \in TimerState, NEW t \in Timers
    PROVE  LET r == [s EXCEPT !.fired[t] = IF Repeat[t] = 0 THEN @ ELSE @ + 1]
           IN  /\ r \in TimerState
               /\ r.lists = s.lists /\ r.target = s.target /\ r.left = s.left
               /\ r.active = s.active
               /\ r.fired = [s.fired EXCEPT ![t] = IF Repeat[t] = 0 THEN @ ELSE @ + 1]
<1> DEFINE y == IF Repeat[t] = 0 THEN s.fired[t] ELSE s.fired[t] + 1
           r == [s EXCEPT !.fired[t] = y]
<1>1. s.fired[t] \in Nat /\ y \in Nat
  BY DEF TimerState
<1>2. r = [s EXCEPT !.fired[t] = IF Repeat[t] = 0 THEN @ ELSE @ + 1]
  BY DEF TimerState
<1>3. [s.fired EXCEPT ![t] = y] = [s.fired EXCEPT ![t] = IF Repeat[t] = 0 THEN @ ELSE @ + 1]
  OBVIOUS
<1> HIDE DEF y
<1>4. /\ r \in TimerState
      /\ r.lists = s.lists /\ r.target = s.target /\ r.left = s.left
      /\ r.active = s.active /\ r.fired = [s.fired EXCEPT ![t] = y]
  BY <1>1 DEF TimerState
<1> QED BY <1>2, <1>3, <1>4

(* A timer becomes inactive.                                               *)
LEMMA OffFields ==
    ASSUME NEW s \in TimerState, NEW t \in Timers
    PROVE  LET r == [s EXCEPT !.active[t] = FALSE]
           IN  /\ r \in TimerState
               /\ r.lists = s.lists /\ r.target = s.target /\ r.left = s.left
               /\ r.active = [s.active EXCEPT ![t] = FALSE] /\ r.fired = s.fired
BY DEF TimerState

(* A sum of clock values is one.                                           *)
LEMMA PlusClock == ASSUME NEW a \in Nat, NEW b \in Nat
    PROVE  Plus(a, b) \in ClockValues /\ Plus(a, b) \in Nat
BY TimerAssumption DEF Plus, ClockValues

-----------------------------------------------------------------------------
(* A list loses its head, and gets a timer at its end.                     *)
LEMMA ListTail ==
    ASSUME NEW S, NEW l \in Seq(S), l # <<>>, Once(l)
    PROVE  LET u == Tail(l) IN
           /\ u \in Seq(S) /\ Once(u) /\ Members(u) = Members(l) \ {Head(l)}
           /\ Head(l) \in Members(l)
           /\ \A f \in [S -> Nat] : Ordered(l, f) => Ordered(u, f)
<1> DEFINE u == Tail(l)
           m == Len(l) - 1
<1>1. Len(l) \in Nat \ {0} /\ \A i \in 1 .. Len(l) : l[i] \in S
  BY ListElements, EmptySeq
<1>2. /\ u \in Seq(S) /\ Len(u) = m /\ Head(l) = l[1]
      /\ \A i \in 1 .. m : u[i] = l[i + 1]
  BY <1>1, HeadTailProperties
<1>3. /\ m \in Nat /\ 1 \in 1 .. Len(l)
      /\ \A i \in 1 .. m : i + 1 \in 1 .. Len(l) /\ i + 1 # 1
      /\ \A n \in 1 .. Len(l) : n # 1 => n - 1 \in 1 .. m /\ (n - 1) + 1 = n
      /\ \A i, j \in 1 .. m : (i < j => i + 1 < j + 1) /\ (i + 1 = j + 1 => i = j)
  BY <1>1
<1> HIDE DEF u, m
<1>4. Head(l) \in Members(l)
  BY <1>2, <1>3 DEF Members
<1>5. Once(u)
  <2> SUFFICES ASSUME NEW i \in 1 .. m, NEW j \in 1 .. m, u[i] = u[j]
               PROVE  i = j
    BY <1>2 DEF Once
  <2>1. l[i + 1] = l[j + 1] /\ i + 1 \in 1 .. Len(l) /\ j + 1 \in 1 .. Len(l)
    BY <1>2, <1>3
  <2>2. i + 1 = j + 1
    BY <2>1 DEF Once
  <2> QED BY <1>3, <2>2
<1>6. Members(u) = Members(l) \ {Head(l)}
  <2>1. ASSUME NEW x \in Members(u) PROVE x \in Members(l) \ {Head(l)}
    BY <1>2, <1>3 DEF Members, Once
  <2>2. ASSUME NEW x \in Members(l) \ {Head(l)} PROVE x \in Members(u)
    <3>1. PICK n \in 1 .. Len(l) : l[n] = x
      BY DEF Members
    <3>2. n - 1 \in 1 .. m /\ u[n - 1] = x
      BY <1>2, <1>3, <3>1
    <3> QED BY <1>2, <3>2 DEF Members
  <2> QED BY <2>1, <2>2
<1>7. ASSUME NEW f \in [S -> Nat], Ordered(l, f) PROVE Ordered(u, f)
  <2> SUFFICES ASSUME NEW i \in 1 .. m, NEW j \in 1 .. m, i < j
               PROVE  f[u[i]] <= f[u[j]]
    BY <1>2 DEF Ordered
  <2>1. f[l[i + 1]] <= f[l[j + 1]]
    BY <1>3, <1>7 DEF Ordered
  <2> QED BY <1>2, <2>1
<1> QED BY <1>2, <1>4, <1>5, <1>6, <1>7 DEF u

(* A timer goes to the end of a list.                                      *)
LEMMA ListAppend ==
    ASSUME NEW S, NEW l \in Seq(S), NEW t \in S, Once(l), t \notin Members(l)
    PROVE  LET u == Append(l, t) IN
           u \in Seq(S) /\ Once(u) /\ Members(u) = Members(l) \cup {t}
<1> DEFINE u == Append(l, t)
           m == Len(l) + 1
<1>1. Len(l) \in Nat /\ \A i \in 1 .. Len(l) : l[i] \in S /\ l[i] # t
  BY ListElements
<1>2. /\ u \in Seq(S) /\ Len(u) = m /\ u[m] = t
      /\ \A i \in 1 .. Len(l) : u[i] = l[i]
  BY <1>1, AppendProperties
<1>3. /\ m \in 1 .. m
      /\ \A i \in 1 .. Len(l) : i \in 1 .. m /\ i # m
      /\ \A i \in 1 .. m : i = m \/ i \in 1 .. Len(l)
  BY <1>1
<1> HIDE DEF u, m
<1>4. Once(u)
  <2> SUFFICES ASSUME NEW i \in 1 .. m, NEW j \in 1 .. m, u[i] = u[j]
               PROVE  i = j
    BY <1>2 DEF Once
  <2>1. CASE i = m
    BY <1>1, <1>2, <1>3, <2>1
  <2>2. CASE j = m
    BY <1>1, <1>2, <1>3, <2>2
  <2>3. CASE i # m /\ j # m
    BY <1>2, <1>3, <2>3 DEF Once
  <2> QED BY <2>1, <2>2, <2>3
<1>5. Members(u) = Members(l) \cup {t}
  <2>1. ASSUME NEW x \in Members(u) PROVE x \in Members(l) \cup {t}
    BY <1>2, <1>3 DEF Members
  <2>2. ASSUME NEW x \in Members(l) PROVE x \in Members(u)
    BY <1>2, <1>3 DEF Members
  <2>3. t \in Members(u)
    BY <1>2, <1>3 DEF Members
  <2> QED BY <2>1, <2>2, <2>3
<1> QED BY <1>2, <1>4, <1>5 DEF u

-----------------------------------------------------------------------------
(* The fields of the record.                                               *)
LEMMA StateFields ==
    ASSUME NEW s \in TimerState
    PROVE  /\ s.lists \in [Queues -> Seq(Timers)]
           /\ \A q \in Queues : s.lists[q] \in Seq(Timers)
           /\ s.target \in [Timers -> ClockValues] /\ s.target \in [Timers -> Nat]
           /\ s.left \in [Timers -> Nat] /\ s.fired \in [Timers -> Nat]
           /\ s.active \in [Timers -> BOOLEAN]
           /\ "active" \in Queues /\ "normal" \in Queues /\ "low" \in Queues
BY TimerAssumption DEF TimerState, Queues, ClockValues

(* A timer that is in no list may get any target.                          *)
LEMMA TargetFree ==
    ASSUME NEW l \in Seq(Timers), NEW f \in [Timers -> Nat], NEW t \in Timers, NEW x \in Nat,
           Ordered(l, f), t \notin Members(l)
    PROVE  Ordered(l, [f EXCEPT ![t] = x])
<1>1. \A i \in 1 .. Len(l) : l[i] \in Timers /\ l[i] # t
  BY ListElements
<1> DEFINE g == [f EXCEPT ![t] = x]
<1>2. \A i \in 1 .. Len(l) : g[l[i]] = f[l[i]]
  BY <1>1
<1> HIDE DEF g
<1>3. Ordered(l, g)
  BY <1>2 DEF Ordered
<1> QED BY <1>3 DEF g

(* sw_timer_stop.                                                          *)
LEMMA StopLined ==
    ASSUME NEW s, NEW away, NEW t \in Timers, Lined(s, away)
    PROVE  /\ Lined(Stop(s, t), away)
           /\ Stop(s, t).active = [s.active EXCEPT ![t] = FALSE]
           /\ Stop(s, t).target = s.target /\ Stop(s, t).left = s.left
           /\ Stop(s, t).fired = s.fired
<1>1. s \in TimerState
  BY DEF Lined
<1>2. CASE ~s.active[t]
  <2>1. Stop(s, t) = s
    BY <1>2 DEF Stop
  <2>2. [s.active EXCEPT ![t] = FALSE] = s.active
    BY <1>1, <1>2, StateFields
  <2> QED BY <2>1, <2>2
<1>3. CASE s.active[t]
  <2> DEFINE r == Stop(s, t)
  <2>1. /\ r.lists = [q \in Queues |-> Without(s.lists[q], t)]
        /\ r.active = [s.active EXCEPT ![t] = FALSE]
        /\ r.target = s.target /\ r.left = s.left /\ r.fired = s.fired
        /\ (r.lists \in [Queues -> Seq(Timers)] => r \in TimerState)
    BY <1>1, <1>3, StopFields
  <2> HIDE DEF r
  <2>2. ASSUME NEW q \in Queues
        PROVE  /\ r.lists[q] \in Seq(Timers) /\ Once(r.lists[q])
               /\ Members(r.lists[q]) = Members(s.lists[q]) \ {t}
               /\ \A f \in [Timers -> Nat] : Ordered(s.lists[q], f) => Ordered(r.lists[q], f)
    <3>1. s.lists[q] \in Seq(Timers) /\ Once(s.lists[q])
      BY <1>1, StateFields DEF Lined, Placed
    <3>2. r.lists[q] = Without(s.lists[q], t)
      BY <2>1
    <3> QED BY <3>1, <3>2, ListWithout
  <2>3. r \in TimerState
    BY <2>1, <2>2
  <2>4. Placed(r.lists, r.active, away)
    <3>1. \A u \in Timers : r.active[u] <=> s.active[u] /\ u # t
      BY <1>1, <2>1, StateFields
    <3>2. \A q \in Queues : Once(r.lists[q]) /\ Members(r.lists[q]) \subseteq {u \in Timers : r.active[u]} \ away
      BY <2>2, <3>1 DEF Lined, Placed
    <3>3. \A q, p \in Queues : q # p => Members(r.lists[q]) \cap Members(r.lists[p]) = {}
      BY <2>2 DEF Lined, Placed
    <3>4. \A u \in Timers : r.active[u] => u \in away \/ \E q \in Queues : u \in Members(r.lists[q])
      BY <2>2, <3>1 DEF Lined, Placed
    <3> QED BY <3>2, <3>3, <3>4 DEF Placed
  <2>5. Ordered(r.lists["active"], r.target)
    BY <1>1, <2>1, <2>2, StateFields DEF Lined
  <2> QED BY <2>1, <2>3, <2>4, <2>5 DEF Lined, r
<1> QED BY <1>2, <1>3

(* Numbers have a least one.                                               *)
LEMMA LeastIn ==
    ASSUME NEW S, S \subseteq Nat, S # {}
    PROVE  \E i \in S : \A j \in S : i <= j
<1> DEFINE R == OpToRel(<, Nat)
<1>1. IsWellFoundedOn(R, Nat)
  BY NatLessThanWellFounded
<1>2. \A x, y \in Nat : y < x => <<y, x>> \in R
  BY DEF OpToRel
<1> HIDE DEF R
<1>3. PICK x \in S : \A y \in S : ~(<<y, x>> \in R)
  BY <1>1, WFMin
<1>4. \A y \in S : x <= y
  <2> TAKE y \in S
  <2>1. x \in Nat /\ y \in Nat
    OBVIOUS
  <2>2. ~(y < x)
    BY <1>2, <1>3, <2>1
  <2> QED BY <2>1, <2>2
<1> QED BY <1>4

(* active_list_insert of a timer that is in no list.                       *)
LEMMA InsertLined ==
    ASSUME NEW s, NEW away, NEW t \in Timers, Lined(s, away), t \in away, s.active[t]
    PROVE  /\ Lined(Insert(s, t), away \ {t})
           /\ Insert(s, t).active = s.active /\ Insert(s, t).target = s.target
           /\ Insert(s, t).left = s.left /\ Insert(s, t).fired = s.fired
<1>1. s \in TimerState
  BY DEF Lined
<1> DEFINE l == s.lists["active"]
           later == {i \in 1 .. Len(l) : s.target[l[i]] > s.target[t]}
           k == IF later = {} THEN Len(l) + 1 ELSE CHOOSE i \in later : \A j \in later : i <= j
           u == InsertAt(l, k, t)
           r == [s EXCEPT !.lists["active"] = u]
<1>2. /\ l \in Seq(Timers) /\ Len(l) \in Nat /\ Once(l)
      /\ \A i \in 1 .. Len(l) : l[i] \in Timers
      /\ t \notin Members(l) /\ Ordered(l, s.target)
      /\ s.target \in [Timers -> Nat]
  BY <1>1, StateFields, ListElements DEF Lined, Placed
<1>3. Insert(s, t) = r
  BY DEF Insert
<1> HIDE DEF l
<1>4. /\ k \in 1 .. Len(l) + 1
      /\ \A i \in 1 .. k - 1 : s.target[l[i]] <= s.target[t]
      /\ \A i \in k .. Len(l) : s.target[t] <= s.target[l[i]]
  <2>1. \A i \in 1 .. Len(l) : s.target[l[i]] \in Nat
    BY <1>2
  <2>2. s.target[t] \in Nat
    BY <1>2
  <2>3. CASE later = {}
    <3>1. k = Len(l) + 1
      BY <2>3
    <3>2. \A i \in 1 .. Len(l) : ~(s.target[l[i]] > s.target[t])
      BY <2>3
    <3> HIDE DEF k, later
    <3> QED BY <1>2, <2>1, <2>2, <3>1, <3>2
  <2>4. CASE later # {}
    <3>1. \E i \in later : \A j \in later : i <= j
      <4>1. later \subseteq Nat
        BY <1>2
      <4> HIDE DEF later
      <4> QED BY <2>4, <4>1, LeastIn
    <3>2. k \in later /\ \A j \in later : k <= j
      BY <2>4, <3>1
    <3>3. k \in 1 .. Len(l) /\ s.target[l[k]] > s.target[t]
      BY <3>2
    <3>4. \A i \in 1 .. Len(l) : i < k => ~(s.target[l[i]] > s.target[t])
      <4> SUFFICES ASSUME NEW i \in 1 .. Len(l), i < k, s.target[l[i]] > s.target[t]
                   PROVE  FALSE
        OBVIOUS
      <4>1. i \in later
        OBVIOUS
      <4>2. k <= i
        BY <3>2, <4>1
      <4> HIDE DEF k
      <4> QED BY <1>2, <3>3, <4>2
    <3> HIDE DEF k, later
    <3>5. \A i \in k .. Len(l) : s.target[t] <= s.target[l[i]]
      <4> TAKE i \in k .. Len(l)
      <4>1. i \in 1 .. Len(l) /\ (i = k \/ k < i)
        BY <1>2, <3>3
      <4>2. s.target[l[k]] <= s.target[l[i]]
        BY <1>2, <2>1, <3>3, <4>1 DEF Ordered
      <4> QED BY <2>1, <2>2, <3>3, <4>1, <4>2
    <3>6. \A i \in 1 .. k - 1 : s.target[l[i]] <= s.target[t]
      <4> TAKE i \in 1 .. k - 1
      <4>1. i \in 1 .. Len(l) /\ i < k
        BY <1>2, <3>3
      <4> QED BY <2>1, <2>2, <3>4, <4>1
    <3> QED BY <1>2, <3>3, <3>5, <3>6
  <2> QED BY <2>3, <2>4
<1> HIDE DEF k
<1>5. /\ u \in Seq(Timers) /\ Once(u) /\ Members(u) = Members(l) \cup {t}
      /\ Ordered(u, s.target)
  <2> DEFINE f == s.target
  <2>1. /\ f \in [Timers -> Nat] /\ Ordered(l, f)
        /\ \A i \in 1 .. k - 1 : f[l[i]] <= f[t]
        /\ \A i \in k .. Len(l) : f[t] <= f[l[i]]
    BY <1>2, <1>4
  <2> HIDE DEF f
  <2>2. /\ u \in Seq(Timers) /\ Once(u) /\ Members(u) = Members(l) \cup {t}
        /\ \A g \in [Timers -> Nat] :
              /\ Ordered(l, g)
              /\ \A i \in 1 .. k - 1 : g[l[i]] <= g[t]
              /\ \A i \in k .. Len(l) : g[t] <= g[l[i]]
              => Ordered(u, g)
    BY <1>2, <1>4, ListInsert
  <2> HIDE DEF u
  <2>3. Ordered(u, f)
    BY <2>1, <2>2
  <2> QED BY <2>2, <2>3 DEF f
<1> HIDE DEF u
<1>6. /\ r \in TimerState /\ r.lists = [s.lists EXCEPT !["active"] = u]
      /\ r.target = s.target /\ r.left = s.left
      /\ r.active = s.active /\ r.fired = s.fired
  BY <1>1, <1>5, ListFields, StateFields
<1> HIDE DEF r
<1>7. /\ r.lists["active"] = u
      /\ \A q \in Queues : q # "active" => r.lists[q] = s.lists[q]
  BY <1>1, <1>6, StateFields
<1>8. Placed(r.lists, r.active, away \ {t})
  <2>1. \A q \in Queues : Once(r.lists[q])
    BY <1>5, <1>7 DEF Lined, Placed
  <2>2. /\ Members(r.lists["active"]) = Members(s.lists["active"]) \cup {t}
        /\ \A q \in Queues : q # "active" => Members(r.lists[q]) = Members(s.lists[q])
    BY <1>5, <1>7 DEF l
  <2>3. \A q \in Queues : t \notin Members(s.lists[q])
    BY DEF Lined, Placed
  <2>4. \A q \in Queues : Members(r.lists[q]) \subseteq {x \in Timers : r.active[x]} \ (away \ {t})
    <3> TAKE q \in Queues
    <3>1. Members(s.lists[q]) \subseteq {x \in Timers : s.active[x]} \ away
      BY DEF Lined, Placed
    <3> QED BY <1>6, <2>2, <3>1
  <2>5. \A q, p \in Queues : q # p => Members(r.lists[q]) \cap Members(r.lists[p]) = {}
    <3> SUFFICES ASSUME NEW q \in Queues, NEW p \in Queues, q # p
                 PROVE  Members(r.lists[q]) \cap Members(r.lists[p]) = {}
      OBVIOUS
    <3>1. Members(s.lists[q]) \cap Members(s.lists[p]) = {}
      BY DEF Lined, Placed
    <3> QED BY <2>2, <2>3, <3>1
  <2>6. \A x \in Timers : r.active[x] =>
             x \in away \ {t} \/ \E q \in Queues : x \in Members(r.lists[q])
    <3> SUFFICES ASSUME NEW x \in Timers, r.active[x], x \notin away \ {t}
                 PROVE  \E q \in Queues : x \in Members(r.lists[q])
      OBVIOUS
    <3>1. CASE x = t
      BY <1>1, <2>2, <3>1, StateFields
    <3>2. CASE x # t
      <4>1. \E q \in Queues : x \in Members(s.lists[q])
        BY <1>6, <3>2 DEF Lined, Placed
      <4> QED BY <2>2, <4>1
    <3> QED BY <3>1, <3>2
  <2> QED BY <2>1, <2>4, <2>5, <2>6 DEF Placed
<1>9. Ordered(r.lists["active"], r.target)
  BY <1>5, <1>6, <1>7
<1> QED BY <1>3, <1>6, <1>8, <1>9 DEF Lined

(* sw_timer_start, of a timer that is not being called back.               *)
LEMMA StartKept ==
    ASSUME NEW s0, NEW away, NEW t \in Timers, Kept(s0, away), t \notin away, tick \in Nat
    PROVE  Kept(Start(s0, t), away)
<1> DEFINE s == Stop(s0, t)
           x == Plus(tick, Period[t])
           y == Repeat[t]
           r == [s EXCEPT !.target[t] = x, !.left[t] = y, !.active[t] = TRUE, !.fired[t] = 0]
           u == Insert(r, t)
<1>1. Start(s0, t) = u
  BY DEF Start
<1>2. /\ Lined(s, away) /\ s.active = [s0.active EXCEPT ![t] = FALSE]
      /\ s.left = s0.left /\ s.fired = s0.fired
  BY StopLined DEF Kept
<1>3. s0 \in TimerState /\ s \in TimerState
  BY <1>2 DEF Kept, Lined
<1>4. ~s.active[t]
  BY <1>2, <1>3, StateFields
<1> HIDE DEF s
<1>5. x \in ClockValues /\ x \in Nat /\ y \in Nat
  <2>1. Period[t] \in Nat /\ Repeat[t] \in Nat
    BY TimerAssumption
  <2> QED BY <2>1, PlusClock
<1> HIDE DEF x, y
<1>6. /\ r \in TimerState
      /\ r.lists = s.lists /\ r.target = [s.target EXCEPT ![t] = x]
      /\ r.left = [s.left EXCEPT ![t] = y]
      /\ r.active = [s.active EXCEPT ![t] = TRUE]
      /\ r.fired = [s.fired EXCEPT ![t] = 0]
  BY <1>3, <1>5 DEF TimerState
<1> HIDE DEF r
<1>7. \A q \in Queues : t \notin Members(s.lists[q])
  BY <1>2, <1>4 DEF Lined, Placed
<1>8. Lined(r, away \cup {t})
  <2>1. Ordered(r.lists["active"], r.target)
    BY <1>2, <1>3, <1>5, <1>6, <1>7, StateFields, TargetFree DEF Lined
  <2>2. \A v \in Timers : r.active[v] <=> s.active[v] \/ v = t
    BY <1>3, <1>6, StateFields
  <2>3. Placed(r.lists, r.active, away \cup {t})
    <3>1. \A q \in Queues : /\ Once(r.lists[q])
                            /\ Members(r.lists[q]) \subseteq {v \in Timers : r.active[v]} \ (away \cup {t})
      BY <1>2, <1>6, <1>7, <2>2 DEF Lined, Placed
    <3>2. \A q, p \in Queues : q # p => Members(r.lists[q]) \cap Members(r.lists[p]) = {}
      BY <1>2, <1>6 DEF Lined, Placed
    <3>3. \A v \in Timers : r.active[v] =>
               v \in away \cup {t} \/ \E q \in Queues : v \in Members(r.lists[q])
      BY <1>2, <1>6, <2>2 DEF Lined, Placed
    <3> QED BY <3>1, <3>2, <3>3 DEF Placed
  <2> QED BY <1>6, <2>1, <2>3 DEF Lined
<1>9. r.active[t]
  BY <1>3, <1>6, StateFields
<1>10. /\ Lined(u, (away \cup {t}) \ {t})
       /\ u.active = r.active /\ u.left = r.left /\ u.fired = r.fired
  BY <1>8, <1>9, InsertLined
<1>11. (away \cup {t}) \ {t} = away
  OBVIOUS
<1> HIDE DEF u
<1>12. Counted(u, away)
  <2> SUFFICES ASSUME NEW v \in Timers
               PROVE  /\ u.left[v] <= Repeat[v] /\ u.fired[v] <= Repeat[v]
                      /\ Repeat[v] # 0 /\ u.active[v] =>
                            /\ u.left[v] >= 1
                            /\ u.fired[v] + u.left[v] = Repeat[v] + (IF v \in away THEN 1 ELSE 0)
    BY DEF Counted
  <2>1. Repeat[v] \in Nat
    BY TimerAssumption
  <2>2. CASE v = t
    <3>1. u.left[v] = Repeat[v] /\ u.fired[v] = 0
      BY <1>3, <1>6, <1>10, <2>2, StateFields DEF y
    <3> QED BY <2>1, <2>2, <3>1
  <2>3. CASE v # t
    <3>1. u.left[v] = s0.left[v] /\ u.fired[v] = s0.fired[v] /\ u.active[v] = s0.active[v]
      <4>1. s.active[v] = s0.active[v] /\ u.active[v] = s.active[v]
        BY <1>2, <1>3, <1>6, <1>10, <2>3, StateFields
      <4>2. u.left[v] = s.left[v] /\ u.fired[v] = s.fired[v]
        BY <1>3, <1>6, <1>10, <2>3, StateFields
      <4> QED BY <1>2, <4>1, <4>2
    <3> QED BY <3>1 DEF Kept, Counted
  <2> QED BY <2>2, <2>3
<1> QED BY <1>1, <1>10, <1>11, <1>12 DEF Kept

(* sw_timer_stop keeps the lists.                                          *)
LEMMA StopKept ==
    ASSUME NEW s, NEW away, NEW t \in Timers, Kept(s, away)
    PROVE  Kept(Stop(s, t), away)
<1> DEFINE r == Stop(s, t)
<1>1. /\ Lined(r, away) /\ r.active = [s.active EXCEPT ![t] = FALSE]
      /\ r.left = s.left /\ r.fired = s.fired
  BY StopLined DEF Kept
<1>2. s \in TimerState
  BY DEF Kept, Lined
<1> HIDE DEF r
<1>3. \A v \in Timers : r.active[v] => s.active[v]
  BY <1>1, <1>2, StateFields
<1>4. Counted(r, away)
  BY <1>1, <1>3 DEF Kept, Counted
<1> QED BY <1>1, <1>4 DEF Kept, r

(* What a callback does.                                                   *)
LEMMA EffectKept ==
    ASSUME NEW s, NEW t \in Timers, NEW e \in Effects(t), Kept(s, {t}), tick \in Nat
    PROVE  Kept(Effect(s, e), {t})
<1>1. \/ e.op = "none"
      \/ e.op = "stop" /\ e.who \in Timers
      \/ e.op = "start" /\ e.who \in Timers /\ e.who \notin {t}
  BY DEF Effects
<1>2. CASE e.op = "none"
  BY <1>2 DEF Effect
<1>3. CASE e.op = "stop" /\ e.who \in Timers
  BY <1>3, StopKept DEF Effect
<1>4. CASE e.op = "start" /\ e.who \in Timers /\ e.who \notin {t}
  BY <1>4, StartKept DEF Effect
<1> QED BY <1>1, <1>2, <1>3, <1>4

(* The callback of a timer that has been taken off its list, and what      *)
(* follows it.                                                             *)
LEMMA CalledBackKept ==
    ASSUME NEW s0, NEW t \in Timers, NEW e \in Effects(t), tick \in Nat,
           Lined(s0, {t}), Counted(s0, {}), s0.active[t]
    PROVE  Kept(CalledBack(s0, t, e), {})
<1> DEFINE f == [s0 EXCEPT !.fired[t] = IF Repeat[t] = 0 THEN @ ELSE @ + 1]
           s == Effect(f, e)
           x == LET next == Plus(s.target[t], Period[t])
                IN  IF After(next, tick) THEN next ELSE Plus(tick, Period[t])
           r == [s EXCEPT !.left[t] = IF @ > 1 THEN @ - 1 ELSE @, !.target[t] = x]
           off == [s EXCEPT !.active[t] = FALSE]
           u == Insert(r, t)
<1>1. CalledBack(s0, t, e) = IF s.active[t] /\ GoesOn(s.left[t]) THEN u ELSE off
  BY DEF CalledBack, Rearm
<1>2. s0 \in TimerState
  BY DEF Lined
<1>3. Kept(f, {t})
  <2>1. /\ f \in TimerState
        /\ f.lists = s0.lists /\ f.target = s0.target /\ f.left = s0.left
        /\ f.active = s0.active
        /\ f.fired = [s0.fired EXCEPT ![t] = IF Repeat[t] = 0 THEN @ ELSE @ + 1]
    BY <1>2, FiredFields
  <2> HIDE DEF f
  <2>2. Lined(f, {t})
    BY <2>1 DEF Lined
  <2>3. Counted(f, {t})
    <3> SUFFICES ASSUME NEW v \in Timers
                 PROVE  /\ f.left[v] <= Repeat[v] /\ f.fired[v] <= Repeat[v]
                        /\ Repeat[v] # 0 /\ f.active[v] =>
                              /\ f.left[v] >= 1
                              /\ f.fired[v] + f.left[v] = Repeat[v] + (IF v \in {t} THEN 1 ELSE 0)
      BY DEF Counted
    <3>1. /\ s0.left[v] <= Repeat[v] /\ s0.fired[v] <= Repeat[v]
          /\ Repeat[v] # 0 /\ s0.active[v] =>
                s0.left[v] >= 1 /\ s0.fired[v] + s0.left[v] = Repeat[v] + 0
      BY DEF Counted
    <3>2. Repeat[v] \in Nat /\ s0.left[v] \in Nat /\ s0.fired[v] \in Nat
      BY <1>2, StateFields, TimerAssumption
    <3>3. CASE v = t
      <4>1. f.fired[v] = IF Repeat[v] = 0 THEN s0.fired[v] ELSE s0.fired[v] + 1
        BY <1>2, <2>1, <3>3, StateFields
      <4>2. f.left[v] = s0.left[v] /\ s0.active[v]
        BY <2>1, <3>3
      <4> QED BY <3>1, <3>2, <3>3, <4>1, <4>2
    <3>4. CASE v # t
      <4>1. f.fired[v] = s0.fired[v] /\ f.left[v] = s0.left[v] /\ f.active[v] = s0.active[v]
        BY <1>2, <2>1, <3>4, StateFields
      <4> QED BY <3>1, <3>4, <4>1
    <3> QED BY <3>3, <3>4
  <2> QED BY <2>2, <2>3 DEF Kept
<1> HIDE DEF f
<1>4. Kept(s, {t})
  BY <1>3, EffectKept
<1> HIDE DEF s
<1>5. s \in TimerState /\ Lined(s, {t})
  BY <1>4 DEF Kept, Lined
<1>6. \A q \in Queues : t \notin Members(s.lists[q])
  BY <1>5 DEF Lined, Placed
<1>7. \A v \in Timers : /\ Repeat[v] \in Nat /\ s.left[v] \in Nat /\ s.fired[v] \in Nat
                        /\ s.left[v] <= Repeat[v] /\ s.fired[v] <= Repeat[v]
                        /\ Repeat[v] # 0 /\ s.active[v] =>
                              /\ s.left[v] >= 1
                              /\ s.fired[v] + s.left[v] = Repeat[v] + (IF v = t THEN 1 ELSE 0)
  BY <1>4, <1>5, StateFields, TimerAssumption DEF Kept, Counted
<1>8. CASE s.active[t] /\ GoesOn(s.left[t])
  <2>1. x \in ClockValues /\ x \in Nat
    <3>1. s.target[t] \in Nat /\ Period[t] \in Nat
      BY <1>5, StateFields, TimerAssumption
    <3>2. /\ Plus(s.target[t], Period[t]) \in ClockValues
          /\ Plus(tick, Period[t]) \in ClockValues
          /\ Plus(s.target[t], Period[t]) \in Nat
          /\ Plus(tick, Period[t]) \in Nat
      BY <3>1, PlusClock
    <3>3. x = Plus(s.target[t], Period[t]) \/ x = Plus(tick, Period[t])
      OBVIOUS
    <3> HIDE DEF x
    <3> QED BY <3>2, <3>3
  <2> HIDE DEF x
  <2>2. /\ r \in TimerState
        /\ r.lists = s.lists /\ r.target = [s.target EXCEPT ![t] = x]
        /\ r.left = [s.left EXCEPT ![t] = IF @ > 1 THEN @ - 1 ELSE @]
        /\ r.active = s.active /\ r.fired = s.fired
    <3> DEFINE y == IF s.left[t] > 1 THEN s.left[t] - 1 ELSE s.left[t]
               q == [s EXCEPT !.left[t] = y, !.target[t] = x]
    <3>1. s.left[t] \in Nat /\ y \in Nat
      BY <1>7
    <3>2. q = r
      BY <1>5 DEF TimerState
    <3>3. [s.left EXCEPT ![t] = y] = [s.left EXCEPT ![t] = IF @ > 1 THEN @ - 1 ELSE @]
      OBVIOUS
    <3> HIDE DEF y
    <3>4. /\ q \in TimerState
          /\ q.lists = s.lists /\ q.target = [s.target EXCEPT ![t] = x]
          /\ q.left = [s.left EXCEPT ![t] = y]
          /\ q.active = s.active /\ q.fired = s.fired
      BY <1>5, <2>1, <3>1 DEF TimerState
    <3> HIDE DEF q, r
    <3> QED BY <3>2, <3>3, <3>4
  <2> HIDE DEF r
  <2>3. Ordered(r.lists["active"], r.target)
    <3>1. /\ s.lists["active"] \in Seq(Timers) /\ s.target \in [Timers -> Nat]
          /\ t \notin Members(s.lists["active"]) /\ Ordered(s.lists["active"], s.target)
      BY <1>5, <1>6, StateFields DEF Lined
    <3> QED BY <2>1, <2>2, <3>1, TargetFree
  <2>4. Lined(r, {t})
    BY <1>5, <2>2, <2>3 DEF Lined
  <2>5. /\ Lined(u, {t} \ {t})
        /\ u.active = r.active /\ u.left = r.left /\ u.fired = r.fired
    BY <1>8, <2>2, <2>4, InsertLined
  <2>6. {t} \ {t} = {}
    OBVIOUS
  <2> HIDE DEF u
  <2>7. Counted(u, {})
    <3> SUFFICES ASSUME NEW v \in Timers
                 PROVE  /\ u.left[v] <= Repeat[v] /\ u.fired[v] <= Repeat[v]
                        /\ Repeat[v] # 0 /\ u.active[v] =>
                              u.left[v] >= 1 /\ u.fired[v] + u.left[v] = Repeat[v] + 0
      BY DEF Counted
    <3>1. u.fired[v] = s.fired[v] /\ u.active[v] = s.active[v]
      BY <2>2, <2>5
    <3>2. CASE v = t
      <4>1. u.left[v] = IF s.left[v] > 1 THEN s.left[v] - 1 ELSE s.left[v]
        BY <1>5, <2>2, <2>5, <3>2, StateFields
      <4>2. s.left[v] = 0 \/ s.left[v] > 1
        BY <1>8, <3>2 DEF GoesOn
      <4> QED BY <1>7, <3>1, <3>2, <4>1, <4>2
    <3>3. CASE v # t
      <4>1. u.left[v] = s.left[v]
        BY <1>5, <2>2, <2>5, <3>3, StateFields
      <4> QED BY <1>7, <3>1, <3>3, <4>1
    <3> QED BY <3>2, <3>3
  <2> QED BY <1>1, <1>8, <2>5, <2>6, <2>7 DEF Kept
<1>9. CASE ~(s.active[t] /\ GoesOn(s.left[t]))
  <2>1. /\ off \in TimerState
        /\ off.lists = s.lists /\ off.target = s.target /\ off.left = s.left
        /\ off.active = [s.active EXCEPT ![t] = FALSE] /\ off.fired = s.fired
    BY <1>5, OffFields
  <2> HIDE DEF off
  <2>2. \A v \in Timers : off.active[v] <=> s.active[v] /\ v # t
    BY <1>5, <2>1, StateFields
  <2>3. Placed(off.lists, off.active, {})
    <3>1. \A q \in Queues : /\ Once(off.lists[q])
                            /\ Members(off.lists[q]) \subseteq {v \in Timers : off.active[v]} \ {}
      BY <1>5, <2>1, <2>2 DEF Lined, Placed
    <3>2. \A q, p \in Queues : q # p => Members(off.lists[q]) \cap Members(off.lists[p]) = {}
      BY <1>5, <2>1 DEF Lined, Placed
    <3>3. \A v \in Timers : off.active[v] =>
               v \in {} \/ \E q \in Queues : v \in Members(off.lists[q])
      BY <1>5, <2>1, <2>2 DEF Lined, Placed
    <3> QED BY <3>1, <3>2, <3>3 DEF Placed
  <2>4. Lined(off, {})
    BY <1>5, <2>1, <2>3 DEF Lined
  <2>5. Counted(off, {})
    <3> SUFFICES ASSUME NEW v \in Timers
                 PROVE  /\ off.left[v] <= Repeat[v] /\ off.fired[v] <= Repeat[v]
                        /\ Repeat[v] # 0 /\ off.active[v] =>
                              off.left[v] >= 1 /\ off.fired[v] + off.left[v] = Repeat[v] + 0
      BY DEF Counted
    <3> QED BY <1>7, <2>1, <2>2
  <2> QED BY <1>1, <1>9, <2>4, <2>5 DEF Kept
<1> QED BY <1>8, <1>9

-----------------------------------------------------------------------------
(* The record of the variables.                                            *)
LEMMA WholeState ==
    ASSUME Lined(Whole, {})
    PROVE  /\ Whole \in TimerState /\ Whole.lists = lists /\ Whole.target = target
           /\ Whole.left = left /\ Whole.active = active /\ Whole.fired = fired
           /\ \A q \in Queues : lists[q] \in Seq(Timers)
BY DEF Whole, Lined, TimerState

(* The variables become a record.                                          *)
LEMMA BecomeState ==
    ASSUME NEW s, s \in TimerState, Become(s)
    PROVE  Whole' = s
BY DEF Become, TimerState, Whole

(* What a timer that is taken off a list leaves.                           *)
LEMMA TakenOff ==
    ASSUME NEW s \in TimerState, NEW q \in Queues, s.lists[q] # <<>>, Kept(s, {})
    PROVE  LET t == Head(s.lists[q])
               off == [s EXCEPT !.lists[q] = Tail(s.lists[q])]
           IN  /\ t \in Timers /\ s.active[t] /\ off \in TimerState /\ Lined(off, {t})
               /\ off.lists = [s.lists EXCEPT ![q] = Tail(s.lists[q])]
               /\ off.target = s.target /\ off.left = s.left
               /\ off.active = s.active /\ off.fired = s.fired
               /\ Counted(off, {})
<1> DEFINE l == s.lists[q]
           t == Head(l)
           x == Tail(l)
           off == [s EXCEPT !.lists[q] = x]
<1>1. l \in Seq(Timers) /\ Once(l)
  BY StateFields DEF Kept, Lined, Placed
<1>2. /\ x \in Seq(Timers) /\ Once(x) /\ Members(x) = Members(l) \ {t}
      /\ t \in Members(l)
      /\ \A f \in [Timers -> Nat] : Ordered(l, f) => Ordered(x, f)
  BY <1>1, ListTail
<1> HIDE DEF x, t
<1>3. t \in Timers /\ s.active[t]
  BY <1>2 DEF Kept, Lined, Placed
<1>4. /\ off \in TimerState /\ off.lists = [s.lists EXCEPT ![q] = x]
      /\ off.target = s.target /\ off.left = s.left
      /\ off.active = s.active /\ off.fired = s.fired
  BY <1>2, ListFields
<1> HIDE DEF off
<1>5. /\ off.lists[q] = x
      /\ \A p \in Queues : p # q => off.lists[p] = s.lists[p]
  BY <1>4, StateFields
<1>6. \A p \in Queues : p # q => t \notin Members(s.lists[p])
  BY <1>2 DEF Kept, Lined, Placed
<1>7. Placed(off.lists, off.active, {t})
  <2>1. \A p \in Queues : Once(off.lists[p]) /\ Members(off.lists[p]) = Members(s.lists[p]) \ {t}
    <3> TAKE p \in Queues
    <3>1. CASE p = q
      BY <1>2, <1>5, <3>1
    <3>2. CASE p # q
      BY <1>5, <1>6, <3>2 DEF Kept, Lined, Placed
    <3> QED BY <3>1, <3>2
  <2>2. \A p \in Queues : Once(off.lists[p]) /\ Members(off.lists[p]) \subseteq {v \in Timers : off.active[v]} \ {t}
    BY <1>4, <2>1 DEF Kept, Lined, Placed
  <2>3. \A o, p \in Queues : o # p => Members(off.lists[o]) \cap Members(off.lists[p]) = {}
    <3> SUFFICES ASSUME NEW o \in Queues, NEW p \in Queues, o # p
                 PROVE  Members(off.lists[o]) \cap Members(off.lists[p]) = {}
      OBVIOUS
    <3>1. Members(s.lists[o]) \cap Members(s.lists[p]) = {}
      BY DEF Kept, Lined, Placed
    <3> QED BY <2>1, <3>1
  <2>4. \A v \in Timers : off.active[v] =>
             v \in {t} \/ \E p \in Queues : v \in Members(off.lists[p])
    BY <1>4, <2>1 DEF Kept, Lined, Placed
  <2> QED BY <2>2, <2>3, <2>4 DEF Placed
<1>8. Ordered(off.lists["active"], off.target)
  <2>1. s.target \in [Timers -> Nat] /\ Ordered(s.lists["active"], s.target) /\ "active" \in Queues
    BY StateFields DEF Kept, Lined
  <2>2. CASE q = "active"
    BY <1>2, <1>4, <1>5, <2>1, <2>2
  <2>3. CASE q # "active"
    BY <1>4, <1>5, <2>1, <2>3
  <2> QED BY <2>2, <2>3
<1>9. Counted(off, {})
  BY <1>4 DEF Kept, Counted
<1>10. Lined(off, {t})
  BY <1>4, <1>7, <1>8 DEF Lined
<1> QED BY <1>3, <1>4, <1>9, <1>10 DEF off, x, t

(* A due timer that is queued.                                             *)
LEMMA QueuedKept ==
    ASSUME NEW s, NEW t \in Timers, NEW q \in Queues \ {"active"},
           Lined(s, {t}), Counted(s, {}), s.active[t]
    PROVE  Kept([s EXCEPT !.lists[q] = Append(s.lists[q], t)], {})
<1> DEFINE x == Append(s.lists[q], t)
           r == [s EXCEPT !.lists[q] = x]
<1>1. s \in TimerState /\ s.lists[q] \in Seq(Timers) /\ Once(s.lists[q])
  BY StateFields DEF Lined, Placed
<1>2. \A p \in Queues : t \notin Members(s.lists[p])
  BY DEF Lined, Placed
<1>3. x \in Seq(Timers) /\ Once(x) /\ Members(x) = Members(s.lists[q]) \cup {t}
  BY <1>1, <1>2, ListAppend
<1> HIDE DEF x
<1>4. /\ r \in TimerState /\ r.lists = [s.lists EXCEPT ![q] = x]
      /\ r.target = s.target /\ r.left = s.left
      /\ r.active = s.active /\ r.fired = s.fired
  BY <1>1, <1>3, ListFields
<1> HIDE DEF r
<1>5. /\ r.lists[q] = x
      /\ \A p \in Queues : p # q => r.lists[p] = s.lists[p]
  BY <1>1, <1>4, StateFields
<1>6. Placed(r.lists, r.active, {})
  <2>1. \A p \in Queues :
           /\ Once(r.lists[p])
           /\ Members(r.lists[p]) = Members(s.lists[p]) \cup (IF p = q THEN {t} ELSE {})
    <3> TAKE p \in Queues
    <3>1. CASE p = q
      BY <1>3, <1>5, <3>1
    <3>2. CASE p # q
      BY <1>5, <3>2 DEF Lined, Placed
    <3> QED BY <3>1, <3>2
  <2>2. \A p \in Queues : Once(r.lists[p]) /\ Members(r.lists[p]) \subseteq {v \in Timers : r.active[v]} \ {}
    <3> TAKE p \in Queues
    <3>1. Members(s.lists[p]) \subseteq {v \in Timers : s.active[v]} \ {t}
      BY DEF Lined, Placed
    <3> QED BY <1>4, <2>1, <3>1
  <2>3. \A o, p \in Queues : o # p => Members(r.lists[o]) \cap Members(r.lists[p]) = {}
    <3> SUFFICES ASSUME NEW o \in Queues, NEW p \in Queues, o # p
                 PROVE  Members(r.lists[o]) \cap Members(r.lists[p]) = {}
      OBVIOUS
    <3>1. Members(s.lists[o]) \cap Members(s.lists[p]) = {}
      BY DEF Lined, Placed
    <3> QED BY <1>2, <2>1, <3>1
  <2>4. \A v \in Timers : r.active[v] =>
             v \in {} \/ \E p \in Queues : v \in Members(r.lists[p])
    <3> SUFFICES ASSUME NEW v \in Timers, r.active[v]
                 PROVE  \E p \in Queues : v \in Members(r.lists[p])
      OBVIOUS
    <3>1. CASE v = t
      BY <2>1, <3>1
    <3>2. CASE v # t
      <4>1. \E p \in Queues : v \in Members(s.lists[p])
        BY <1>4, <3>2 DEF Lined, Placed
      <4> QED BY <2>1, <4>1
    <3> QED BY <3>1, <3>2
  <2> QED BY <2>2, <2>3, <2>4 DEF Placed
<1>7. Ordered(r.lists["active"], r.target)
  BY <1>4, <1>5, StateFields, <1>1 DEF Lined
<1>8. Counted(r, {})
  BY <1>4 DEF Counted
<1> QED BY <1>4, <1>6, <1>7, <1>8 DEF Kept, Lined, r, x

(* Initially no timer is active; sw_timer_task_init starts them.           *)
LEMMA TimerInitInv == TimerInit => TimerInv
<1> SUFFICES ASSUME TimerInit PROVE TimerInv
  OBVIOUS
<1>1. \A q \in Queues : lists[q] = <<>>
  BY DEF TimerInit
<1>2. <<>> \in Seq(Timers) /\ Once(<<>>) /\ Members(<<>>) = {} /\ Ordered(<<>>, target)
  BY DEF Once, Members, Ordered
<1>3. /\ Whole.lists = lists /\ Whole.target = target
      /\ Whole.left = left /\ Whole.active = active /\ Whole.fired = fired
  BY DEF Whole
<1>4. Whole \in TimerState
  <2>1. 0 \in ClockValues
    BY TimerAssumption DEF ClockValues
  <2>2. /\ lists \in [Queues -> Seq(Timers)] /\ target \in [Timers -> ClockValues]
        /\ left \in [Timers -> Nat] /\ active \in [Timers -> BOOLEAN]
        /\ fired \in [Timers -> Nat]
    BY <2>1 DEF TimerInit
  <2> QED BY <2>2 DEF Whole, TimerState
<1>5. Placed(lists, active, {})
  BY <1>1, <1>2 DEF TimerInit, Placed
<1>6. Ordered(lists["active"], target)
  BY <1>1, <1>2 DEF Queues
<1>7. Counted(Whole, {})
  <2>1. \A t \in Timers : left[t] = 0 /\ fired[t] = 0 /\ ~active[t] /\ Repeat[t] \in Nat
    BY TimerAssumption DEF TimerInit
  <2> QED BY <1>3, <2>1 DEF Counted
<1>8. Kept(Whole, {})
  BY <1>3, <1>4, <1>5, <1>6, <1>7 DEF Kept, Lined
<1>9. {now, tick} \subseteq 0 .. Ticks - 1
  BY TimerAssumption DEF TimerInit
<1> QED BY <1>8, <1>9 DEF TimerInit, TimerInv

LEMMA TaskInitInv ==
    ASSUME TimerInv, NEW t \in Timers, TaskInit(t)
    PROVE  TimerInv'
<1>1. tick \in Nat /\ Kept(Whole, {})
  BY TimerAssumption DEF TimerInv
<1>2. PICK s : s = Start(Whole, t) /\ Become(s)
  BY DEF TaskInit
<1>3. Kept(s, {})
  BY <1>1, <1>2, StartKept
<1>4. Whole' = s
  BY <1>2, <1>3, BecomeState DEF Kept, Lined
<1>5. /\ pc' \in {"idle", "boot"}
      /\ now' = now /\ tick' = tick /\ plain' = plain /\ alive' = alive
  BY DEF TaskInit
<1> QED BY <1>3, <1>4, <1>5 DEF TimerInv

(* The loop of sw_timer_tick takes a timer from the list.                  *)
LEMMA DrainInv ==
    ASSUME TimerInv, Drain
    PROVE  TimerInv'
<1> DEFINE l == lists["active"]
           t == Head(l)
           off == [Whole EXCEPT !.lists["active"] = Tail(l)]
<1>1. tick \in Nat /\ Kept(Whole, {})
  BY TimerAssumption DEF TimerInv
<1>2. pc = "drain" /\ now' = now /\ tick' = tick /\ plain' = plain /\ alive' = alive
  BY DEF Drain
<1>3. CASE l = <<>> \/ ~Due(Head(l))
  <2>1. pc' = "task" /\ UNCHANGED timers
    BY <1>3 DEF Drain
  <2>2. /\ lists' = lists /\ target' = target /\ left' = left
        /\ active' = active /\ fired' = fired
    BY <2>1 DEF timers
  <2>3. Whole' = Whole
    BY <2>2 DEF Whole
  <2>4. lists'["active"] = <<>> \/ ~Due(Head(lists["active"]))'
    BY <1>2, <1>3, <2>2 DEF Due, After
  <2> QED BY <1>1, <1>2, <2>1, <2>3, <2>4 DEF TimerInv
<1>4. CASE ~(l = <<>> \/ ~Due(Head(l)))
  <2>1. /\ Whole \in TimerState /\ Whole.lists = lists /\ Whole.active = active
        /\ "active" \in Queues /\ "normal" \in Queues \ {"active"} /\ "low" \in Queues \ {"active"}
    BY <1>1, WholeState DEF Kept, Queues
  <2>2. /\ t \in Timers /\ Lined(off, {t}) /\ Counted(off, {}) /\ off.active[t]
        /\ off \in TimerState
    <3> DEFINE q == "active"
               t0 == Head(Whole.lists[q])
               off0 == [Whole EXCEPT !.lists[q] = Tail(Whole.lists[q])]
    <3>1. q \in Queues /\ Whole.lists[q] # <<>> /\ off0 = off /\ t0 = t
      BY <1>4, <2>1
    <3> HIDE DEF q
    <3>2. /\ t0 \in Timers /\ Whole.active[t0] /\ off0 \in TimerState /\ Lined(off0, {t0})
          /\ Counted(off0, {}) /\ off0.active = Whole.active
      BY <1>1, <2>1, <3>1, TakenOff
    <3> HIDE DEF t0, off0, t, off
    <3> QED BY <2>1, <3>1, <3>2
  <2>3. /\ pc' = pc
        /\ \/ /\ Priority[t] = "HIGH"
              /\ \E e \in Effects(t) : \E s \in {CalledBack(off, t, e)} : Become(s)
           \/ Become([off EXCEPT !.lists["normal"] = Append(off.lists["normal"], t)])
           \/ Become([off EXCEPT !.lists["low"] = Append(off.lists["low"], t)])
    <3>1. Priority[t] \in {"HIGH", "NORMAL", "LOW"}
      BY <2>2, TimerAssumption
    <3>2. [off EXCEPT !.lists["normal"] = Append(off.lists["normal"], t)] = [off EXCEPT !.lists.normal = Append(@, t)]
      BY <2>2 DEF TimerState
    <3>3. [off EXCEPT !.lists["low"] = Append(off.lists["low"], t)] = [off EXCEPT !.lists.low = Append(@, t)]
      BY <2>2 DEF TimerState
    <3> DEFINE Turn ==
            CASE Priority[t] = "HIGH" ->
                        \E e \in Effects(t) : \E s \in {CalledBack(off, t, e)} :
                            (plain => e.op = "none") /\ Become(s)
              [] Priority[t] = "NORMAL" ->
                        Become([off EXCEPT !.lists.normal = Append(@, t)])
              [] Priority[t] = "LOW" ->
                        Become([off EXCEPT !.lists.low = Append(@, t)])
    <3>4. pc' = pc /\ Turn
      BY <1>4 DEF Drain
    <3> HIDE DEF off, t
    <3>5. CASE Priority[t] = "HIGH"
      BY <3>4, <3>5
    <3>6. CASE Priority[t] = "NORMAL"
      BY <3>2, <3>4, <3>6
    <3>7. CASE Priority[t] = "LOW"
      BY <3>3, <3>4, <3>7
    <3> QED BY <3>1, <3>5, <3>6, <3>7
  <2> HIDE DEF off, t
  <2>4. Kept(Whole, {})'
    <3>1. CASE \E e \in Effects(t) : \E s \in {CalledBack(off, t, e)} : Become(s)
      <4>1. PICK e \in Effects(t) : Become(CalledBack(off, t, e))
        BY <3>1
      <4>2. Kept(CalledBack(off, t, e), {})
        BY <1>1, <2>2, CalledBackKept
      <4>3. Whole' = CalledBack(off, t, e)
        BY <4>1, <4>2, BecomeState DEF Kept, Lined
      <4> QED BY <4>2, <4>3
    <3>2. ASSUME NEW q \in Queues \ {"active"},
                 Become([off EXCEPT !.lists[q] = Append(off.lists[q], t)])
          PROVE  Kept(Whole, {})'
      <4> DEFINE r == [off EXCEPT !.lists[q] = Append(off.lists[q], t)]
      <4>1. Kept(r, {})
        BY <2>2, QueuedKept
      <4>2. Become(r)
        BY <3>2
      <4> HIDE DEF r
      <4>3. Whole' = r
        BY <4>1, <4>2, BecomeState DEF Kept, Lined
      <4> QED BY <4>1, <4>3
    <3> QED BY <2>1, <2>3, <3>1, <3>2
  <2>5. pc' = "drain"
    BY <1>2, <2>3
  <2> QED BY <1>2, <2>4, <2>5 DEF TimerInv
<1> QED BY <1>3, <1>4

(* sw_timer_task calls a timer back.                                       *)
LEMMA TaskInv ==
    ASSUME TimerInv, Task
    PROVE  TimerInv'
<1> DEFINE q == IF lists["normal"] # <<>> THEN "normal" ELSE "low"
           t == Head(lists[q])
           off == [Whole EXCEPT !.lists[q] = Tail(lists[q])]
<1>1. tick \in Nat /\ Kept(Whole, {})
  BY TimerAssumption DEF TimerInv
<1>2. pc' = "idle" /\ now' = now /\ tick' = tick /\ plain' = plain /\ alive' = alive
  BY DEF Task
<1>3. CASE lists[q] = <<>>
  <2>1. UNCHANGED timers
    BY <1>3 DEF Task
  <2>2. Whole' = Whole
    BY <2>1 DEF Whole, timers
  <2> QED BY <1>1, <1>2, <2>2 DEF TimerInv
<1>4. CASE lists[q] # <<>>
  <2>1. Whole \in TimerState /\ Whole.lists = lists /\ Whole.active = active /\ q \in Queues
    BY <1>1, WholeState DEF Kept, Queues
  <2>2. \E e \in Effects(t) : Become(CalledBack(off, t, e))
    <3>1. off = [Whole EXCEPT !.lists[q] = Tail(@)]
      BY <2>1 DEF TimerState
    <3>2. \E e \in Effects(t) :
             \E s \in {CalledBack([Whole EXCEPT !.lists[q] = Tail(@)], t, e)} :
                (plain => e.op = "none") /\ Become(s)
      BY <1>4 DEF Task
    <3> HIDE DEF off, t, q
    <3> QED BY <3>1, <3>2
  <2> HIDE DEF q
  <2>3. t \in Timers /\ Lined(off, {t}) /\ Counted(off, {}) /\ off.active[t]
    <3> DEFINE t0 == Head(Whole.lists[q])
               off0 == [Whole EXCEPT !.lists[q] = Tail(Whole.lists[q])]
    <3>1. Whole.lists[q] # <<>> /\ off0 = off /\ t0 = t
      BY <1>4, <2>1
    <3>2. /\ t0 \in Timers /\ Whole.active[t0] /\ off0 \in TimerState /\ Lined(off0, {t0})
          /\ Counted(off0, {}) /\ off0.active = Whole.active
      BY <1>1, <2>1, <3>1, TakenOff
    <3> HIDE DEF t0, off0, t, off
    <3> QED BY <2>1, <3>1, <3>2
  <2> HIDE DEF off, t
  <2>4. PICK e \in Effects(t) : Become(CalledBack(off, t, e))
    BY <2>2
  <2>5. Kept(CalledBack(off, t, e), {})
    BY <1>1, <2>3, CalledBackKept
  <2>6. Whole' = CalledBack(off, t, e)
    BY <2>4, <2>5, BecomeState DEF Kept, Lined
  <2> QED BY <1>2, <2>5, <2>6 DEF TimerInv
<1> QED BY <1>3, <1>4

(* Standing still keeps the invariant.                                     *)
LEMMA TimerStandsStill == TimerInv /\ UNCHANGED timerVars => TimerInv'
<1> SUFFICES ASSUME TimerInv, UNCHANGED timerVars PROVE TimerInv'
  OBVIOUS
<1>1. /\ lists' = lists /\ target' = target /\ left' = left /\ active' = active
      /\ fired' = fired /\ now' = now /\ tick' = tick /\ pc' = pc
      /\ plain' = plain /\ alive' = alive
  BY DEF timerVars, timers
<1>2. Whole' = Whole
  BY <1>1 DEF Whole
<1> QED BY <1>1, <1>2 DEF TimerInv, Due, After

(* Every step keeps it.                                                    *)
LEMMA TimerNextInv == TimerInv /\ TimerNext => TimerInv'
<1> SUFFICES ASSUME TimerInv, TimerNext PROVE TimerInv'
  OBVIOUS
<1>1. CASE Boot
  BY <1>1, TaskInitInv DEF Boot
<1>2. CASE TickCall
  <2>1. UNCHANGED timers /\ tick' = now /\ now' = now /\ pc' = "drain"
        /\ plain' = plain /\ alive' = alive
    BY <1>2 DEF TickCall
  <2>2. Whole' = Whole
    BY <2>1 DEF Whole, timers
  <2> QED BY <2>1, <2>2 DEF TimerInv
<1>3. CASE Drain
  BY <1>3, DrainInv
<1>4. CASE Task
  BY <1>4, TaskInv
<1>5. CASE Clock
  <2>1. /\ UNCHANGED timers /\ tick' = tick /\ now' = Plus(now, 1) /\ pc' = pc
        /\ plain' = plain /\ alive' = alive
    BY <1>5 DEF Clock
  <2>2. Whole' = Whole /\ lists' = lists /\ target' = target
    BY <2>1 DEF Whole, timers
  <2>3. now' \in 0 .. Ticks - 1
    BY <2>1, PlusClock, TimerAssumption DEF TimerInv, ClockValues
  <2> QED BY <2>1, <2>2, <2>3 DEF TimerInv, Due, After
<1>6. CASE Plain
  <2>1. /\ UNCHANGED timers /\ tick' = tick /\ now' = now /\ pc' = pc
        /\ plain' = TRUE /\ alive' \subseteq Timers
    BY <1>6 DEF Plain
  <2>2. Whole' = Whole /\ lists' = lists /\ target' = target
    BY <2>1 DEF Whole, timers
  <2> QED BY <2>1, <2>2 DEF TimerInv, Due, After
<1> QED BY <1>1, <1>2, <1>3, <1>4, <1>5, <1>6 DEF TimerNext, Loop

(* The invariant of the timers, for any timers, periods and width of the   *)
(* clock.                                                                  *)
THEOREM TimerInvariant == TimerSpec => []TimerInv
<1>1. TimerInit => TimerInv
  BY TimerInitInv
<1>2. TimerInv /\ [TimerNext]_timerVars => TimerInv'
  BY TimerNextInv, TimerStandsStill
<1> QED BY <1>1, <1>2, PTL DEF TimerSpec

-----------------------------------------------------------------------------
(* What the invariant says of types.                                       *)
LEMMA InvTimerTypes == TimerInv => TimerTypeOK
<1> SUFFICES ASSUME TimerInv PROVE TimerTypeOK
  OBVIOUS
<1>1. Kept(Whole, {}) /\ Whole \in TimerState
  BY DEF TimerInv, Kept, Lined
<1>2. /\ Whole.lists = lists /\ Whole.target = target /\ Whole.left = left
      /\ Whole.active = active /\ Whole.fired = fired
  BY DEF Whole
<1>3. \A q \in Queues : lists[q] \in Seq(Timers)
  BY <1>1, <1>2, StateFields
<1>4. target \in [Timers -> 0 .. Ticks - 1] /\ active \in [Timers -> BOOLEAN]
  BY <1>1, <1>2, StateFields DEF ClockValues
<1>5. ASSUME NEW t \in Timers PROVE {left[t], fired[t]} \subseteq 0 .. Repeat[t]
  <2>1. left[t] \in Nat /\ fired[t] \in Nat /\ Repeat[t] \in Nat
    BY <1>1, <1>2, StateFields, TimerAssumption
  <2>2. left[t] <= Repeat[t] /\ fired[t] <= Repeat[t]
    BY <1>1, <1>2 DEF Kept, Counted
  <2> QED BY <2>1, <2>2
<1> QED BY <1>3, <1>4, <1>5 DEF TimerInv, TimerTypeOK

(* How often a timer is in a list that has each of its timers once.        *)
LEMMA PlacesOf ==
    ASSUME NEW q, lists[q] \in Seq(Timers), Once(lists[q]), NEW t
    PROVE  Cardinality(In(q, t)) = IF t \in Members(lists[q]) THEN 1 ELSE 0
<1> DEFINE l == lists[q]
<1>1. CASE t \in Members(l)
  <2>1. PICK i \in 1 .. Len(l) : l[i] = t
    BY <1>1 DEF Members
  <2>2. In(q, t) = {i}
    BY <2>1 DEF In, Once
  <2>3. Cardinality({i}) = 1
    BY FS_Singleton
  <2> QED BY <1>1, <2>2, <2>3
<1>2. CASE t \notin Members(l)
  <2>1. In(q, t) = {}
    BY <1>2 DEF In, Members
  <2> QED BY <1>2, <2>1, FS_EmptySet
<1> QED BY <1>1, <1>2

(* What it says of lists, counts and the head of the list.                 *)
LEMMA InvTimersKept == TimerInv => TimersKept
<1> SUFFICES ASSUME TimerInv PROVE TimersKept
  OBVIOUS
<1>1. Kept(Whole, {}) /\ Whole \in TimerState
  BY DEF TimerInv, Kept, Lined
<1>2. /\ Whole.lists = lists /\ Whole.target = target /\ Whole.left = left
      /\ Whole.active = active /\ Whole.fired = fired
  BY DEF Whole
<1>3. /\ \A q \in Queues : lists[q] \in Seq(Timers) /\ Once(lists[q])
      /\ Placed(lists, active, {}) /\ Ordered(lists["active"], target)
      /\ target \in [Timers -> Nat] /\ active \in [Timers -> BOOLEAN]
  BY <1>1, <1>2, StateFields DEF Kept, Lined, Placed
<1>4. InOneList
  <2> SUFFICES ASSUME NEW t \in Timers
               PROVE  Cardinality(In("active", t)) + Cardinality(In("normal", t))
                         + Cardinality(In("low", t)) = IF active[t] THEN 1 ELSE 0
    BY DEF InOneList
  <2> DEFINE a == t \in Members(lists["active"])
             n == t \in Members(lists["normal"])
             w == t \in Members(lists["low"])
  <2>1. /\ Cardinality(In("active", t)) = IF a THEN 1 ELSE 0
        /\ Cardinality(In("normal", t)) = IF n THEN 1 ELSE 0
        /\ Cardinality(In("low", t)) = IF w THEN 1 ELSE 0
    BY <1>3, PlacesOf DEF Queues
  <2>2. \A q \in Queues : t \in Members(lists[q]) => active[t]
    BY <1>3 DEF Placed
  <2>3. active[t] => a \/ n \/ w
    BY <1>3 DEF Placed, Queues
  <2>4. ~(a /\ n) /\ ~(a /\ w) /\ ~(n /\ w)
    BY <1>3 DEF Placed, Queues
  <2>5. (a \/ n \/ w) => active[t]
    BY <2>2 DEF Queues
  <2> HIDE DEF a, n, w
  <2> QED BY <2>1, <2>3, <2>4, <2>5
<1>5. CountIsKept
  <2> SUFFICES ASSUME NEW t \in Timers, Repeat[t] # 0
               PROVE  fired[t] <= Repeat[t] /\ (active[t] => fired[t] + left[t] = Repeat[t])
    BY DEF CountIsKept
  <2>1. Repeat[t] \in Nat
    BY TimerAssumption
  <2> QED BY <1>1, <1>2, <2>1 DEF Kept, Counted
<1>6. HiddenOnlyAtWrap
  <2> DEFINE l == lists["active"]
  <2> SUFFICES ASSUME pc = "task",
                      \A u \in ToSet(l) : After(target[u], tick) = (target[u] > tick),
                      NEW t \in ToSet(l)
               PROVE  ~Due(t)
    BY DEF HiddenOnlyAtWrap, HeadTellsAll
  <2>1. l \in Seq(Timers) /\ Len(l) \in Nat /\ \A i \in 1 .. Len(l) : l[i] \in Timers
    BY <1>3, ListElements DEF Queues
  <2>2. PICK i \in 1 .. Len(l) : t = l[i]
    BY <2>1, LenProperties DEF ToSet
  <2>3. \A j \in 1 .. Len(l) : l[j] \in ToSet(l)
    BY <2>1, LenProperties DEF ToSet
  <2>4. l # <<>> /\ Head(l) = l[1] /\ 1 \in 1 .. Len(l)
    BY <2>1, <2>2, EmptySeq, HeadTailProperties
  <2>5. After(target[l[1]], tick)
    BY <2>4 DEF TimerInv, Due
  <2>6. target[l[1]] > tick
    BY <2>3, <2>4, <2>5
  <2>7. target[l[1]] <= target[l[i]]
    <3>1. CASE i = 1
      BY <1>3, <2>1, <2>4, <3>1
    <3>2. CASE i # 1
      <4>1. 1 < i
        BY <2>1, <3>2
      <4> QED BY <1>3, <2>4, <4>1 DEF Ordered
    <3> QED BY <3>1, <3>2
  <2>8. target[t] > tick
    <3>1. target[l[1]] \in Nat /\ target[l[i]] \in Nat
      BY <1>3, <2>1, <2>4
    <3>2. tick \in Nat
      BY TimerAssumption DEF TimerInv
    <3> QED BY <2>2, <2>6, <2>7, <3>1, <3>2
  <2> QED BY <2>8 DEF Due
<1> QED BY <1>4, <1>5, <1>6 DEF TimersKept

(* Every variable of the timers stays in its type (sw_timer.c).            *)
THEOREM TimerTypes == TimerSpec => []TimerTypeOK
BY TimerInvariant, InvTimerTypes, PTL

(* An active timer is in one list, once, it has been called back as often  *)
(* as its count says, and one that is due hides behind the head of the     *)
(* list only around the wrap of the clock (sw_timer.c), for any timers,    *)
(* periods, repetitions and width of the clock.                            *)
THEOREM NoTimerLost == TimerSpec => []TimersKept
BY TimerInvariant, InvTimersKept, PTL

-----------------------------------------------------------------------------
(* The main loop that runs all of them: a step of one leaves the others as *)
(* they are, so each keeps its own invariant.                              *)
LoopInv == TimerInv /\ SendInv /\ ReceiveInv /\ LogInv

(* Initially, and with every step.                                         *)
LEMMA LoopInitInv == LoopInit => LoopInv
BY TimerInitInv, SendInitInv, ReceiveInitInv, LogInitInv DEF LoopInit, LoopInv

LEMMA LoopNextInv == LoopInv /\ [LoopNext]_loopVars => LoopInv'
<1> SUFFICES ASSUME LoopInv, [LoopNext]_loopVars PROVE LoopInv'
  OBVIOUS
<1>1. TimerInv'
  <2>1. TimerNext \/ UNCHANGED timerVars
    BY DEF LoopNext, loopVars, InTimers, InSend, InReceive, InLog, InParameters
  <2> QED BY <2>1, TimerNextInv, TimerStandsStill DEF LoopInv
<1>2. SendInv'
  <2>1. [SendNext]_sendVars
    BY DEF LoopNext, loopVars, InTimers, InSend, InReceive, InLog, InParameters
  <2> QED BY <2>1, SendNextInv DEF LoopInv
<1>3. ReceiveInv'
  <2>1. ReceiveNext \/ UNCHANGED receiveVars
    BY DEF LoopNext, loopVars, InTimers, InSend, InReceive, InLog, InParameters
  <2> QED BY <2>1, ReceiveNextInv, ReceiveStandsStill DEF LoopInv
<1>4. LogInv'
  <2>1. [LogNext]_logVars
    BY DEF LoopNext, loopVars, InTimers, InSend, InReceive, InLog, InParameters
  <2> QED BY <2>1, LogNextInv DEF LoopInv
<1> QED BY <1>1, <1>2, <1>3, <1>4 DEF LoopInv

(* The four invariants hold together, whatever the parts do.               *)
THEOREM LoopInvariant == LoopSpec => []LoopInv
BY LoopInitInv, LoopNextInv, PTL DEF LoopSpec

(* Every variable of the timers, of the two directions of the serial line  *)
(* and of the log stays in its type (sw_timer.c, dev_rs485.c, drv_uart.c,  *)
(* srv_log_flash.c), for any timers, sizes of queues and bounds.           *)
THEOREM LoopTypes == LoopSpec => []LoopTypeOK
<1>1. SendInv => SendTypeOK
  BY DEF SendInv
<1>2. LoopInv => LoopTypeOK
  BY <1>1, InvTimerTypes, InvBytesKept, InvLogTypes DEF LoopInv, LoopTypeOK
<1> QED BY <1>2, LoopInvariant, PTL

(* The main loop loses no timer, no frame, no byte and no line of the log. *)
THEOREM LoopKeeps == LoopSpec => [](TimersKept /\ FramesKept /\ BytesKept /\ LogKept)
<1>1. SendInv => FramesKept
  BY DEF SendInv
<1>2. LoopInv => TimersKept /\ FramesKept /\ BytesKept /\ LogKept
  BY <1>1, InvTimersKept, InvBytesKept, InvLogKept DEF LoopInv
<1> QED BY <1>2, LoopInvariant, PTL

-----------------------------------------------------------------------------
(* The parameters of the E1 power board: what RingStorageProofs proves of   *)
(* every area, of this one.                                                *)
Area == INSTANCE RingStorageProofs WITH
    pc <- step, active <- sector, faults <- flashErrors,
    NSectors <- 2, NSlots <- 2, Sampled <- {1},
    Values <- {"v1", "v2"}, NoValue <- "none", NoFrame <- <<>>,
    Reprogram <- TRUE, AllowWipe <- FALSE, MaxVersion <- 4, MaxFaults <- 2

(* Area has the operators of RingStorage over again: they mean the same.   *)
LEMMA AreaInit == Parameters!Init => Area!Init
  BY Zenon DEF Parameters!Init, Area!Init, Parameters!Places, Area!Places, Parameters!Slots, Area!Slots,
                 Parameters!Sectors, Area!Sectors, Parameters!Erased, Area!Erased

LEMMA AreaNext == Parameters!Next => Area!Next
  BY ZenonT(60)
  DEF Parameters!Next, Area!Next,
      Parameters!BootFound, Area!BootFound, Parameters!BootFirstUse, Area!BootFirstUse,
      Parameters!InitErase, Area!InitErase, Parameters!Save, Area!Save,
      Parameters!RefusedCall, Area!RefusedCall, Parameters!GcErase, Area!GcErase,
      Parameters!GcNoCopy, Area!GcNoCopy, Parameters!GcCopyUnit, Area!GcCopyUnit,
      Parameters!WriteUnit, Area!WriteUnit, Parameters!Load, Area!Load,
      Parameters!WipeStart, Area!WipeStart, Parameters!WipeSector, Area!WipeSector,
      Parameters!PowerFail, Area!PowerFail, Parameters!TornWrite, Area!TornWrite,
      Parameters!TornCopy, Area!TornCopy, Parameters!TornErase, Area!TornErase,
      Parameters!NothingTorn, Area!NothingTorn, Parameters!Erasing, Area!Erasing,
      Parameters!Copying, Area!Copying, Parameters!LooksEmpty, Area!LooksEmpty,
      Parameters!Target, Area!Target, Parameters!NothingToCopy, Area!NothingToCopy,
      Parameters!GcSwitch, Area!GcSwitch, Parameters!NewFrame, Area!NewFrame,
      Parameters!LoadResult, Area!LoadResult, Parameters!RamCleared, Area!RamCleared,
      Parameters!SlotAfter, Area!SlotAfter, Parameters!Reached, Area!Reached,
      Parameters!IsLatest, Area!IsLatest, Parameters!ScannedBefore, Area!ScannedBefore,
      Parameters!Visible, Area!Visible, Parameters!EraseOf, Area!EraseOf,
      Parameters!CutErases, Area!CutErases,
      Parameters!HalfErased, Area!HalfErased, Parameters!Interrupted, Area!Interrupted,
      Parameters!Spoiled, Area!Spoiled, Parameters!Programmed, Area!Programmed,
      Parameters!Accepts, Area!Accepts, Parameters!NextUnit, Area!NextUnit,
      Parameters!Units, Area!Units, Parameters!Committed, Area!Committed,
      Parameters!Frag, Area!Frag, Parameters!Erased, Area!Erased,
      Parameters!Places, Area!Places, Parameters!Slots, Area!Slots,
      Parameters!Sectors, Area!Sectors, Parameters!ram, Area!ram

LEMMA AreaSaved == Parameters!SavedIsRecovered = Area!SavedIsRecovered
  BY Zenon
  DEF Parameters!SavedIsRecovered, Area!SavedIsRecovered, Parameters!Recovered, Area!Recovered,
      Parameters!IsLatest, Area!IsLatest, Parameters!ScannedBefore, Area!ScannedBefore,
      Parameters!Visible, Area!Visible, Parameters!Committed, Area!Committed,
      Parameters!Places, Area!Places, Parameters!Slots, Area!Slots,
      Parameters!Sectors, Area!Sectors

(* The invariant of the area holds at first, and with every step of it, or *)
(* of another part.                                                        *)
LEMMA AreaInitInv == Parameters!Init => Area!SoundInv
  BY AreaInit, Area!SoundInitInv

LEMMA AreaNextInv == Area!SoundInv /\ [Parameters!Next]_areaVars => Area!SoundInv'
  <1>1. [Parameters!Next]_areaVars => [Area!Next]_(Area!vars)
    BY AreaNext, Zenon DEF areaVars, Area!vars
  <1> QED BY <1>1, Area!SoundNext

(* What the invariants keep is what was stored.                            *)
StoredInv == LoopInv /\ Area!SoundInv

(* StoredKept for any log (srv_log_flash), and for the parameters of the   *)
(* E1 power board (ring_storage over drv_stm32f4_flash): a line the log    *)
(* has accepted and a parameter whose save has returned OK stay, with      *)
(* power failures and errors of the flash at any point.                    *)
THEOREM StoredStays == LoopSpec => []StoredKept
<1>1. LoopInit => StoredInv
  BY LoopInitInv, AreaInitInv DEF LoopInit, StoredInv
<1>2. StoredInv /\ [LoopNext]_loopVars => StoredInv'
  <2> SUFFICES ASSUME StoredInv, [LoopNext]_loopVars PROVE StoredInv'
    OBVIOUS
  <2>1. [Parameters!Next]_areaVars
    BY DEF LoopNext, loopVars, InTimers, InSend, InReceive, InLog, InParameters
  <2> QED BY <2>1, LoopNextInv, AreaNextInv DEF StoredInv
<1>3. StoredInv => StoredKept
  <2>1. Area!SoundInv => Area!SavedIsRecovered
    BY Area!SoundInvSaved DEF Area!SavedWhileSound
  <2> QED BY <2>1, AreaSaved, InvLogKept DEF StoredInv, LoopInv, StoredKept
<1> QED BY <1>1, <1>2, <1>3, PTL DEF LoopSpec

=============================================================================
