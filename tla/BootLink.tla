------------------------------ MODULE BootLink ------------------------------
(***************************************************************************)
(* One upgrade over the bus: the host tool's sequence (_run_flash in       *)
(* E1_Master_Power_Manage/updata_tool/flash_tool/worker.py), a CAN bus     *)
(* that keeps the order of frames but may lose or repeat one, and the      *)
(* bootloader's engine of BootFsm.                                         *)
(*                                                                         *)
(* A wait of the host times out only when the bus is empty and the node    *)
(* has nothing to say: its timeouts (3 s, 5 s) are three orders above the  *)
(* node's millisecond loop.  A beacon restarts the wait, as in _recv.      *)
(***************************************************************************)
EXTENDS BootFsm, Sequences

CONSTANTS
    Image,      \* the firmware: units 0 .. size - 1
    HasApp,     \* whether the board holds an application to fall back to
    HostWait,   \* BLOCK_ACK_TIMEOUT, in ticks
    PollEvery,  \* DATA_POLL_INTERVAL
    MaxRetries, \* MAX_RETRIES
    MaxSlips,   \* bound: frames lost or repeated
    MaxStalls   \* bound: stalls of the host

Size == Cardinality(DOMAIN Image)
(* block_chunks fills the last block with zeros. *)
UnitAt(u) == IF u \in DOMAIN Image THEN Image[u] ELSE 0
BlockOf(b) == [f \in Frames |-> UnitAt(b * NFrames + f)]
Blocks == (Size + NFrames - 1) \div NFrames

ASSUME ImageAssumption ==
    /\ \E n \in 1 .. NBlocks * NFrames : DOMAIN Image = 0 .. n - 1
    /\ \A u \in DOMAIN Image : Image[u] \in Nat
ASSUME LinkAssumption ==
    /\ HasApp \in BOOLEAN
    /\ HostWait \in Nat /\ PollEvery \in Nat \ {0} /\ MaxRetries \in Nat
    /\ MaxSlips \in Nat /\ MaxStalls \in Nat

VARIABLES
    host,     \* what the host waits for or sends next, and its counters
    toNode,   \* frames on their way to the node
    toHost,   \* responses on their way to the host
    slips,    \* frames lost or repeated so far
    stalls,   \* stalls of the host so far
    gone      \* the node has left the bootloader

linkVars == <<host, toNode, toHost, slips, stalls, gone>>
allVars == <<vars, linkVars>>

Command(c) == [cmd |-> c]
StartFrame == [cmd |-> "START", size |-> Size, fits |-> TRUE, frame8 |-> TRUE]
MetadataFrame == [cmd |-> "METADATA", sum |-> SumFunction(Image)]
DataStartFrame(b) == [cmd |-> "DATA_START", block |-> b]
DataFrame(b, f) == [cmd |-> "DATA", seq |-> f, unit |-> BlockOf(b)[f]]
DataEndFrame(b) ==
    [cmd |-> "DATA_END", sum |-> BlockSum(BlockOf(b)), unit |-> BlockOf(b)[NFrames - 1]]

(* The bus: a frame arrives once, or it slips: never, or twice.            *)
Carry(q, m, next) ==
    \/ next = Append(q, m) /\ UNCHANGED slips
    \/ slips < MaxSlips /\ slips' = slips + 1 /\ next \in {q, q \o <<m, m>>}
Send(m) == Carry(toNode, m, toNode')

LinkInit ==
    /\ Init
    /\ host = [phase |-> "begin", block |-> 0, frame |-> 0, tries |-> 0,
               quiet |-> 0, waited |-> 0]
    /\ toNode = <<>> /\ toHost = <<>>
    /\ slips = 0 /\ stalls = 0
    /\ gone = FALSE

-----------------------------------------------------------------------------
(* The host.  It begins when it has seen the node's beacon.                *)

Node == UNCHANGED <<vars, stalls, gone>>
Ended == {"done", "failed", "refused"}
Waiting(c) == host.phase = c /\ toHost # <<>>
Reply == Head(toHost)
Acks(c) == Reply.kind = "ACK" /\ Reply.cmd = c
Take == toHost' = Tail(toHost)

HostBegin ==
    /\ host.phase = "begin"
    /\ host' = [host EXCEPT !.phase = "START"]
    /\ Send(StartFrame)
    /\ UNCHANGED toHost /\ Node

(* _wait_ack: everything but the expected ACK is ignored, NACKs included.  *)
Handshake(c, next, frame) ==
    /\ Waiting(c)
    /\ Take
    /\ IF Acks(c)
       THEN host' = [host EXCEPT !.phase = next, !.quiet = 0, !.waited = 0] /\ Send(frame)
       ELSE host' = [host EXCEPT !.quiet = 0, !.waited = 0] /\ UNCHANGED <<toNode, slips>>
    /\ Node

HostStart == Handshake("START", "METADATA", MetadataFrame)
HostMetadata == Handshake("METADATA", "DATA_START", DataStartFrame(0))
HostVerify == Handshake("VERIFY", "REBOOT", Command("REBOOT"))

(* The whole file is sent: VERIFY; otherwise DATA_START of block b.        *)
GoTo(b, tries) ==
    IF b < Blocks
    THEN /\ host' = [host EXCEPT !.phase = "DATA_START", !.block = b,
                                 !.tries = tries, !.frame = 0, !.quiet = 0, !.waited = 0]
         /\ Send(DataStartFrame(b))
    ELSE /\ host' = [host EXCEPT !.phase = "VERIFY", !.quiet = 0, !.waited = 0]
         /\ Send(Command("VERIFY"))

Stop(how) ==
    host' = [host EXCEPT !.phase = how] /\ UNCHANGED <<toNode, slips>>
Ignore == host' = [host EXCEPT !.quiet = 0, !.waited = 0] /\ UNCHANGED <<toNode, slips>>

ResyncCodes == {"BLOCK_INDEX_MISMATCH", "INVALID_FRAME", "TIMEOUT"}
Reseek == Reply.kind = "NACK" /\ Reply.code \in ResyncCodes
Answers(c) == Reply.kind \in {"ACK", "NACK"} /\ Reply.cmd = c

(* _wait_block(DATA_START, block) *)
HostDataStart ==
    /\ Waiting("DATA_START")
    /\ Take
    /\ CASE Acks("DATA_START") /\ Reply.block = host.block ->
              /\ host' = [host EXCEPT !.phase = "DATA", !.quiet = 0, !.waited = 0]
              /\ UNCHANGED <<toNode, slips>>
         [] Answers("DATA_START") /\ Reseek -> GoTo(Reply.block, 0)
         [] Answers("DATA_START") /\ Reply.kind = "NACK" /\ ~Reseek -> Stop("refused")
         [] OTHER -> Ignore
    /\ Node

(* The DATA frames of a block, a poll after every PollEvery of them, then  *)
(* DATA_END.                                                               *)
HostData ==
    /\ host.phase = "DATA"
    /\ IF host.frame < NFrames - 1
       THEN /\ Send(DataFrame(host.block, host.frame))
            /\ host' = [host EXCEPT
                    !.frame = @ + 1,
                    !.phase = IF host.frame % PollEvery = PollEvery - 1
                              THEN "POLL" ELSE @]
       ELSE /\ Send(DataEndFrame(host.block))
            /\ host' = [host EXCEPT !.phase = "DATA_END"]
    /\ UNCHANGED toHost /\ Node

HostPoll ==
    /\ host.phase = "POLL"
    /\ IF toHost = <<>>
       THEN UNCHANGED <<toHost, toNode, slips>> /\ host' = [host EXCEPT !.phase = "DATA"]
       ELSE /\ Take
            /\ IF Reseek /\ "block" \in DOMAIN Reply
               THEN GoTo(Reply.block, 0)
               ELSE /\ host' = [host EXCEPT !.phase = "DATA", !.quiet = 0, !.waited = 0]
                    /\ UNCHANGED <<toNode, slips>>
    /\ Node

(* Variant for checking the checks: the retry limit compared one too late. *)
OneRetryTooMany == host.tries > MaxRetries

RetriesSpent == host.tries + 1 > MaxRetries

(* _wait_block(DATA_END) *)
HostDataEnd ==
    /\ Waiting("DATA_END")
    /\ Take
    /\ CASE Acks("DATA_END") -> GoTo(host.block + 1, 0)
         [] Answers("DATA_END") /\ Reseek -> GoTo(Reply.block, 0)
         [] Answers("DATA_END") /\ Reply.kind = "NACK" /\ Reply.code = "BLOCK_CHECKSUM" ->
              IF RetriesSpent THEN Stop("failed")
                              ELSE GoTo(host.block, host.tries + 1)
         [] Answers("DATA_END") /\ Reply.kind = "NACK"
                /\ Reply.code \in {"FLASH_WRITE_ERR", "FLASH_VERIFY_ERR", "INVALID_STATE"} ->
              Stop("refused")
         [] OTHER -> Ignore
    /\ Node

(* The reply to REBOOT is read once, and any ACK will do.                  *)
Confirmed == Reply.kind = "ACK"

HostReboot ==
    /\ Waiting("REBOOT")
    /\ Take
    /\ IF Confirmed THEN Stop("done") ELSE Stop("failed")
    /\ Node

(* Beacons come every 200 ms: no wait expires while the node idles here.   *)
Quiet == toNode = <<>> /\ toHost = <<>> /\ (gone \/ (st # "IDLE" /\ host.waited = HostWait))

(* Variant: the clock of the 6 s limit restarts at every resend.           *)
NeverLost == FALSE

(* NODE_LOST_TIMEOUT: two waits of 3 s without a frame.                    *)
NodeLost == host.quiet > 0

HostTimeout ==
    /\ Quiet
    /\ \/ /\ host.phase \in {"START", "METADATA", "VERIFY", "REBOOT"}
          /\ Stop("failed")
       \/ /\ host.phase \in {"DATA_START", "DATA_END"}
          /\ IF NodeLost
             THEN Stop("failed")
             ELSE /\ host' = [host EXCEPT !.phase = "DATA_START",
                                          !.quiet = 1, !.waited = 0,
                                          !.frame = 0]
                  /\ Send(DataStartFrame(host.block))
    /\ UNCHANGED toHost /\ Node

(* _wait_ack calls itself for every beacon, some 200 s to the interpreter's *)
(* recursion limit; the wait for a block loops instead.                    *)
HostRecursionLimit ==
    /\ host.phase \in {"START", "METADATA", "VERIFY"}
    /\ st = "IDLE" /\ ~gone /\ toNode = <<>> /\ toHost = <<>>
    /\ Stop("failed")
    /\ UNCHANGED toHost /\ Node

(* The user cancels: one CANCEL frame, then the tool closes the bus.       *)
HostCancel ==
    /\ host.phase \notin Ended \cup {"begin"}
    /\ host' = [host EXCEPT !.phase = "failed"]
    /\ Send(Command("CANCEL"))
    /\ UNCHANGED toHost /\ Node

HostNext ==
    \/ HostBegin \/ HostStart \/ HostMetadata \/ HostDataStart
    \/ HostData \/ HostPoll \/ HostDataEnd \/ HostVerify \/ HostReboot
    \/ HostTimeout \/ HostRecursionLimit

-----------------------------------------------------------------------------
(* The node, seen from the bus.                                            *)

Respond ==
    IF resp' = Silent THEN UNCHANGED <<toHost, slips>>
                      ELSE Carry(toHost, resp', toHost')

NodeReceive ==
    /\ ~gone /\ toNode # <<>>
    /\ ProcessMsg(Head(toNode))
    /\ toNode' = Tail(toNode)
    /\ Respond
    /\ UNCHANGED <<host, stalls, gone>>

(* The callback empties its queue before it ticks, and a tick of the model *)
(* is a good part of a second, which no frame spends on the bus.  The next *)
(* beacon comes long after the host has read the last one.                 *)
TickNow ==
    /\ ~gone /\ toNode = <<>> /\ Tick
    /\ resp'.kind = "BEACON" => toHost = <<>>
    /\ UNCHANGED <<toNode, gone>>

HostBusy == host.phase \in {"DATA", "POLL"} \/ (toHost # <<>> /\ host.phase \notin Ended)

(* A wait of the host is over after HostWait ticks of a busy node.  A node *)
(* in IDLE beacons into it.                                                *)
NodeTick ==
    /\ ~HostBusy /\ TickNow /\ Respond /\ UNCHANGED stalls
    /\ IF st = "IDLE" \/ host.phase \in Ended THEN UNCHANGED host
       ELSE host.waited < HostWait /\ host' = [host EXCEPT !.waited = @ + 1]

(* A second passes although the host has a frame to send or to read: a     *)
(* stall of the tool's thread or of its USB adapter.                       *)
HostStalls ==
    /\ HostBusy /\ TickNow /\ UNCHANGED <<host, slips>>
    /\ stalls < MaxStalls /\ stalls' = stalls + 1
    /\ toHost' = IF resp' = Silent THEN toHost ELSE Append(toHost, resp')

(* boot_task leaves: it resets once the REBOOT is answered, and two        *)
(* seconds after a session has ended it rolls back.  Without a valid       *)
(* application the reset ends in the bootloader again.                     *)
NodeLeaves ==
    /\ ~gone /\ st = "IDLE" /\ host.phase # "begin"
    /\ toNode = <<>>
    /\ ctx.reset \/ HasApp
    /\ gone' = TRUE
    /\ UNCHANGED <<vars, host, toNode, toHost, slips, stalls>>

(* An application has no use for the bootloader's frames.                  *)
AppIgnores ==
    /\ gone /\ toNode # <<>>
    /\ toNode' = Tail(toNode)
    /\ UNCHANGED <<vars, host, toHost, slips, stalls, gone>>

NodeNext == NodeReceive \/ NodeTick \/ HostStalls \/ NodeLeaves \/ AppIgnores

LinkNext == HostNext \/ HostCancel \/ NodeNext

(* The tool's thread runs, the timer callback runs and frames arrive.      *)
LinkSpec ==
    /\ LinkInit /\ [][LinkNext]_allVars
    /\ WF_allVars(HostNext) /\ SF_allVars(HostRecursionLimit)
    /\ WF_allVars(NodeReceive) /\ WF_allVars(NodeTick)
    /\ WF_allVars(NodeLeaves) /\ WF_allVars(AppIgnores)

-----------------------------------------------------------------------------
Phases == {"begin", "START", "METADATA", "DATA_START", "DATA", "POLL",
           "DATA_END", "VERIFY", "REBOOT"} \cup Ended

Commands == {"START", "METADATA", "DATA_START", "DATA", "DATA_END", "VERIFY",
             "REBOOT", "CANCEL"}
Refusals == {"FRAME_SIZE", "HW_MISMATCH", "FW_TOO_BIG", "FLASH_ERASE_ERR",
             "INVALID_STATE", "BLOCK_CHECKSUM", "FLASH_WRITE_ERR",
             "FLASH_VERIFY_ERR", "CHECKSUM_ERR"}
(* What the node says.  A reply that makes the tool change its block, and  *)
(* the ACK of DATA_START, name a block: the tool reads it from these only. *)
Replies ==
    [kind : {"BEACON"}]
        \cup [kind : {"ACK"}, cmd : Commands \ {"DATA_START", "DATA"}]
        \cup [kind : {"ACK"}, cmd : {"DATA_START"}, block : 0 .. NBlocks]
        \cup [kind : {"NACK"}, cmd : Commands, code : Refusals]
        \cup [kind : {"NACK"}, cmd : {"START"}, code : {"INVALID_FRAME"}]
        \cup [kind : {"NACK"}, cmd : {"DATA_START", "DATA", "DATA_END"},
               code : ResyncCodes, block : 0 .. NBlocks]

LinkTypeOK ==
    /\ TypeOK
    /\ host \in [phase : Phases, block : 0 .. Blocks - 1, frame : 0 .. NFrames - 1,
                 tries : 0 .. MaxRetries, quiet : {0, 1}, waited : 0 .. HostWait]
    /\ slips \in 0 .. MaxSlips /\ stalls \in 0 .. MaxStalls
    /\ gone \in BOOLEAN
    /\ toNode \in Seq(Wire) /\ toHost \in Seq(Replies)

(* What a session has put into flash is the host's file, block by block:   *)
(* no loss, repetition, resynchronisation or retry makes the node accept a *)
(* block with a unit missing, doubled or in another place.  Two additive   *)
(* sums and the sequence numbers are all that stands against that, and     *)
(* with a stall they are not enough: the NACK of a timeout that the tool   *)
(* has not read yet and a repeated ACK of DATA_START make it send a block  *)
(* twice, and the node takes the second for the next.  The sum of the      *)
(* whole file stops such a session at VERIFY.                              *)
HoldsTheHosts == \A u \in Units : u < Received(ctx) => flash[target][u] = UnitAt(u)

AlwaysTheHosts == st \in {"DATA_TRANSFER", "VERIFY_PENDING"} => HoldsTheHosts

BlocksAreTheHosts ==
    /\ stalls = 0 \/ slips = 0 => AlwaysTheHosts
    /\ st = "REBOOT_PENDING" => HoldsTheHosts

(* What a comparison of sums leaves to chance.  The units of a block do not *)
(* add up to its tail alone, which is all that a repeated DATA_END finds in *)
(* the next block; a block that has the sum of a DATA_END is the block that *)
(* the frame ends; and a partition of whole blocks of the file, each in its *)
(* place or behind it, with the sum of the file is the file.               *)
FileBlocks == 0 .. Blocks - 1
OfTheFile(i) ==
    \E b \in FileBlocks :
        b <= i /\ \A u \in UnitsOf(i) : flash[target][u] = BlockOf(b)[u % NFrames]
FromTheFile == \A i \in 0 .. NBlocks - 1 : i < ctx.block => OfTheFile(i)

TailsTell ==
    \A b \in FileBlocks : BlockSum(BlockOf(b)) # BlockOf(b)[NFrames - 1] % BlockMod
BlockSumTells ==
    toNode # <<>> /\ BlockEnds(Head(toNode)) /\ SumHolds(Head(toNode)) =>
        \A b \in FileBlocks :
            Head(toNode) = DataEndFrame(b) => Filled(Head(toNode)) = BlockOf(b)
FileSumTells ==
    st = "VERIFY_PENDING" /\ FromTheFile /\ FlashSum(ctx) = ctx.sum => HoldsTheHosts

SumsTell == TailsTell /\ BlockSumTells /\ FileSumTells

Committed ==
    /\ meta = [part |-> target, flag |-> 0, size |-> Size, sum |-> SumFunction(Image)]
    /\ \A u \in DOMAIN Image : flash[target][u] = Image[u]

(* Once the tool has had the ACK of VERIFY, the partition holds a firmware *)
(* of the announced size and sum, and goes on holding it, whatever the bus *)
(* loses and repeats: no START is left on it that would erase it.          *)
VerifiedStays ==
    host.phase \in {"REBOOT", "done"} =>
        FirmwareSum(flash[target], Size) = SumFunction(Image)

(* upgrade_protocol.md:175: when the tool reports success, the new         *)
(* firmware is there (VerifiedStays), and the node has recorded it, or     *)
(* will have once it has read the bus empty.  Two exceptions to the        *)
(* record.  handler_reboot_pending ignores the result of the metadata save *)
(* (faults), so the tool is told of a commit that did not happen.  And the *)
(* tool takes any ACK for that of REBOOT: a repeated ACK of VERIFY and a   *)
(* lost REBOOT (two slips) deceive it.                                     *)
DoneMeansCommitted ==
    /\ []VerifiedStays
    /\ host.phase = "done" ~> Committed \/ faults > 0 \/ slips > 1

(* upgrade_protocol.md:256: the tool does not hang; it ends with a result, *)
(* within a few seconds once the session is dead.                          *)
UpgradeEnds == <>(host.phase \in Ended)
=============================================================================
