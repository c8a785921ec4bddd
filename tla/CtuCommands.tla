---------------------------- MODULE CtuCommands ----------------------------
(***************************************************************************)
(* The command service of a CTU board on RS485 and the client that polls   *)
(* it: com_task.c and srv_com_mst.c over protocol_parser.c on the board,   *)
(* ctu_client_request of the C SDK on the PC.                              *)
(*                                                                         *)
(* A request is the six bytes z, cmd, data_len, id, CRC, \n; byte i of     *)
(* request n with command c is <<n, c, i>>.  A length is read from         *)
(* whatever byte has come third, so bytes that the line loses make the     *)
(* parser wait for a long frame: Value gives the bytes their size, smaller *)
(* than in the code (z is 122 there), in proportion to MaxParse.  A CRC    *)
(* that fits by chance is left out.  Answers carry no number of their      *)
(* request; here they do, for the properties.                              *)
(*                                                                         *)
(* One board is on the line.  The idle timeout of the parser is left out:  *)
(* protocol_parser_feed clears idle_timer right before every parse.        *)
(***************************************************************************)
EXTENDS Naturals, Sequences, FiniteSetsExt

CONSTANTS
    Commands,     \* commands a host sends; "upgrade" opens a download session
    Value,        \* a byte's value, by its place in a request
    Reads,        \* sizes of a read, up to COM_READ_BUF_SIZE
    MaxParse,     \* SRV_COM_MST_MAX_PARSE_PER_FEED
    Remains,      \* what the line may leave of a request: places, in order
    MaxRequests,  \* requests in a behaviour
    MaxFaults,    \* losses on the line and answers that come too late
    Patience      \* requests that may fail in a row after a fault

FrameLen == 6
ASSUME CommandAssumption ==
    /\ Value \in [1 .. FrameLen -> Nat] /\ Value[3] = 1
    /\ Reads \subseteq Nat \ {0} /\ MaxParse \in Nat \ {0}
    /\ Remains \subseteq Seq(1 .. FrameLen)
    /\ \A left \in Remains : \A i, j \in DOMAIN left : i < j => left[i] < left[j]
    /\ {MaxRequests, MaxFaults, Patience} \subseteq Nat /\ "nothing" \notin Commands

VARIABLES
    sent,      \* number of the host's latest request
    awaited,   \* its command while the host waits, or "nothing"
    line,      \* bytes on their way to the board, with those of its receive FIFO
    fifo,      \* ctx->fifo of the parser
    matched,   \* ctx->header_matched
    session,   \* srv_boot_ctrl_is_upgrade_active
    sending,   \* answers queued or under way, first to last
    arrived,   \* answers that the host has not read
    done,      \* requests executed, in order
    taken,     \* requests whose answers ctu_client_request returned with CTU_OK
    faults,
    failed     \* requests in a row that ended without their own answer, since
               \* the last fault or session

parser == <<fifo, matched>>
device == <<parser, session, sending, done>>
host == <<sent, awaited, arrived, taken, failed>>
commandVars == <<line, device, host, faults>>

RequestBytes(n, c) == [i \in 1 .. FrameLen |-> <<n, c, i>>]

CommandInit ==
    /\ sent = 0 /\ awaited = "nothing" /\ line = <<>>
    /\ fifo = <<>> /\ matched = FALSE /\ session = FALSE
    /\ sending = <<>> /\ arrived = <<>> /\ done = <<>> /\ taken = <<>>
    /\ faults = 0 /\ failed = 0

-----------------------------------------------------------------------------
(* protocol_parser_parse, on s = [fifo, matched, out, stop]; out collects  *)
(* the frames that it returns, as <<n, c>>; an error ends a round, too.    *)

(* parser_check_header: everything up to the first z is taken out.         *)
Headers(f) == {k \in DOMAIN f : f[k][3] = 1}
Header(s) ==
    IF s.matched THEN s
    ELSE IF Headers(s.fifo) = {} THEN [s EXCEPT !.fifo = <<>>]
    ELSE [s EXCEPT !.matched = TRUE,
                   !.fifo = SubSeq(@, Min(Headers(@)) + 1, Len(@))]

(* com_get_len_cb, without the header; 0 while data_len has not come.      *)
Length(f) == IF Len(f) < 2 THEN 0 ELSE Value[f[2][3]] + FrameLen - 2

(* com_check_cb: the bytes behind z are those of one request.              *)
Intact(f, len) ==
    len = FrameLen - 1 /\ \A k \in 1 .. len : f[k] = <<f[1][1], f[1][2], k + 1>>

(* Variant: the parser stays in the frame that it has ended.               *)
StaysMatched(s) == s
Unmatched(s) == [s EXCEPT !.matched = FALSE]

(* A frame whose last byte is wrong is scanned again behind its z, one     *)
(* whose CRC is wrong is skipped.                                          *)
Parse(s) ==
    LET h == Header(s)
        len == Length(h.fifo)
        error == Unmatched(h)
    IN  IF ~s.matched /\ Len(s.fifo) < 3 THEN [s EXCEPT !.stop = TRUE]
        ELSE IF ~h.matched THEN error
        ELSE IF len = 0 \/ Len(h.fifo) < len THEN [h EXCEPT !.stop = TRUE]
        ELSE IF h.fifo[len][3] # FrameLen THEN error
        ELSE [error EXCEPT
                !.fifo = SubSeq(@, len + 1, Len(@)),
                !.out = IF Intact(h.fifo, len)
                        THEN Append(@, <<h.fifo[1][1], h.fifo[1][2]>>) ELSE @]

(* srv_com_mst_rx_feed: at most MaxParse frames and errors at a time.      *)
Loaded(bytes) == [fifo |-> fifo \o bytes, matched |-> matched, out |-> <<>>, stop |-> FALSE]
Round(s) == IF s.stop THEN s ELSE Parse(s)
Fed(bytes) ==
    LET after[k \in 0 .. MaxParse] ==
          IF k = 0 THEN Loaded(bytes) ELSE Round(after[k - 1])
    IN  after[MaxParse]

-----------------------------------------------------------------------------
(* com_task_service: the bytes that have come, as far as one read goes.    *)

(* com_handle_frame, for every frame of the feed.  The answer to "upgrade" *)
(* does not tell whether the session could be opened.                      *)
Feed(bytes) ==
    LET s == Fed(bytes)
        frames == s.out
    IN  /\ fifo' = s.fifo /\ matched' = s.matched
        /\ sending' = sending \o frames
        /\ done' = done \o [k \in DOMAIN frames |-> frames[k][1]]
        /\ session' \in IF \E k \in DOMAIN frames : frames[k][2] = "upgrade"
                        THEN BOOLEAN ELSE {FALSE}

(* The bytes of a session are srv_boot_ctrl_feed's; it answers none of     *)
(* these requests.                                                         *)
Service ==
    /\ line # <<>>
    /\ \E k \in {Min({r, Len(line)}) : r \in Reads} :
         /\ line' = SubSeq(line, k + 1, Len(line))
         /\ IF session THEN UNCHANGED <<parser, session, sending, done>>
            ELSE Feed(SubSeq(line, 1, k))
    /\ failed' = IF session' THEN 0 ELSE failed
    /\ UNCHANGED <<sent, awaited, arrived, taken, faults>>

(* The download of the session ends or is aborted (CtuBoot), or ten        *)
(* seconds pass without a byte, while the host does not poll.              *)
SessionEnds ==
    /\ session /\ line = <<>> /\ awaited = "nothing"
    /\ session' = FALSE
    /\ UNCHANGED <<line, parser, sending, done, host, faults>>

(* The board's answers come to the host, one by one.                       *)
Transmit ==
    /\ sending # <<>> /\ sending' = Tail(sending)
    /\ \/ arrived' = Append(arrived, Head(sending)) /\ UNCHANGED <<faults, failed>>
       \/ /\ faults < MaxFaults /\ faults' = faults + 1 /\ failed' = 0
          /\ UNCHANGED arrived
    /\ UNCHANGED <<line, parser, session, done, sent, awaited, taken>>

-----------------------------------------------------------------------------
(* ctu_client_request.                                                     *)

(* Variant: what has come in before is kept.                               *)
Unflushed == arrived
(* ctu_transport_flush_input                                               *)
Flushed == <<>>

(* The host writes its request.  While the board sends, it hears nothing:  *)
(* the end of the request gets through, or nothing, and the answer under   *)
(* way may be spoilt.  On a free line some bytes may be lost.              *)
Ask(c) ==
    /\ awaited = "nothing" /\ sent < MaxRequests
    /\ sent' = sent + 1 /\ awaited' = c /\ arrived' = Flushed
    /\ LET all == RequestBytes(sent', c)
       IN  \/ /\ sending = <<>> /\ line' = line \o all
              /\ UNCHANGED <<sending, faults, failed>>
           \/ /\ sending # <<>>
              /\ \E j \in {4, FrameLen + 1} : line' = line \o SubSeq(all, j, FrameLen)
              /\ sending' \in {sending, Tail(sending)}
              /\ UNCHANGED <<faults, failed>>
           \/ /\ sending = <<>> /\ faults < MaxFaults /\ faults' = faults + 1
              /\ \E left \in Remains :
                   line' = line \o [k \in DOMAIN left |-> all[left[k]]]
              /\ failed' = 0 /\ UNCHANGED sending
    /\ UNCHANGED <<parser, session, done, taken>>

Ended(own) == failed' = IF own \/ session THEN 0 ELSE failed + 1

(* The first answer that comes: CTU_OK when its command fits, else         *)
(* CTU_ERROR_UNEXPECTED_REPLY.  By then the board has read all there is.   *)
Read ==
    /\ awaited # "nothing" /\ arrived # <<>> /\ line = <<>>
    /\ LET a == Head(arrived)
       IN  /\ taken' = IF a[2] = awaited THEN Append(taken, a[1]) ELSE taken
           /\ Ended(a[1] = sent)
    /\ arrived' = Tail(arrived) /\ awaited' = "nothing"
    /\ UNCHANGED <<line, device, sent, faults>>

(* The timeout: nothing is under way any more, or the board is slow.       *)
GiveUp ==
    /\ awaited # "nothing" /\ awaited' = "nothing" /\ arrived = <<>>
    /\ \/ line = <<>> /\ sending = <<>> /\ Ended(FALSE) /\ UNCHANGED faults
       \/ /\ line # <<>> \/ sending # <<>>
          /\ faults < MaxFaults /\ faults' = faults + 1 /\ failed' = 0
    /\ UNCHANGED <<line, device, sent, arrived, taken>>

(* The host has asked for all it wants (MaxRequests).                      *)
HostRests ==
    /\ awaited = "nothing" /\ sent = MaxRequests /\ line = <<>> /\ sending = <<>>
    /\ UNCHANGED commandVars

CommandNext ==
    \/ \E c \in Commands : Ask(c)
    \/ Read \/ GiveUp \/ HostRests
    \/ Service \/ Transmit \/ SessionEnds
CommandSpec == CommandInit /\ [][CommandNext]_commandVars

-----------------------------------------------------------------------------
(* Type invariant of the command service and its client.                   *)
Bytes == (1 .. sent) \X Commands \X (1 .. FrameLen)
Pairs == (1 .. sent) \X Commands
Elements(s) == {s[k] : k \in DOMAIN s}
CommandTypeOK ==
    /\ Elements(line) \cup Elements(fifo) \subseteq Bytes
    /\ {matched, session} \subseteq BOOLEAN
    /\ Elements(sending) \cup Elements(arrived) \subseteq Pairs
    /\ Elements(done) \cup Elements(taken) \subseteq 1 .. sent
    /\ sent \in 0 .. MaxRequests /\ awaited \in Commands \cup {"nothing"}
    /\ faults \in 0 .. MaxFaults /\ failed \in 0 .. sent

Increasing(s) == \A i, j \in DOMAIN s : i < j => s[i] < s[j]

(* However the parser lost its place and scanned bytes again, the board    *)
(* executes each request at most once and in the order in which they were  *)
(* sent, and what the client returns never goes back in time: an answer it *)
(* takes is of a later request than those it took before.                  *)
InOrder == Increasing(done) /\ Increasing(taken)

(* Without a fault every request outside a session ends with its own       *)
(* answer; after one, at most Patience requests in a row fail or return    *)
(* the answer of another one, then they are their own again.               *)
Undisturbed == faults = 0 /\ ~session => failed = 0
OwnAnswers == failed <= Patience /\ Undisturbed

CommandsKept == InOrder /\ OwnAnswers

(* Violated, against srv_com_mst.c:190 (what is left over after four       *)
(* frames goes on in the next cycle): com_task_service parses only when    *)
(* bytes have come, so a whole request waits in the parser for the next    *)
(* one.                                                                    *)
NothingLeftOver == line = <<>> => Fed(<<>>).out = <<>>
=============================================================================
