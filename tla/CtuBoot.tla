------------------------------ MODULE CtuBoot ------------------------------
(***************************************************************************)
(* The second upgrade path of the repository: the RS485 bootloader of the  *)
(* CTU boards (E1_CTU_BOOT) and the download inside the running CTU        *)
(* application (srv_boot_ctrl.c).  Both drive one session engine           *)
(* (boot_proto.c, boot_session.c), which writes partition B only; the      *)
(* bootloader later promotes B to A, where applications are linked.        *)
(*                                                                         *)
(* The upgrade_flag of the metadata ties the two programs together:        *)
(* 0 normal, 1 downloading in the bootloader, 2 committed, not promoted.   *)
(*                                                                         *)
(* The production build is modelled (BOOT_SKIP_APP_VERIFY = 0).  A block   *)
(* is one unit.  RS485 is half duplex, the host asks and the node answers  *)
(* at once, so a command and its answer are one action in which either may *)
(* be lost.  Only the board whose id is addressed is modelled.             *)
(***************************************************************************)
EXTENDS Naturals, Sequences, Functions

CONSTANTS
    NUnits,      \* blocks of a partition
    Files,       \* firmware images that the host tools accept
    Vectors,     \* first units that hold a legal vector table
    Blank,       \* what an erased unit reads as
    Torn,        \* what a unit reads as when its programming was cut
    TornSaves,   \* whether a metadata save can leave a torn frame
    Again,       \* whether the host may download once more before the power
                 \* cycle that a finished download in the application needs
    MaxFaults    \* bound: flash operations that may fail

Partitions == {"A", "B"}
Units == 0 .. NUnits - 1
Rows == [Units -> Nat]
BlankRow == [u \in Units |-> Blank]

ASSUME CtuAssumption ==
    /\ NUnits \in Nat \ {0} /\ {Blank, Torn, MaxFaults} \subseteq Nat
    /\ {TornSaves, Again} \subseteq BOOLEAN
    /\ Vectors \subseteq Nat \ {Blank, Torn}
    \* check_app_image: size and vector table are looked at before sending
    /\ \A f \in Files : f \in Seq(Nat) /\ Len(f) \in 1 .. NUnits /\ f[1] \in Vectors

(* magic is "none" while the metadata area has never been written.         *)
Metas == [magic : {"none", "bad", "good"}, flag : 0 .. 2, size : 0 .. NUnits, sum : Nat]
NoMeta == [magic |-> "none", flag |-> 0, size |-> 0, sum |-> 0]

Sessions ==
    [selected : BOOLEAN, downloading : BOOLEAN, size : 0 .. NUnits,
     expected : 0 .. NUnits, got : 0 .. NUnits, offset : 0 .. NUnits, total : Nat]
Fresh ==
    [selected |-> FALSE, downloading |-> FALSE, size |-> 0,
     expected |-> 0, got |-> 0, offset |-> 0, total |-> 0]

NoHost == [phase |-> "idle", file |-> <<>>, next |-> 0]

VARIABLES
    mode,     \* what the processor does
    why,      \* what the promotion in progress is for
    copied,   \* units that it has copied
    active,   \* s_active: the application is in a download session
    ses,      \* boot_session_t with its boot_proto_context_t
    ram,      \* s_meta, the bootloader's copy of the metadata
    meta,     \* the metadata in its ring storage
    flash,    \* the two partitions
    sick,     \* a torn frame stands where the next metadata save must go
    host,     \* the sending tool: phase, file, next block
    faults    \* flash operations that failed so far

node == <<mode, why, copied, active, ses, ram>>
stored == <<meta, flash, sick, faults>>
vars == <<node, stored, host>>

-----------------------------------------------------------------------------
FileSum(f) == SumFunction(f)
RowSum(row, size) == SumFunctionOnSet(row, 0 .. size - 1)

(* What the units of a partition may be: only the unit of a file that      *)
(* belongs there is ever programmed, whole or not.                         *)
UnitsAt(u) == {Blank, Torn} \cup {f[u + 1] : f \in {g \in Files : u < Len(g)}}
RowsOfFiles ==
    {row \in [Units -> UNION {UnitsAt(u) : u \in Units}] :
        \A u \in Units : row[u] \in UnitsAt(u)}

(* A sum tells the files apart, and from what interrupted operations       *)
(* leave: where additive 32-bit sums collide, the code cannot know.        *)
ASSUME FirmwareAssumption ==
    \A row \in RowsOfFiles, size \in 1 .. NUnits, f \in Files :
        RowSum(row, size) = FileSum(f)
            => size = Len(f) /\ \A i \in DOMAIN f : row[i - 1] = f[i]

(* boot_backup_matches_meta; boot_app_ok adds the vector table.            *)
Matches(p, m) == m.size > 0 /\ RowSum(flash[p], m.size) = m.sum
(* Variant for checking the checks: any recorded size is good enough.      *)
AppOkBySize(m) == m.size > 0 /\ flash["A"][0] \in Vectors
AppOk(m) == Matches("A", m) /\ flash["A"][0] \in Vectors

Faulty == faults < MaxFaults /\ faults' = faults + 1
Sound == UNCHANGED faults

(* boot_flash_write_metadata.  A save that the driver refuses may leave a  *)
(* torn frame, as a cut one does, and no save succeeds behind one          *)
(* (RSTornWrite).                                                          *)
Save(m) ==
    IF sick THEN UNCHANGED <<meta, sick, faults>>
    ELSE \/ meta' = m /\ UNCHANGED sick /\ Sound
         \/ UNCHANGED meta /\ sick' \in {FALSE, TornSaves} /\ Faulty

(* Programming finishes only what an erase left blank.                     *)
Written(p, u, x) == [flash EXCEPT ![p][u] = x]
SomeErased(p, S) == [flash EXCEPT ![p] = [u \in Units |-> IF u \in S THEN Blank ELSE @[u]]]

Holds(p, f) == \A i \in DOMAIN f : flash[p][i - 1] = f[i]

(* A new board, or one that was upgraded by its bootloader before.         *)
Installed(f) ==
    /\ meta = [magic |-> "good", flag |-> 0, size |-> Len(f), sum |-> FileSum(f)]
    /\ flash = [p \in Partitions |-> [u \in Units |-> IF u < Len(f) THEN f[u + 1] ELSE Blank]]

Init ==
    /\ mode = "init" /\ why = "none" /\ copied = 0
    /\ active = FALSE /\ ses = Fresh /\ ram = NoMeta
    /\ \/ meta = NoMeta /\ flash = [p \in Partitions |-> BlankRow]
       \/ \E f \in Files : Installed(f)
    /\ sick = FALSE /\ faults = 0
    /\ host = NoHost

(* A reset, wanted or not.                                                 *)
Restart ==
    /\ mode' = "init" /\ why' = "none" /\ copied' = 0
    /\ active' = FALSE /\ ses' = Fresh /\ ram' = NoMeta

-----------------------------------------------------------------------------
(* boot_task_try_boot_app.  boot_flash_init counts the start, which writes *)
(* the first record of a new board; the count itself is left out.          *)

FirstRecord == [NoMeta EXCEPT !.magic = "good"]
(* boot_flash_read_metadata: no frame reads as a record of zeros.          *)
Loaded(m) == IF m.magic = "none" THEN [m EXCEPT !.magic = "bad"] ELSE m

Promote(for) == mode' = "erase" /\ why' = for

(* Variant: a committed download is not looked for.                        *)
TriedForgetful(m) ==
    IF m.magic # "good" \/ m.flag # 0 THEN mode' = "enter" /\ UNCHANGED why
    ELSE mode' = "check" /\ UNCHANGED why

Tried(m) ==
    IF m.magic # "good" THEN mode' = "enter" /\ UNCHANGED why
    ELSE CASE m.flag = 2 /\ Matches("B", m)  -> Promote("resume")
           [] m.flag = 2 /\ ~Matches("B", m) -> mode' = "drop" /\ UNCHANGED why
           [] m.flag = 1                     -> mode' = "enter" /\ UNCHANGED why
           [] m.flag = 0                     -> mode' = "check" /\ UNCHANGED why

TryBootApp ==
    /\ mode = "init"
    /\ IF meta.magic = "none" THEN Save(FirstRecord) ELSE UNCHANGED <<meta, sick, faults>>
    /\ ram' = Loaded(meta')
    /\ Tried(ram')
    /\ UNCHANGED <<copied, active, ses, flash, host>>

Normal == [ram EXCEPT !.flag = 0]

(* The commit cannot be finished: the flag goes, the application is tried. *)
DropCommit ==
    /\ mode = "drop" /\ mode' = "check"
    /\ ram' = Normal /\ Save(Normal)
    /\ UNCHANGED <<why, copied, active, ses, flash, host>>

CheckApp ==
    /\ mode = "check"
    /\ IF AppOk(ram) THEN mode' = "app" /\ UNCHANGED why
       ELSE IF Matches("B", ram) THEN Promote("rebuild")
       ELSE mode' = "enter" /\ UNCHANGED why
    /\ UNCHANGED <<copied, active, ses, ram, stored, host>>

(* boot_task_init                                                          *)
EnterBoot ==
    /\ mode = "enter" /\ mode' = "boot"
    /\ ram' = [ram EXCEPT !.flag = 1] /\ Save(ram')
    /\ ses' = Fresh
    /\ UNCHANGED <<why, copied, active, flash, host>>

-----------------------------------------------------------------------------
(* boot_flash_promote_to_a and what each of its three callers does next.   *)

AfterFailure == [resume |-> "drop", rebuild |-> "enter", commit |-> "record"]

PromoteFailed ==
    /\ mode' = AfterFailure[why]
    /\ why' = IF why = "commit" THEN why ELSE "none"
    /\ copied' = 0
    /\ Faulty

PromoteErase ==
    /\ mode = "erase"
    /\ \/ /\ flash' = [flash EXCEPT !["A"] = BlankRow] /\ Sound
          /\ mode' = "copy" /\ UNCHANGED <<why, copied>>
       \/ /\ \E S \in SUBSET Units : flash' = SomeErased("A", S)
          /\ PromoteFailed
    /\ UNCHANGED <<active, ses, ram, meta, sick, host>>

PromoteCopy ==
    /\ mode = "copy" /\ copied < ram.size
    /\ \/ /\ flash' = Written("A", copied, flash["B"][copied]) /\ Sound
          /\ copied' = copied + 1 /\ UNCHANGED <<mode, why>>
       \/ /\ flash' \in {flash, Written("A", copied, Torn)}
          /\ PromoteFailed
    /\ UNCHANGED <<active, ses, ram, meta, sick, host>>

PromoteCopied ==
    /\ mode = "copy" /\ copied = ram.size /\ mode' = "record"
    /\ UNCHANGED <<why, copied, active, ses, ram, stored, host>>

(* Variant: the promotion is not recorded.                                 *)
RecordNothing ==
    /\ mode = "record"
    /\ Restart /\ UNCHANGED <<stored, host>>

(* The record; its save is not checked.  A rebuilt application is started, *)
(* after a commit or its resumption the board resets.                      *)
Record ==
    /\ mode = "record"
    /\ Save(Normal)
    /\ IF why = "rebuild"
       THEN /\ mode' = IF AppOk(Normal) THEN "app" ELSE "enter"
            /\ ram' = Normal /\ why' = "none" /\ copied' = 0
            /\ UNCHANGED <<active, ses>>
       ELSE Restart
    /\ UNCHANGED <<flash, host>>

-----------------------------------------------------------------------------
(* The session engine, in the bootloader or in the application, and the    *)
(* sending tool (boot_protocol.py, ctu_boot.c).  The tool repeats a        *)
(* command whose answer it misses and cancels on an error.                 *)

Listening == mode = "boot" \/ (mode = "app" /\ active)

(* The answer arrives, or the host waits in vain and repeats its command.  *)
Answered(next) == host' \in {host, next}
Refused == Answered([host EXCEPT !.phase = "cancel"])

(* com_task.c: the first 0x06 opens the application's session.             *)
EnterUpgrade ==
    /\ mode = "app" /\ ~active /\ host.phase = "idle"
    /\ meta.flag = 2 => Again
    /\ active' = TRUE /\ ses' = Fresh
    /\ UNCHANGED <<mode, why, copied, ram, stored, host>>

Select ==
    /\ Listening /\ host.phase = "idle"
    /\ ses' = [ses EXCEPT !.selected = TRUE, !.downloading = FALSE]
    /\ \E f \in Files : Answered([phase |-> "start", file |-> f, next |-> 0])
    /\ UNCHANGED <<mode, why, copied, active, ram, stored>>

(* Variant: the sum of the last download goes on.                          *)
StartedKeepsSum(s) == [s EXCEPT !.downloading = TRUE, !.offset = 0]

(* session_start, once the partition is erased.                            *)
Started(s) == [s EXCEPT !.downloading = TRUE, !.offset = 0, !.total = 0]

Announced == [ses EXCEPT !.size = Len(host.file), !.expected = 0, !.got = 0]

Start ==
    /\ Listening /\ host.phase = "start"
    /\ \/ /\ ~ses.selected
          /\ Refused /\ UNCHANGED <<ses, flash, faults>>
       \/ /\ ses.selected
          /\ flash' = [flash EXCEPT !["B"] = BlankRow] /\ Sound
          /\ ses' = Started(Announced)
          /\ Answered([host EXCEPT !.phase = "data"])
       \/ /\ ses.selected
          /\ \E S \in SUBSET Units : flash' = SomeErased("B", S)
          /\ Faulty
          /\ ses' = Announced
          /\ Refused
    /\ UNCHANGED <<mode, why, copied, active, ram, meta, sick>>

Sends(b) == Listening /\ host.phase = "data" /\ host.next < Len(host.file) /\ host.next = b
Unit == host.file[host.next + 1]
NextBlock == [host EXCEPT !.next = @ + 1]

Data ==
    /\ Sends(ses.expected) /\ ses.downloading
    /\ \/ /\ flash["B"][ses.expected] = Blank
          /\ flash' = Written("B", ses.expected, Unit) /\ Sound
          /\ ses' = [ses EXCEPT !.expected = @ + 1, !.got = @ + 1,
                                !.offset = ses.expected + 1, !.total = @ + Unit]
          /\ Answered(NextBlock)
       \/ /\ flash["B"][ses.expected] = Blank
          /\ \E x \in {Blank, Torn, Unit} : flash' = Written("B", ses.expected, x)
          /\ Faulty /\ UNCHANGED <<ses, host>>
    /\ UNCHANGED <<mode, why, copied, active, ram, meta, sick>>

(* Variant: a repeated block is counted once more.                         *)
DataAgainCounted ==
    /\ ses.expected > 0 /\ Sends(ses.expected - 1) /\ ses.downloading
    /\ ses' = [ses EXCEPT !.got = @ + 1]
    /\ host' = NextBlock
    /\ UNCHANGED <<mode, why, copied, active, ram, stored>>

(* The block before the expected one is only acknowledged again.           *)
DataAgain ==
    /\ ses.expected > 0 /\ Sends(ses.expected - 1) /\ ses.downloading
    /\ host' = NextBlock
    /\ UNCHANGED <<node, stored>>

(* Every other DATA is answered with an error and changes nothing: wrong   *)
(* block, no download, a unit that is not blank.  Cancel follows.          *)

Sent == host.phase = "data" /\ host.next = Len(host.file)

(* session_end with the two boot_commit callbacks: the answer goes out     *)
(* before the commit is tried.  (Variant: the flag of the flow in which    *)
(* the application jumped to the bootloader.)                              *)
CommittedOldWay(m) == [m EXCEPT !.flag = 1, !.size = ses.offset, !.sum = ses.total]
Committed(m) == [m EXCEPT !.flag = 2, !.size = ses.offset, !.sum = ses.total]
Complete == ses.downloading /\ ses.got = ses.size /\ ses.offset = ses.size

EndInApp ==
    /\ mode = "app" /\ active /\ Sent /\ Complete
    /\ Save(Committed(meta))
    /\ active' = (meta' # Committed(meta))
    /\ Answered(NoHost)
    /\ UNCHANGED <<mode, why, copied, ses, ram, flash>>

EndInBoot ==
    /\ mode = "boot" /\ Sent /\ Complete
    /\ ram' = Committed(ram) /\ Save(ram')
    /\ Promote("commit") /\ copied' = 0
    /\ Answered(NoHost)
    /\ UNCHANGED <<active, ses, flash>>

EndRefused ==
    /\ Listening /\ Sent /\ ~Complete
    /\ Refused
    /\ UNCHANGED <<node, stored>>

(* The bootloader of a board without a number learns it from the first     *)
(* command it hears, and saves its metadata.  The number itself is left    *)
(* out, so that this may come with any command.                            *)
LearnId ==
    /\ mode = "boot" /\ Save(ram)
    /\ UNCHANGED <<node, flash, host>>

Abort ==
    /\ Listening /\ host.phase # "idle"
    /\ host' = NoHost
    /\ IF mode = "app"
       THEN active' = FALSE /\ UNCHANGED <<mode, why, copied, ses, ram, stored>>
       ELSE Save(Normal) /\ Restart /\ UNCHANGED flash

(* The tool ends: cancelled, out of retries, or its ABORT was lost.        *)
GiveUp == host.phase # "idle" /\ host' = NoHost /\ UNCHANGED <<node, stored>>

(* com_task_service: ten seconds without a byte.                           *)
IdleTimeout ==
    /\ mode = "app" /\ active /\ active' = FALSE
    /\ UNCHANGED <<mode, why, copied, ses, ram, stored, host>>

-----------------------------------------------------------------------------
PowerFail ==
    /\ mode # "init"
    /\ Restart /\ UNCHANGED <<stored, host>>

Erasing(p) ==
    \/ mode = "erase" /\ p = "A"
    \/ Listening /\ host.phase = "start" /\ ses.selected /\ p = "B"

PowerFailErase ==
    /\ \E p \in Partitions, S \in SUBSET Units : Erasing(p) /\ flash' = SomeErased(p, S)
    /\ Restart /\ UNCHANGED <<meta, sick, faults, host>>

Programming(p, u) ==
    \/ mode = "copy" /\ p = "A" /\ u = copied /\ u < ram.size
    \/ Sends(ses.expected) /\ ses.downloading /\ p = "B" /\ u = ses.expected

PowerFailProgram ==
    /\ \E p \in Partitions, u \in Units :
        Programming(p, u) /\ flash[p][u] = Blank /\ flash' = Written(p, u, Torn)
    /\ Restart /\ UNCHANGED <<meta, sick, faults, host>>

(* The supply fails while metadata are saved: at every start, and wherever *)
(* the flag changes.                                                       *)
Saving ==
    \/ mode \in {"init", "drop", "record", "enter"}
    \/ mode = "boot"
    \/ mode = "app" /\ active /\ Sent /\ Complete

PowerFailSave ==
    /\ TornSaves /\ Saving /\ sick' = TRUE
    /\ Restart /\ UNCHANGED <<meta, flash, faults, host>>

BoardNext ==
    \/ TryBootApp \/ DropCommit \/ CheckApp \/ EnterBoot
    \/ PromoteErase \/ PromoteCopy \/ PromoteCopied \/ Record

SessionNext ==
    \/ EnterUpgrade \/ Select \/ Start \/ Data \/ DataAgain
    \/ EndInApp \/ EndInBoot \/ EndRefused \/ LearnId \/ Abort \/ GiveUp \/ IdleTimeout

Next ==
    \/ BoardNext \/ SessionNext
    \/ PowerFail \/ PowerFailErase \/ PowerFailProgram \/ PowerFailSave

(* Startup code and commits run to their end once the supply holds.        *)
Spec == Init /\ [][Next]_vars /\ WF_vars(BoardNext)

-----------------------------------------------------------------------------
Modes == {"init", "drop", "check", "enter", "boot", "erase", "copy", "record", "app"}

TypeOK ==
    /\ mode \in Modes
    /\ why \in {"none", "resume", "rebuild", "commit"}
    /\ copied \in 0 .. NUnits
    /\ active \in BOOLEAN
    /\ ses \in Sessions
    /\ ram \in Metas /\ meta \in Metas
    /\ flash \in [Partitions -> Rows]
    /\ sick \in BOOLEAN
    /\ host \in [phase : {"idle", "start", "data", "cancel"},
                 file : Files \cup {<<>>}, next : 0 .. NUnits]
    /\ faults \in 0 .. MaxFaults

(* What runs is one of the firmware files, whole: no order of downloads,   *)
(* cancels, flash failures and power failures leads to the jump into half  *)
(* a firmware, and nothing touches the running one (srv_boot_ctrl.h:17).   *)
RunsWhole == mode = "app" => \E f \in Files : Holds("A", f)

(* srv_boot_ctrl.h:20, boot_485_ymodem.md:46: a download in the running    *)
(* application never costs the board its firmware.  If the supply fails at *)
(* any moment, the next start finds an application in A or rebuilds one    *)
(* from B without the host.                                                *)
NextStartRuns ==
    mode = "app" =>
        /\ meta.magic = "good" /\ meta.flag # 1
        /\ Matches("A", meta) \/ Matches("B", meta)

(* boot_485_ymodem.md:65: an interrupted promotion is repaired without the *)
(* host.  A board that has ever recorded a firmware does not wait in its   *)
(* bootloader any more.  Excepted: a metadata area behind a torn frame; a  *)
(* board whose very first save failed - its record then never gets the     *)
(* magic number; and two failed promotions in a row, after which           *)
(* boot_task_init sets the flag to 1 although B is whole.                  *)
HostNotNeeded ==
    mode = "boot" /\ ~sick /\ ram.magic = "good" /\ faults < 2 => meta.size = 0

(* What is committed is the file of the transfer that commits it, whatever *)
(* answers were lost and whatever earlier transfer was broken off.         *)
CommittedIsTheHosts ==
    [][meta' # meta /\ meta'.flag = 2 =>
        /\ meta'.size = Len(host.file) /\ meta'.sum = FileSum(host.file)
        /\ Holds("B", host.file)]_vars

(* boot_task.c:432: left alone, the board comes to rest - in an            *)
(* application or in its bootloader, not in a loop of resets.  A torn      *)
(* metadata save is excepted: with flag = 2 stored before it, every start  *)
(* promotes B once more, cannot record that, and resets.                   *)
Settles ==
    <>[][BoardNext]_vars /\ <>[](~sick) => <>[](mode = "app") \/ <>[](mode = "boot")
=============================================================================
