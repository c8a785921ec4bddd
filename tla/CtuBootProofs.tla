---------------------------- MODULE CtuBootProofs ----------------------------
(***************************************************************************)
(* The CTU boards run only whole firmware, a commit records what the host  *)
(* has sent, and a download in the running application never costs the     *)
(* board its firmware: for partitions and files of any size and any number *)
(* of flash failures, power failures and lost answers.  Interrupted        *)
(* promotions repair themselves: a board with a recorded firmware does not *)
(* wait for the host.                                                      *)
(*                                                                         *)
(* The session adds up the units as they come (ses.total), the boot        *)
(* decision sums what the flash holds.  That both are the same needs what  *)
(* the sums of Functions compute: SumProofs.                               *)
(***************************************************************************)
EXTENDS CtuBoot, SumProofs

-----------------------------------------------------------------------------
(* The sums of rows and files.                                             *)

LEMMA RowSumIs ==
    ASSUME NEW row, NEW size
    PROVE  RowSum(row, size) = SumFunctionOnSet(row, 0 .. size - 1)
  BY DEF RowSum

LEMMA RowSums ==
    ASSUME NEW row \in Rows
    PROVE  /\ RowSum(row, 0) = 0
           /\ \A n \in Units : /\ RowSum(row, n) \in Nat
                              /\ RowSum(row, n + 1) = RowSum(row, n) + row[n]
  <1>1. 0 .. 0 - 1 = {}  OBVIOUS
  <1>2. ASSUME NEW n \in Units
        PROVE  /\ RowSum(row, n) \in Nat
               /\ RowSum(row, n + 1) = RowSum(row, n) + row[n]
    <2>1. /\ n \in Nat /\ 0 .. (n + 1) - 1 = (0 .. n - 1) \cup {n} /\ n \notin 0 .. n - 1
          /\ \A u \in (0 .. n - 1) \cup {n} : row[u] \in Nat
      BY CtuAssumption DEF Units, Rows
    <2>2. IsFiniteSet(0 .. n - 1)  BY <2>1, FS_Interval
    <2>3. /\ SumFunctionOnSet(row, 0 .. n - 1) \in Nat
          /\ SumFunctionOnSet(row, 0 .. (n + 1) - 1)
               = SumFunctionOnSet(row, 0 .. n - 1) + row[n]
      <3> DEFINE S == 0 .. n - 1
      <3> HIDE DEF S
      <3>1. /\ IsFiniteSet(S) /\ n \notin S /\ 0 .. (n + 1) - 1 = S \cup {n}
            /\ \A u \in S \cup {n} : row[u] \in Nat
        BY <2>1, <2>2 DEF S
      <3>2. QED  BY <3>1, SumGrows DEF S
    <2>4. QED  BY <2>3, RowSumIs
  <1>3. QED  BY <1>1, <1>2, SumOfNone DEF RowSum

(* Sums of rows that begin alike are the same.                             *)
LEMMA SameSums ==
    ASSUME NEW row \in Rows, NEW new, NEW n \in 0 .. NUnits,
           \A u \in 0 .. n - 1 : new[u] = row[u]
    PROVE  RowSum(new, n) = RowSum(row, n)
  <1>1. IsFiniteSet(0 .. n - 1)  BY FS_Interval
  <1>2. QED  BY <1>1, SumAgrees DEF RowSum

(* A row that begins with a file has the file's sum there.                 *)
LEMMA FileSums ==
    ASSUME NEW row \in Rows, NEW f \in Files, \A i \in DOMAIN f : row[i - 1] = f[i]
    PROVE  RowSum(row, Len(f)) = FileSum(f)
  <1>1. /\ DOMAIN f = 1 .. Len(f) /\ Len(f) \in 1 .. NUnits
        /\ \A i \in 1 .. Len(f) : f[i] \in Nat
    BY CtuAssumption
  <1> DEFINE Fail == {n \in Nat : n <= Len(f) /\ RowSum(row, n) # SumFunctionOnSet(f, 1 .. n)}
  <1>2. ASSUME NEW n \in Fail, \A k \in Fail : ~(k < n)  PROVE FALSE
    <2>1. CASE n = 0
      <3>1. 1 .. n = {}  BY <2>1
      <3>2. QED  BY <2>1, <3>1, RowSums, SumOfNone
    <2>2. CASE n # 0
      <3> DEFINE k == n - 1
      <3>1. k \in Nat /\ k < n /\ k \in Units /\ k + 1 = n
        BY <1>1, <2>2, CtuAssumption DEF Units
      <3>2. RowSum(row, k) = SumFunctionOnSet(f, 1 .. k)  BY <1>1, <1>2, <3>1
      <3>3. RowSum(row, n) = RowSum(row, k) + row[k]  BY <3>1, RowSums
      <3>4. SumFunctionOnSet(f, 1 .. n) = SumFunctionOnSet(f, 1 .. k) + f[n]
        <4>1. /\ 1 .. n = (1 .. k) \cup {n} /\ n \notin 1 .. k
              /\ \A i \in (1 .. k) \cup {n} : f[i] \in Nat
          BY <1>1, <3>1
        <4>2. 1 \in Int /\ k \in Int  BY <3>1
        <4>3. IsFiniteSet(1 .. k)
          <5> HIDE DEF k
          <5> QED  BY <4>2, FS_Interval
        <4>4. QED
          <5> DEFINE S == 1 .. k
          <5> HIDE DEF S, k
          <5>1. /\ IsFiniteSet(S) /\ n \notin S /\ 1 .. n = S \cup {n}
                /\ \A u \in S \cup {n} : f[u] \in Nat
            BY <4>1, <4>3 DEF S
          <5>2. QED  BY <5>1, SumGrows DEF S
      <3>5. row[k] = f[n]  BY <1>1, <2>2
      <3>6. QED  BY <3>2, <3>3, <3>4, <3>5
    <2>3. QED  BY <2>1, <2>2
  <1>3. Fail = {}
    <2> HIDE DEF Fail
    <2>1. Fail \in SUBSET Nat  BY DEF Fail
    <2>2. QED  BY <1>2, <2>1, LeastNat
  <1>4. QED  BY <1>1, <1>3 DEF FileSum, SumFunction
-----------------------------------------------------------------------------
(* The inductive invariant.                                                *)

FlashOfFiles == \A p \in Partitions, u \in Units : flash[p][u] \in UnitsAt(u)

(* A record of a firmware is the size and the sum of one that was sent.    *)
Named(m) == m.size > 0 => \E f \in Files : m.size = Len(f) /\ m.sum = FileSum(f)
RecordsNameFiles == Named(meta) /\ Named(ram)

HostHasFile == host.phase # "idle" => host.file \in Files
InSession == active => mode = "app"
PromotionHasCause ==
    mode \in {"erase", "copy", "record"} => why \in {"resume", "rebuild", "commit"}

(* The record that the bootloader may save again on learning its number is *)
(* one of a download under way, never of a commit.                         *)
BootMarks == mode = "boot" => ram.flag = 1

(* What the session has counted is what partition B holds of the host's    *)
(* file: the first expected units.                                         *)
SessionIsTheHosts ==
    host.phase = "data" /\ ses.downloading =>
        /\ ses.size = Len(host.file) /\ ses.got = ses.expected /\ ses.offset = ses.expected
        /\ ses.expected <= Len(host.file)
        /\ \A u \in 0 .. ses.expected - 1 : flash["B"][u] = host.file[u + 1]
        /\ ses.total = RowSum(flash["B"], ses.expected)

(* While a start has to decide what to do with what is recorded, the copy  *)
(* of the record in RAM names the same firmware as the record.             *)
Starting == mode \in {"drop", "check"} \/ (mode \in {"erase", "copy", "record"} /\ why # "commit")
StartKnowsRecord ==
    Starting =>
        /\ meta.magic = "good" /\ meta.flag # 1
        /\ ram.magic = "good" /\ ram.size = meta.size /\ ram.sum = meta.sum

(* What NextStartRuns needs in order to last: a session is only open while *)
(* the running firmware is the recorded one.                               *)
AppIsRecorded ==
    mode = "app" =>
        /\ meta.magic = "good" /\ meta.flag # 1
        /\ Matches("A", meta) \/ (meta.flag = 2 /\ Matches("B", meta))
        /\ active => meta.flag # 2

CtuInv ==
    /\ TypeOK /\ FlashOfFiles /\ RecordsNameFiles
    /\ HostHasFile /\ InSession /\ PromotionHasCause /\ BootMarks
    /\ SessionIsTheHosts /\ RunsWhole
    /\ StartKnowsRecord /\ (Again \/ AppIsRecorded)
-----------------------------------------------------------------------------
(* What the operations of the flash do, unit by unit.                      *)

LEMMA UnitsFit == 0 \in Units /\ \A u \in Units : u \in Nat /\ u + 1 \in 1 .. NUnits
  BY CtuAssumption DEF Units

LEMMA WrittenIs ==
    ASSUME flash \in [Partitions -> Rows],
           NEW p \in Partitions, NEW u \in Units, NEW x \in Nat
    PROVE  /\ Written(p, u, x) \in [Partitions -> Rows]
           /\ \A q \in Partitions : q # p => Written(p, u, x)[q] = flash[q]
           /\ \A v \in Units : Written(p, u, x)[p][v] = IF v = u THEN x ELSE flash[p][v]
  BY DEF Written, Rows

LEMMA ErasedIs ==
    ASSUME flash \in [Partitions -> Rows], NEW p \in Partitions, NEW S
    PROVE  /\ SomeErased(p, S) \in [Partitions -> Rows]
           /\ \A q \in Partitions : q # p => SomeErased(p, S)[q] = flash[q]
           /\ \A v \in Units :
                SomeErased(p, S)[p][v] = IF v \in S THEN Blank ELSE flash[p][v]
  BY CtuAssumption DEF SomeErased, Rows

LEMMA BlankedIs ==
    ASSUME flash \in [Partitions -> Rows], NEW p \in Partitions
    PROVE  /\ [flash EXCEPT ![p] = BlankRow] \in [Partitions -> Rows]
           /\ \A q \in Partitions : q # p => [flash EXCEPT ![p] = BlankRow][q] = flash[q]
           /\ \A v \in Units : [flash EXCEPT ![p] = BlankRow][p][v] = Blank
  BY CtuAssumption DEF BlankRow, Rows

(* One operation of the flash on one partition: the units it may change,   *)
(* and what they may become.                                               *)
Touches(p, U) ==
    /\ flash' \in [Partitions -> Rows]
    /\ \A q \in Partitions : q # p => flash'[q] = flash[q]
    /\ \A v \in Units : \/ flash'[p][v] = flash[p][v]
                        \/ v \in U /\ flash'[p][v] \in UnitsAt(v)

LEMMA ErasesTouch ==
    ASSUME flash \in [Partitions -> Rows], NEW p \in Partitions,
           \/ \E S \in SUBSET Units : flash' = SomeErased(p, S)
           \/ flash' = [flash EXCEPT ![p] = BlankRow]
    PROVE  Touches(p, Units)
  <1>1. \A u \in Units : Blank \in UnitsAt(u)  BY DEF UnitsAt
  <1>2. CASE \E S \in SUBSET Units : flash' = SomeErased(p, S)
    BY <1>1, <1>2, ErasedIs DEF Touches
  <1>3. CASE flash' = [flash EXCEPT ![p] = BlankRow]
    BY <1>1, <1>3, BlankedIs DEF Touches
  <1>4. QED  BY <1>2, <1>3

LEMMA WritesTouch ==
    ASSUME flash \in [Partitions -> Rows], NEW p \in Partitions, NEW u \in Units,
           NEW x \in UnitsAt(u), x \in Nat, flash' = Written(p, u, x)
    PROVE  Touches(p, {u})
  BY WrittenIs DEF Touches
(* The only steps that change the flash: a promotion writes A, a session   *)
(* writes B.                                                               *)
LEMMA FlashOfSteps ==
    ASSUME TypeOK, FlashOfFiles, HostHasFile, [Next]_vars
    PROVE  \/ flash' = flash
           \/ mode \in {"erase", "copy"} /\ Touches("A", Units)
           \/ Listening /\ Touches("B", Units)
  <1>1. /\ flash \in [Partitions -> Rows] /\ "A" \in Partitions /\ "B" \in Partitions
        /\ copied \in 0 .. NUnits /\ ram.size \in 0 .. NUnits
        /\ ses.expected \in 0 .. NUnits /\ NUnits \in Nat
    BY CtuAssumption DEF TypeOK, Partitions, Metas, Sessions
  <1>2. \A u \in Units : Torn \in UnitsAt(u) /\ Torn \in Nat /\ Blank \in UnitsAt(u) /\ Blank \in Nat
    BY CtuAssumption DEF UnitsAt
  <1>3. ASSUME Sends(ses.expected)
        PROVE  ses.expected \in Units /\ Unit \in UnitsAt(ses.expected) /\ Unit \in Nat
    <2>1. host.file \in Files  BY <1>3 DEF Sends, HostHasFile
    <2>2. /\ host.file \in Seq(Nat) /\ Len(host.file) \in 1 .. NUnits
          /\ host.next = ses.expected /\ ses.expected < Len(host.file)
      BY <1>3, <2>1, CtuAssumption DEF Sends
    <2>3. ses.expected \in Units /\ ses.expected + 1 \in 1 .. Len(host.file)
      BY <1>1, <2>2 DEF Units
    <2>4. Unit = host.file[ses.expected + 1] /\ Unit \in Nat  BY <2>2, <2>3 DEF Unit
    <2>5. QED  BY <2>1, <2>2, <2>3, <2>4 DEF UnitsAt
  <1>4. ASSUME NEW p \in Partitions, NEW u \in Units, Touches(p, {u})
        PROVE  Touches(p, Units)
    BY <1>4 DEF Touches
  <1>5. CASE PromoteErase
    BY <1>1, <1>5, ErasesTouch DEF PromoteErase
  <1>6. CASE PromoteCopy
    <2>1. copied \in Units  BY <1>1, <1>6 DEF PromoteCopy, Units
    <2>2. flash["B"][copied] \in UnitsAt(copied) /\ flash["B"][copied] \in Nat
      BY <1>1, <2>1 DEF FlashOfFiles, Rows
    <2>3. \/ flash' = flash
          \/ flash' = Written("A", copied, flash["B"][copied])
          \/ flash' = Written("A", copied, Torn)
      BY <1>6 DEF PromoteCopy
    <2>4. QED  BY <1>1, <1>2, <1>4, <1>6, <2>1, <2>2, <2>3, WritesTouch DEF PromoteCopy
  <1>7. CASE Start
    BY <1>1, <1>7, ErasesTouch DEF Start
  <1>8. CASE Data
    <2>1. ses.expected \in Units /\ Unit \in UnitsAt(ses.expected) /\ Unit \in Nat
      BY <1>3, <1>8 DEF Data
    <2>2. PICK x \in {Blank, Torn, Unit} : flash' = Written("B", ses.expected, x)
      BY <1>8 DEF Data
    <2>3. QED  BY <1>1, <1>2, <1>4, <1>8, <2>1, <2>2, WritesTouch DEF Data, Sends
  <1>9. CASE PowerFailErase
    <2>1. PICK p \in Partitions, S \in SUBSET Units : Erasing(p) /\ flash' = SomeErased(p, S)
      BY <1>9 DEF PowerFailErase
    <2>2. Touches(p, Units)  BY <1>1, <2>1, ErasesTouch
    <2>3. QED  BY <2>1, <2>2 DEF Erasing
  <1>10. CASE PowerFailProgram
    <2>1. PICK p \in Partitions, u \in Units :
            Programming(p, u) /\ flash' = Written(p, u, Torn)
      BY <1>10 DEF PowerFailProgram
    <2>2. Touches(p, Units)  BY <1>1, <1>2, <1>4, <2>1, WritesTouch
    <2>3. QED  BY <2>1, <2>2 DEF Programming, Sends
  <1>11. QED
    <2>1. CASE UNCHANGED vars  BY <2>1 DEF vars, stored
    <2>2. CASE \/ TryBootApp \/ DropCommit \/ CheckApp \/ EnterBoot
               \/ PromoteCopied \/ Record
      BY <2>2 DEF TryBootApp, DropCommit, CheckApp, EnterBoot, PromoteCopied, Record, stored
    <2>3. CASE \/ EnterUpgrade \/ Select \/ DataAgain \/ EndInApp \/ EndInBoot
               \/ EndRefused \/ LearnId \/ Abort \/ GiveUp \/ IdleTimeout
      BY <2>3 DEF EnterUpgrade, Select, DataAgain, EndInApp, EndInBoot, EndRefused,
                  LearnId, Abort, GiveUp, IdleTimeout, stored
    <2>4. CASE PowerFail \/ PowerFailSave
      BY <2>4 DEF PowerFail, PowerFailSave, stored
    <2>5. QED
      BY <1>5, <1>6, <1>7, <1>8, <1>9, <1>10, <2>1, <2>2, <2>3, <2>4
         DEF Next, BoardNext, SessionNext
LEMMA FlashKept ==
    ASSUME TypeOK, FlashOfFiles, HostHasFile, InSession, [Next]_vars
    PROVE  /\ flash' \in [Partitions -> Rows] /\ FlashOfFiles'
           /\ mode \notin {"erase", "copy"} => flash'["A"] = flash["A"]
           /\ ~Listening => flash'["B"] = flash["B"]
  <1>1. flash \in [Partitions -> Rows]  BY DEF TypeOK
  <1>2. \A p \in Partitions : p \in {"A", "B"}  BY DEF Partitions
  <1>3. CASE flash' = flash
    <2>1. FlashOfFiles'  BY <1>3 DEF FlashOfFiles, UnitsAt
    <2>2. QED  BY <1>1, <1>3, <2>1
  <1>4. ASSUME NEW p \in Partitions, Touches(p, Units)
        PROVE  /\ flash' \in [Partitions -> Rows] /\ FlashOfFiles'
               /\ \A q \in Partitions : q # p => flash'[q] = flash[q]
    <2>1. \A q \in Partitions, u \in Units : flash'[q][u] \in UnitsAt(u)
      BY <1>4 DEF Touches, FlashOfFiles
    <2>2. QED  BY <1>4, <2>1 DEF Touches, FlashOfFiles, UnitsAt
  <1>5. CASE mode \in {"erase", "copy"} /\ Touches("A", Units)
    BY <1>4, <1>5 DEF Partitions
  <1>6. CASE Listening /\ Touches("B", Units)
    BY <1>4, <1>6 DEF Partitions
  <1>7. QED  BY <1>3, <1>5, <1>6, FlashOfSteps

(* A save stores the record or leaves the old one.                         *)
LEMMA SaveIs ==
    ASSUME TypeOK, NEW m, Save(m)
    PROVE  meta' \in {m, meta} /\ sick' \in BOOLEAN /\ faults' \in 0 .. MaxFaults
  <1>1. /\ sick \in BOOLEAN /\ faults \in 0 .. MaxFaults /\ MaxFaults \in Nat
        /\ TornSaves \in BOOLEAN
    BY CtuAssumption DEF TypeOK
  <1>2. CASE sick  BY <1>1, <1>2 DEF Save
  <1>3. CASE ~sick
    <2>1. CASE meta' = m /\ UNCHANGED sick /\ Sound  BY <1>1, <2>1 DEF Sound
    <2>2. CASE UNCHANGED meta /\ sick' \in {FALSE, TornSaves} /\ Faulty
      <3>1. sick' \in BOOLEAN  BY <1>1, <2>2
      <3>2. faults' \in 0 .. MaxFaults  BY <1>1, <2>2 DEF Faulty
      <3>3. QED  BY <2>2, <3>1, <3>2
    <2>3. QED  BY <1>3, <2>1, <2>2 DEF Save
  <1>4. QED  BY <1>1, <1>2, <1>3

LEMMA RecordTypes ==
    ASSUME TypeOK
    PROVE  /\ FirstRecord \in Metas /\ NoMeta \in Metas /\ Normal \in Metas
           /\ [ram EXCEPT !.flag = 1] \in Metas
           /\ \A m \in Metas : /\ Loaded(m) \in Metas
                              /\ Committed(m) \in Metas
                              /\ Committed(m).magic = m.magic /\ Committed(m).flag = 2
                              /\ Committed(m).size = ses.offset
                              /\ Committed(m).sum = ses.total
  <1>1. NoMeta \in Metas  BY CtuAssumption DEF NoMeta, Metas
  <1>2. ram \in Metas /\ ses \in Sessions  BY DEF TypeOK
  <1>3. FirstRecord \in Metas  BY <1>1 DEF FirstRecord, Metas
  <1>4. Normal \in Metas /\ [ram EXCEPT !.flag = 1] \in Metas  BY <1>2 DEF Normal, Metas
  <1>5. ASSUME NEW m \in Metas
        PROVE  /\ Loaded(m) \in Metas
               /\ Committed(m) \in Metas
               /\ Committed(m).magic = m.magic /\ Committed(m).flag = 2
               /\ Committed(m).size = ses.offset
               /\ Committed(m).sum = ses.total
    <2>1. Loaded(m) \in Metas  BY DEF Loaded, Metas
    <2>2. ses.offset \in 0 .. NUnits /\ ses.total \in Nat  BY <1>2 DEF Sessions
    <2>3. Committed(m) \in Metas
      <3> DEFINE a == [m EXCEPT !.flag = 2]
                 b == [a EXCEPT !.size = ses.offset]
      <3>1. a \in Metas  BY DEF Metas
      <3>2. b \in Metas
        <4> HIDE DEF a
        <4> QED  BY <2>2, <3>1 DEF Metas
      <3>3. [b EXCEPT !.sum = ses.total] \in Metas
        <4> HIDE DEF b
        <4> QED  BY <2>2, <3>2 DEF Metas
      <3>4. QED  BY <3>3 DEF Committed
    <2>4. /\ Committed(m).magic = m.magic /\ Committed(m).flag = 2
          /\ Committed(m).size = ses.offset /\ Committed(m).sum = ses.total
      BY DEF Committed, Metas
    <2>5. QED  BY <2>1, <2>3, <2>4
  <1>6. QED  BY <1>1, <1>3, <1>4, <1>5
(* The changes of a session one field at a time.                           *)
LEMMA SessionFields ==
    ASSUME NEW r \in Sessions
    PROVE  /\ \A x \in BOOLEAN : [r EXCEPT !.selected = x] \in Sessions
           /\ \A x \in BOOLEAN : [r EXCEPT !.downloading = x] \in Sessions
           /\ \A x \in 0 .. NUnits : [r EXCEPT !.size = x] \in Sessions
           /\ \A x \in 0 .. NUnits : [r EXCEPT !.expected = x] \in Sessions
           /\ \A x \in 0 .. NUnits : [r EXCEPT !.got = x] \in Sessions
           /\ \A x \in 0 .. NUnits : [r EXCEPT !.offset = x] \in Sessions
           /\ \A x \in Nat : [r EXCEPT !.total = x] \in Sessions
  BY DEF Sessions

LEMMA FreshIs == Fresh \in Sessions /\ ~Fresh.downloading
  BY CtuAssumption DEF Fresh, Sessions

LEMMA SelectedIs ==
    ASSUME NEW r \in Sessions
    PROVE  LET s == [r EXCEPT !.selected = TRUE, !.downloading = FALSE]
           IN  s \in Sessions /\ ~s.downloading
  BY DEF Sessions

LEMMA AnnouncedIs ==
    ASSUME TypeOK, HostHasFile, host.phase # "idle"
    PROVE  Announced \in Sessions /\ Announced.size = Len(host.file)
           /\ Announced.expected = 0 /\ Announced.got = 0
  <1>1. ses \in Sessions /\ 0 \in 0 .. NUnits /\ Len(host.file) \in 0 .. NUnits
    BY CtuAssumption DEF TypeOK, HostHasFile
  <1> DEFINE a == [ses EXCEPT !.size = Len(host.file)]
             b == [a EXCEPT !.expected = 0]
             c == [b EXCEPT !.got = 0]
  <1>2. a \in Sessions /\ a.size = Len(host.file)
    BY <1>1 DEF Sessions
  <1>3. b \in Sessions /\ b.size = a.size /\ b.expected = 0
    <2> HIDE DEF a
    <2> QED  BY <1>1, <1>2 DEF Sessions
  <1>4. c \in Sessions /\ c.size = b.size /\ c.expected = b.expected /\ c.got = 0
    <2> HIDE DEF b
    <2> QED  BY <1>1, <1>3 DEF Sessions
  <1>5. Announced = c  BY DEF Announced
  <1> HIDE DEF a, b, c
  <1>6. QED  BY <1>2, <1>3, <1>4, <1>5

LEMMA StartedIs ==
    ASSUME NEW r \in Sessions
    PROVE  /\ Started(r) \in Sessions
           /\ Started(r).size = r.size /\ Started(r).expected = r.expected
           /\ Started(r).got = r.got /\ Started(r).offset = 0 /\ Started(r).total = 0
  <1>1. 0 \in 0 .. NUnits /\ 0 \in Nat  BY CtuAssumption
  <1> DEFINE a == [r EXCEPT !.downloading = TRUE]
             b == [a EXCEPT !.offset = 0]
             c == [b EXCEPT !.total = 0]
  <1>2. a \in Sessions /\ a.size = r.size /\ a.expected = r.expected /\ a.got = r.got
    BY DEF Sessions
  <1>3. /\ b \in Sessions /\ b.size = a.size /\ b.expected = a.expected
        /\ b.got = a.got /\ b.offset = 0
    <2> HIDE DEF a
    <2> QED  BY <1>1, <1>2 DEF Sessions
  <1>4. /\ c \in Sessions /\ c.size = b.size /\ c.expected = b.expected
        /\ c.got = b.got /\ c.offset = b.offset /\ c.total = 0
    <2> HIDE DEF b
    <2> QED  BY <1>1, <1>3 DEF Sessions
  <1>5. Started(r) = c  BY DEF Started
  <1> HIDE DEF a, b, c
  <1>6. QED  BY <1>2, <1>3, <1>4, <1>5

(* The session after one more block.                                       *)
OneMore == [ses EXCEPT !.expected = @ + 1, !.got = @ + 1,
                       !.offset = ses.expected + 1, !.total = @ + Unit]

LEMMA OneMoreIs ==
    ASSUME ses \in Sessions, ses.expected + 1 \in 0 .. NUnits, ses.got = ses.expected,
           Unit \in Nat
    PROVE  /\ OneMore \in Sessions /\ OneMore.size = ses.size
           /\ OneMore.expected = ses.expected + 1 /\ OneMore.got = ses.expected + 1
           /\ OneMore.offset = ses.expected + 1 /\ OneMore.total = ses.total + Unit
  <1> DEFINE a == [ses EXCEPT !.expected = @ + 1]
             b == [a EXCEPT !.got = @ + 1]
             c == [b EXCEPT !.offset = ses.expected + 1]
             d == [c EXCEPT !.total = @ + Unit]
  <1>1. /\ a \in Sessions /\ a.expected = ses.expected + 1 /\ a.size = ses.size
        /\ a.got = ses.got /\ a.total = ses.total
    BY DEF Sessions
  <1>2. /\ b \in Sessions /\ b.expected = a.expected /\ b.size = a.size
        /\ b.got = ses.expected + 1 /\ b.total = a.total
    <2> HIDE DEF a
    <2> QED  BY <1>1 DEF Sessions
  <1>3. /\ c \in Sessions /\ c.expected = b.expected /\ c.size = b.size
        /\ c.got = b.got /\ c.offset = ses.expected + 1 /\ c.total = b.total
    <2> HIDE DEF b
    <2> QED  BY <1>2 DEF Sessions
  <1>4. /\ d \in Sessions /\ d.expected = c.expected /\ d.size = c.size
        /\ d.got = c.got /\ d.offset = c.offset /\ d.total = c.total + Unit
    <2> HIDE DEF c
    <2> QED  BY <1>3 DEF Sessions
  <1>5. OneMore = d  BY DEF OneMore
  <1> HIDE DEF a, b, c, d
  <1>6. QED  BY <1>1, <1>2, <1>3, <1>4, <1>5
-----------------------------------------------------------------------------
(* Types.                                                                  *)

LEMMA RestartTypes ==
    ASSUME Restart
    PROVE  /\ mode' \in Modes /\ why' \in {"none", "resume", "rebuild", "commit"}
           /\ copied' \in 0 .. NUnits /\ active' \in BOOLEAN
           /\ ses' \in Sessions /\ ram' \in Metas
  <1>1. NoMeta \in Metas /\ 0 \in 0 .. NUnits  BY CtuAssumption DEF NoMeta, Metas
  <1>2. "init" \in Modes  BY DEF Modes
  <1>3. QED  BY <1>1, <1>2, FreshIs DEF Restart

(* The host after a command: as before, or one step further.               *)
Hosts == [phase : {"idle", "start", "data", "cancel"},
          file : Files \cup {<<>>}, next : 0 .. NUnits]

LEMMA HostTypes ==
    ASSUME TypeOK
    PROVE  /\ host \in Hosts /\ NoHost \in Hosts
           /\ \A f \in Files : [phase |-> "start", file |-> f, next |-> 0] \in Hosts
           /\ [host EXCEPT !.phase = "cancel"] \in Hosts
           /\ [host EXCEPT !.phase = "data"] \in Hosts
           /\ host.next + 1 \in 0 .. NUnits => NextBlock \in Hosts
  <1>1. host \in Hosts /\ 0 \in 0 .. NUnits  BY CtuAssumption DEF TypeOK, Hosts
  <1>2. NoHost \in Hosts  BY <1>1 DEF NoHost, Hosts
  <1>3. \A f \in Files : [phase |-> "start", file |-> f, next |-> 0] \in Hosts
    BY <1>1 DEF Hosts
  <1>4. /\ [host EXCEPT !.phase = "cancel"] \in Hosts
        /\ [host EXCEPT !.phase = "data"] \in Hosts
        /\ host.next + 1 \in 0 .. NUnits => NextBlock \in Hosts
    BY <1>1 DEF Hosts, NextBlock
  <1>5. QED  BY <1>1, <1>2, <1>3, <1>4

LEMMA NextFits ==
    ASSUME TypeOK, HostHasFile, NEW b, Sends(b)
    PROVE  host.next + 1 \in 0 .. NUnits
  <1>1. /\ NUnits \in Nat /\ Len(host.file) \in 1 .. NUnits
        /\ host.next \in 0 .. NUnits /\ host.next < Len(host.file)
    BY CtuAssumption DEF Sends, HostHasFile, TypeOK
  <1>2. QED  BY <1>1

LEMMA HostTypeKept ==
    ASSUME TypeOK, HostHasFile, [Next]_vars
    PROVE  host' \in Hosts
  <1>1. \A h \in Hosts : Answered(h) => host' \in Hosts
    BY HostTypes DEF Answered
  <1>2. CASE UNCHANGED host  BY <1>2, HostTypes
  <1>3. CASE Select  BY <1>1, <1>3, HostTypes DEF Select
  <1>4. CASE Start
    <2>1. \/ Answered([host EXCEPT !.phase = "cancel"])
          \/ Answered([host EXCEPT !.phase = "data"])
      BY <1>4 DEF Start, Refused
    <2>2. QED  BY <1>1, <2>1, HostTypes
  <1>5. CASE Data
    <2>1. NextBlock \in Hosts  BY <1>5, HostTypes, NextFits DEF Data
    <2>2. Answered(NextBlock) \/ UNCHANGED host  BY <1>5 DEF Data
    <2>3. QED  BY <1>1, <1>2, <2>1, <2>2
  <1>6. CASE DataAgain
    BY <1>6, HostTypes, NextFits DEF DataAgain
  <1>7. CASE EndInApp \/ EndInBoot \/ EndRefused
    BY <1>1, <1>7, HostTypes DEF EndInApp, EndInBoot, EndRefused, Refused
  <1>8. CASE Abort \/ GiveUp  BY <1>8, HostTypes DEF Abort, GiveUp
  <1>9. CASE \/ TryBootApp \/ DropCommit \/ CheckApp \/ EnterBoot
             \/ PromoteErase \/ PromoteCopy \/ PromoteCopied \/ Record
             \/ EnterUpgrade \/ LearnId \/ IdleTimeout
    BY <1>2, <1>9 DEF TryBootApp, DropCommit, CheckApp, EnterBoot, PromoteErase, PromoteCopy,
       PromoteCopied, Record, EnterUpgrade, LearnId, IdleTimeout
  <1>10. CASE \/ PowerFail \/ PowerFailErase \/ PowerFailProgram \/ PowerFailSave
    BY <1>2, <1>10 DEF PowerFail, PowerFailErase, PowerFailProgram, PowerFailSave
  <1>11. QED
    BY <1>2, <1>3, <1>4, <1>5, <1>6, <1>7, <1>8, <1>9, <1>10
       DEF Next, BoardNext, SessionNext, vars
(* What a start decides. *)
LEMMA TriedIs ==
    ASSUME NEW m \in Metas, Tried(m)
    PROVE  \/ mode' = "enter" /\ UNCHANGED why
           \/ /\ m.magic = "good" /\ m.flag # 1
              /\ \/ mode' \in {"drop", "check"} /\ UNCHANGED why
                 \/ mode' = "erase" /\ why' = "resume"
  <1>1. CASE m.magic # "good"  BY <1>1 DEF Tried
  <1>2. CASE m.magic = "good"
    <2>1. m.flag \in {0, 1, 2}  BY DEF Metas
    <2>2. CASE m.flag = 0  BY <1>2, <2>2 DEF Tried
    <2>3. CASE m.flag = 1  BY <1>2, <2>3 DEF Tried
    <2>4. CASE m.flag = 2
      <3>1. CASE Matches("B", m)  BY <1>2, <2>4, <3>1 DEF Tried, Promote
      <3>2. CASE ~Matches("B", m)  BY <1>2, <2>4, <3>2 DEF Tried
      <3>3. QED  BY <3>1, <3>2
    <2>5. QED  BY <2>1, <2>2, <2>3, <2>4
  <1>3. QED  BY <1>1, <1>2

LEMMA StartTypes ==
    ASSUME TypeOK, TryBootApp
    PROVE  meta' \in {FirstRecord, meta} /\ meta' \in Metas /\ ram' \in Metas
  <1>1. meta' \in {FirstRecord, meta}
    <2>1. CASE meta.magic = "none"  BY <2>1, SaveIs DEF TryBootApp
    <2>2. CASE meta.magic # "none"  BY <2>2 DEF TryBootApp
    <2>3. QED  BY <2>1, <2>2
  <1>2. meta' \in Metas  BY <1>1, RecordTypes DEF TypeOK
  <1>3. QED  BY <1>1, <1>2, RecordTypes DEF TryBootApp

LEMMA TypesKept ==
    ASSUME TypeOK, FlashOfFiles, HostHasFile, InSession, PromotionHasCause, SessionIsTheHosts,
           [Next]_vars
    PROVE  TypeOK'
  <1> DEFINE NodeTypes ==
        /\ mode' \in Modes /\ why' \in {"none", "resume", "rebuild", "commit"}
        /\ copied' \in 0 .. NUnits /\ active' \in BOOLEAN
        /\ ses' \in Sessions /\ ram' \in Metas
      StoredTypes ==
        meta' \in Metas /\ sick' \in BOOLEAN /\ faults' \in 0 .. MaxFaults
  <1>1. flash' \in [Partitions -> Rows] /\ host' \in Hosts
    BY FlashKept, HostTypeKept
  <1>2. /\ mode \in Modes /\ why \in {"none", "resume", "rebuild", "commit"}
        /\ copied \in 0 .. NUnits /\ active \in BOOLEAN
        /\ ses \in Sessions /\ ram \in Metas /\ meta \in Metas
        /\ sick \in BOOLEAN /\ faults \in 0 .. MaxFaults
        /\ MaxFaults \in Nat /\ NUnits \in Nat /\ 0 \in 0 .. NUnits
    BY CtuAssumption DEF TypeOK
  <1>3. /\ FirstRecord \in Metas /\ Normal \in Metas /\ [ram EXCEPT !.flag = 1] \in Metas
        /\ \A m \in Metas : Loaded(m) \in Metas /\ Committed(m) \in Metas
    BY RecordTypes
  <1>4. ASSUME NEW m \in Metas, Save(m) PROVE StoredTypes
    BY <1>2, <1>4, SaveIs
  <1>5. UNCHANGED stored => StoredTypes  BY <1>2 DEF stored
  <1>6. UNCHANGED node => NodeTypes  BY <1>2 DEF node
  <1>7. Restart => NodeTypes  BY RestartTypes
  <1>8. UNCHANGED <<meta, sick>> /\ (Faulty \/ Sound) => StoredTypes
    BY <1>2 DEF Faulty, Sound
  <1>9. {"drop", "check", "enter", "boot", "erase", "copy", "record", "app"} \subseteq Modes
    BY DEF Modes
  <1>10. NodeTypes /\ StoredTypes
    <2>1. CASE TryBootApp
      <3>1. StoredTypes
        <4>1. CASE meta.magic = "none"  BY <1>3, <1>4, <2>1, <4>1 DEF TryBootApp
        <4>2. CASE meta.magic # "none"
          BY <1>2, <2>1, <4>2 DEF TryBootApp
        <4>3. QED  BY <4>1, <4>2
      <3>2. ram' \in Metas  BY <1>3, <2>1, <3>1 DEF TryBootApp
      <3>3. mode' \in Modes /\ why' \in {"none", "resume", "rebuild", "commit"}
        <4>1. Tried(ram')  BY <2>1 DEF TryBootApp
        <4>2. QED  BY <1>2, <1>9, <3>2, <4>1, TriedIs
      <3>4. QED  BY <1>2, <2>1, <3>1, <3>2, <3>3 DEF TryBootApp
    <2>2. CASE DropCommit
      BY <1>2, <1>3, <1>4, <1>9, <2>2 DEF DropCommit
    <2>3. CASE CheckApp
      BY <1>2, <1>5, <1>9, <2>3 DEF CheckApp, Promote
    <2>4. CASE EnterBoot
      BY <1>2, <1>3, <1>4, <1>9, <2>4, FreshIs DEF EnterBoot
    <2>5. ASSUME PromoteFailed, mode \in {"erase", "copy"}
          PROVE  /\ mode' \in Modes /\ why' \in {"none", "resume", "rebuild", "commit"}
                 /\ copied' \in 0 .. NUnits
      <3>1. why \in {"resume", "rebuild", "commit"}  BY <2>5 DEF PromotionHasCause
      <3>2. AfterFailure[why] \in {"drop", "enter", "record"}  BY <3>1 DEF AfterFailure
      <3>3. QED  BY <1>2, <1>9, <2>5, <3>2 DEF PromoteFailed
    <2>6. CASE PromoteErase
      <3>1. StoredTypes  BY <1>8, <2>6 DEF PromoteErase, PromoteFailed
      <3>2. QED  BY <1>2, <1>9, <2>5, <2>6, <3>1 DEF PromoteErase
    <2>7. CASE PromoteCopy
      <3>1. StoredTypes  BY <1>8, <2>7 DEF PromoteCopy, PromoteFailed
      <3>2. ram.size \in 0 .. NUnits /\ copied < ram.size
        BY <1>2, <2>7 DEF Metas, PromoteCopy
      <3>3. copied + 1 \in 0 .. NUnits  BY <1>2, <3>2
      <3>4. QED  BY <1>2, <1>9, <2>5, <2>7, <3>1, <3>3 DEF PromoteCopy
    <2>8. CASE PromoteCopied
      BY <1>2, <1>5, <1>9, <2>8 DEF PromoteCopied
    <2>9. CASE Record
      <3>1. StoredTypes  BY <1>3, <1>4, <2>9 DEF Record
      <3>2. CASE why = "rebuild"
        BY <1>2, <1>3, <1>9, <2>9, <3>1, <3>2 DEF Record
      <3>3. CASE why # "rebuild"
        BY <1>7, <2>9, <3>1, <3>3 DEF Record
      <3>4. QED  BY <3>2, <3>3
    <2>10. CASE EnterUpgrade
      BY <1>2, <1>5, <2>10, FreshIs DEF EnterUpgrade
    <2>11. CASE Select
      BY <1>2, <1>5, <2>11, SelectedIs DEF Select
    <2>12. CASE Start
      <3>1. StoredTypes  BY <1>8, <2>12 DEF Start, Sound
      <3>2. ses' \in Sessions
        <4>1. host.phase # "idle"  BY <2>12 DEF Start
        <4>2. Announced \in Sessions /\ Started(Announced) \in Sessions
          BY <4>1, AnnouncedIs, StartedIs
        <4>3. QED  BY <1>2, <2>12, <4>2 DEF Start
      <3>3. QED  BY <1>2, <2>12, <3>1, <3>2 DEF Start
    <2>13. CASE Data
      <3>1. StoredTypes  BY <1>8, <2>13 DEF Data
      <3>2. ses' \in Sessions
        <4>1. ses.got = ses.expected /\ host.next = ses.expected
          BY <2>13 DEF Data, Sends, SessionIsTheHosts
        <4>2. ses.expected + 1 \in 0 .. NUnits  BY <2>13, <4>1, NextFits DEF Data
        <4>3. Unit \in Nat
          <5>1. host.file \in Files /\ host.next \in Nat /\ host.next < Len(host.file)
            BY <2>13 DEF Data, Sends, HostHasFile, TypeOK
          <5>2. host.file \in Seq(Nat) /\ host.next + 1 \in 1 .. Len(host.file)
            BY <5>1, CtuAssumption
          <5>3. QED  BY <5>2 DEF Unit
        <4>4. OneMore \in Sessions  BY <1>2, <4>1, <4>2, <4>3, OneMoreIs
        <4>5. ses' = OneMore \/ ses' = ses  BY <2>13 DEF Data, OneMore
        <4>6. QED  BY <1>2, <4>4, <4>5
      <3>3. QED  BY <1>2, <2>13, <3>1, <3>2 DEF Data
    <2>14. CASE DataAgain \/ EndRefused \/ GiveUp
      BY <1>5, <1>6, <2>14 DEF DataAgain, EndRefused, GiveUp
    <2>15. CASE EndInApp
      BY <1>2, <1>3, <1>4, <2>15 DEF EndInApp
    <2>16. CASE EndInBoot
      BY <1>2, <1>3, <1>4, <1>9, <2>16 DEF EndInBoot, Promote
    <2>17. CASE Abort
      <3>1. CASE mode = "app"  BY <1>2, <1>5, <2>17, <3>1 DEF Abort
      <3>2. CASE mode # "app"  BY <1>3, <1>4, <1>7, <2>17, <3>2 DEF Abort
      <3>3. QED  BY <3>1, <3>2
    <2>18. CASE IdleTimeout
      BY <1>2, <1>5, <2>18 DEF IdleTimeout
    <2>19. CASE PowerFail
      BY <1>5, <1>7, <2>19 DEF PowerFail
    <2>20. CASE PowerFailErase \/ PowerFailProgram
      <3>1. StoredTypes  BY <1>2, <2>20 DEF PowerFailErase, PowerFailProgram
      <3>2. QED  BY <1>7, <2>20, <3>1 DEF PowerFailErase, PowerFailProgram
    <2>21. CASE PowerFailSave
      BY <1>2, <1>7, <2>21 DEF PowerFailSave
    <2>22. CASE UNCHANGED vars  BY <1>5, <1>6, <2>22 DEF vars
    <2>23. CASE LearnId  BY <1>2, <1>4, <1>6, <2>23 DEF LearnId
    <2>24. QED
      BY <2>1, <2>2, <2>3, <2>4, <2>6, <2>7, <2>8, <2>9, <2>10, <2>11, <2>12, <2>13,
         <2>14, <2>15, <2>16, <2>17, <2>18, <2>19, <2>20, <2>21, <2>22, <2>23
         DEF Next, BoardNext, SessionNext
  <1>11. QED  BY <1>1, <1>10 DEF TypeOK, Hosts
-----------------------------------------------------------------------------
(* The small parts of the invariant.                                       *)

LEMMA HostKept ==
    ASSUME TypeOK, HostHasFile, [Next]_vars
    PROVE  HostHasFile'
  <1>1. host \in Hosts  BY DEF TypeOK, Hosts
  <1>2. CASE host' \in {host, NoHost}
    BY <1>2 DEF HostHasFile, NoHost
  <1>3. ASSUME NEW f \in Files, host' \in {host, [phase |-> "start", file |-> f, next |-> 0]}
        PROVE  HostHasFile'
    BY <1>3 DEF HostHasFile
  <1>4. ASSUME host.phase # "idle", host'.file = host.file  PROVE HostHasFile'
    BY <1>4 DEF HostHasFile
  <1>5. /\ [host EXCEPT !.phase = "cancel"].file = host.file
        /\ [host EXCEPT !.phase = "data"].file = host.file
        /\ NextBlock.file = host.file
    BY <1>1 DEF Hosts, NextBlock
  <1>6. CASE Select  BY <1>3, <1>6 DEF Select, Answered
  <1>7. CASE Start
    <2>1. host' \in {host, [host EXCEPT !.phase = "cancel"], [host EXCEPT !.phase = "data"]}
      BY <1>7 DEF Start, Refused, Answered
    <2>2. QED  BY <1>4, <1>5, <1>7, <2>1 DEF Start
  <1>8. CASE Data \/ DataAgain
    <2>1. host' \in {host, NextBlock} /\ host.phase = "data"
      BY <1>8 DEF Data, DataAgain, Answered, Sends
    <2>2. QED  BY <1>4, <1>5, <2>1
  <1>9. CASE EndInApp \/ EndInBoot
    BY <1>2, <1>9 DEF EndInApp, EndInBoot, Answered
  <1>10. CASE EndRefused
    <2>1. host' \in {host, [host EXCEPT !.phase = "cancel"]} /\ host.phase = "data"
      BY <1>10 DEF EndRefused, Refused, Answered, Sent
    <2>2. QED  BY <1>4, <1>5, <2>1
  <1>11. CASE Abort \/ GiveUp  BY <1>2, <1>11 DEF Abort, GiveUp
  <1>12. CASE \/ TryBootApp \/ DropCommit \/ CheckApp \/ EnterBoot
              \/ PromoteErase \/ PromoteCopy \/ PromoteCopied \/ Record
              \/ EnterUpgrade \/ LearnId \/ IdleTimeout \/ UNCHANGED vars
    BY <1>2, <1>12 DEF TryBootApp, DropCommit, CheckApp, EnterBoot, PromoteErase, PromoteCopy,
       PromoteCopied, Record, EnterUpgrade, LearnId, IdleTimeout, vars
  <1>13. CASE \/ PowerFail \/ PowerFailErase \/ PowerFailProgram \/ PowerFailSave
    BY <1>2, <1>13 DEF PowerFail, PowerFailErase, PowerFailProgram, PowerFailSave
  <1>14. QED
    BY <1>6, <1>7, <1>8, <1>9, <1>10, <1>11, <1>12, <1>13 DEF Next, BoardNext, SessionNext

LEMMA SessionOfAppKept ==
    ASSUME TypeOK, InSession, [Next]_vars
    PROVE  InSession'
  <1>1. Restart => InSession'  BY DEF Restart, InSession
  <1>2. CASE mode = "app"
    <2>1. CASE \/ PowerFail \/ PowerFailErase \/ PowerFailProgram \/ PowerFailSave
      BY <1>1, <2>1 DEF PowerFail, PowerFailErase, PowerFailProgram, PowerFailSave
    <2>2. CASE \/ EnterUpgrade \/ Select \/ Start \/ Data \/ DataAgain
               \/ EndInApp \/ EndRefused \/ Abort \/ GiveUp \/ IdleTimeout \/ UNCHANGED vars
      BY <1>2, <2>2 DEF EnterUpgrade, Select, Start, Data, DataAgain, EndInApp, EndRefused,
         Abort, GiveUp, IdleTimeout, vars, node, InSession
    <2>3. ~BoardNext /\ ~EndInBoot /\ ~LearnId
      BY <1>2 DEF BoardNext, TryBootApp, DropCommit, CheckApp, EnterBoot, PromoteErase,
         PromoteCopy, PromoteCopied, Record, EndInBoot, LearnId
    <2>4. QED  BY <2>1, <2>2, <2>3 DEF Next, SessionNext
  <1>3. CASE mode # "app"
    <2>1. ~active  BY <1>3 DEF InSession
    <2>2. active' = active \/ Restart
      <3>1. CASE BoardNext
        BY <3>1 DEF BoardNext, TryBootApp, DropCommit, CheckApp, EnterBoot, PromoteErase,
           PromoteCopy, PromoteCopied, Record
      <3>2. CASE SessionNext
        BY <1>3, <3>2 DEF SessionNext, EnterUpgrade, Select, Start, Data, DataAgain, EndInApp,
           EndInBoot, EndRefused, LearnId, Abort, GiveUp, IdleTimeout, node
      <3>3. CASE \/ PowerFail \/ PowerFailErase \/ PowerFailProgram \/ PowerFailSave
                 \/ UNCHANGED vars
        BY <3>3 DEF PowerFail, PowerFailErase, PowerFailProgram, PowerFailSave, vars, node
      <3>4. QED  BY <3>1, <3>2, <3>3 DEF Next
    <2>3. QED  BY <1>1, <2>1, <2>2 DEF InSession
  <1>4. QED  BY <1>2, <1>3

LEMMA CausesKept ==
    ASSUME TypeOK, PromotionHasCause, [Next]_vars
    PROVE  PromotionHasCause'
  <1>1. mode' \notin {"erase", "copy", "record"} => PromotionHasCause'
    BY DEF PromotionHasCause
  <1>2. Restart => PromotionHasCause'  BY <1>1 DEF Restart
  <1>3. UNCHANGED <<mode, why>> => PromotionHasCause'  BY DEF PromotionHasCause
  <1>4. why' \in {"resume", "rebuild", "commit"} => PromotionHasCause'
    BY DEF PromotionHasCause
  <1>5. ASSUME PromoteFailed, mode \in {"erase", "copy"}  PROVE PromotionHasCause'
    <2>1. CASE why = "commit"  BY <1>4, <1>5, <2>1 DEF PromoteFailed
    <2>2. CASE why # "commit"
      <3>1. mode' \in {"drop", "enter"}
        BY <1>5, <2>2 DEF PromoteFailed, PromotionHasCause, AfterFailure
      <3>2. QED  BY <1>1, <3>1
    <2>3. QED  BY <2>1, <2>2
  <1>6. CASE TryBootApp
    <2>1. ram' \in Metas /\ Tried(ram')  BY <1>6, StartTypes DEF TryBootApp
    <2>2. QED  BY <1>1, <1>4, <2>1, TriedIs
  <1>7. CASE DropCommit \/ EnterBoot  BY <1>1, <1>7 DEF DropCommit, EnterBoot
  <1>8. CASE CheckApp  BY <1>1, <1>4, <1>8 DEF CheckApp, Promote
  <1>9. CASE PromoteErase
    <2>1. CASE PromoteFailed  BY <1>5, <1>9, <2>1 DEF PromoteErase
    <2>2. CASE UNCHANGED why  BY <1>4, <1>9, <2>2 DEF PromoteErase, PromotionHasCause
    <2>3. QED  BY <1>9, <2>1, <2>2 DEF PromoteErase
  <1>10. CASE PromoteCopy
    <2>1. CASE PromoteFailed  BY <1>5, <1>10, <2>1 DEF PromoteCopy
    <2>2. CASE UNCHANGED <<mode, why>>  BY <1>3, <2>2
    <2>3. QED  BY <1>10, <2>1, <2>2 DEF PromoteCopy
  <1>11. CASE PromoteCopied
    BY <1>4, <1>11 DEF PromoteCopied, PromotionHasCause
  <1>12. CASE Record  BY <1>1, <1>2, <1>12 DEF Record
  <1>13. CASE EndInBoot  BY <1>4, <1>13 DEF EndInBoot, Promote
  <1>14. CASE \/ EnterUpgrade \/ Select \/ Start \/ Data \/ DataAgain \/ EndInApp
              \/ EndRefused \/ LearnId \/ Abort \/ GiveUp \/ IdleTimeout \/ UNCHANGED vars
    BY <1>2, <1>3, <1>14 DEF EnterUpgrade, Select, Start, Data, DataAgain, EndInApp, EndRefused,
       LearnId, Abort, GiveUp, IdleTimeout, vars, node
  <1>15. CASE \/ PowerFail \/ PowerFailErase \/ PowerFailProgram \/ PowerFailSave
    BY <1>2, <1>15 DEF PowerFail, PowerFailErase, PowerFailProgram, PowerFailSave
  <1>16. QED
    BY <1>6, <1>7, <1>8, <1>9, <1>10, <1>11, <1>12, <1>13, <1>14, <1>15
       DEF Next, BoardNext, SessionNext

(* The bootloader waits with the flag of a download set.                   *)
LEMMA MarksKept ==
    ASSUME TypeOK, PromotionHasCause, BootMarks, [Next]_vars
    PROVE  BootMarks'
  <1>1. ASSUME mode' # "boot"  PROVE BootMarks'  BY <1>1 DEF BootMarks
  <1>2. ASSUME UNCHANGED <<mode, ram>>  PROVE BootMarks'  BY <1>2 DEF BootMarks
  <1>3. Restart => BootMarks'  BY <1>1 DEF Restart
  <1>4. CASE TryBootApp
    <2>1. ram' \in Metas /\ Tried(ram')  BY <1>4, StartTypes DEF TryBootApp
    <2>2. QED  BY <1>1, <2>1, TriedIs
  <1>5. CASE EnterBoot
    <2>1. ram'.flag = 1  BY <1>5 DEF EnterBoot, TypeOK, Metas
    <2>2. QED  BY <2>1 DEF BootMarks
  <1>6. CASE DropCommit \/ CheckApp \/ EndInBoot
    BY <1>1, <1>6 DEF DropCommit, CheckApp, EndInBoot, Promote
  <1>7. CASE PromoteErase \/ PromoteCopy
    <2>1. ASSUME PromoteFailed, mode \in {"erase", "copy"}  PROVE mode' # "boot"
      BY <2>1 DEF PromoteFailed, PromotionHasCause, AfterFailure
    <2>2. mode' # "boot"  BY <1>7, <2>1 DEF PromoteErase, PromoteCopy
    <2>3. QED  BY <1>1, <2>2
  <1>8. CASE PromoteCopied \/ Record
    BY <1>1, <1>3, <1>8 DEF PromoteCopied, Record
  <1>9. CASE Abort
    BY <1>2, <1>3, <1>9 DEF Abort
  <1>10. CASE \/ EnterUpgrade \/ Select \/ Start \/ Data \/ DataAgain \/ EndInApp
              \/ EndRefused \/ LearnId \/ GiveUp \/ IdleTimeout \/ UNCHANGED vars
    BY <1>2, <1>10 DEF EnterUpgrade, Select, Start, Data, DataAgain, EndInApp, EndRefused,
       LearnId, GiveUp, IdleTimeout, vars, node
  <1>11. CASE \/ PowerFail \/ PowerFailErase \/ PowerFailProgram \/ PowerFailSave
    BY <1>3, <1>11 DEF PowerFail, PowerFailErase, PowerFailProgram, PowerFailSave
  <1>12. QED
    BY <1>4, <1>5, <1>6, <1>7, <1>8, <1>9, <1>10, <1>11 DEF Next, BoardNext, SessionNext
-----------------------------------------------------------------------------
(* The session counts what partition B holds.                              *)

LEMMA SessionStays ==
    ASSUME SessionIsTheHosts, ses' = ses, flash'["B"] = flash["B"],
           host'.phase = "data" => host.phase = "data" /\ host'.file = host.file
    PROVE  SessionIsTheHosts'
  BY DEF SessionIsTheHosts

LEMMA SessionEnds ==
    ASSUME ~ses'.downloading \/ host'.phase # "data"
    PROVE  SessionIsTheHosts'
  BY DEF SessionIsTheHosts

(* A download begins with nothing in B.                                    *)
LEMMA StartKeepsSession ==
    ASSUME TypeOK, FlashOfFiles, HostHasFile, InSession, SessionIsTheHosts, Start
    PROVE  SessionIsTheHosts'
  <1>1. CASE host'.phase # "data"  BY <1>1, SessionEnds
  <1>2. CASE host'.phase = "data"
    <2>1. host \in Hosts /\ host.phase = "start"  BY <1>2 DEF TypeOK, Hosts, Start
    <2>2. ~Refused
      BY <1>2, <2>1 DEF Refused, Answered, Hosts
    <2>3. /\ ses' = Started(Announced) /\ Answered([host EXCEPT !.phase = "data"])
          /\ flash' = [flash EXCEPT !["B"] = BlankRow]
      BY <2>2 DEF Start
    <2>4. host'.file = host.file  BY <2>1, <2>3 DEF Answered, Hosts
    <2>5. /\ ses'.size = Len(host.file) /\ ses'.expected = 0 /\ ses'.got = 0
          /\ ses'.offset = 0 /\ ses'.total = 0
      BY <2>1, <2>3, AnnouncedIs, StartedIs
    <2>6. flash'["B"] \in Rows
      BY <2>3, BlankedIs DEF TypeOK, Partitions
    <2>7. RowSum(flash'["B"], 0) = 0  BY <2>6, RowSums
    <2>8. Len(host.file) \in 1 .. NUnits
      BY <2>1, CtuAssumption DEF HostHasFile
    <2>9. QED  BY <2>4, <2>5, <2>7, <2>8 DEF SessionIsTheHosts
  <1>3. QED  BY <1>1, <1>2

(* A block is programmed and counted, or neither.                          *)
LEMMA DataKeepsSession ==
    ASSUME TypeOK, FlashOfFiles, HostHasFile, InSession, SessionIsTheHosts, Data
    PROVE  SessionIsTheHosts'
  <1> DEFINE e == ses.expected
             old == flash["B"]
             new == flash'["B"]
  <1>1. /\ host \in Hosts /\ host.phase = "data" /\ host.next = e /\ ses.downloading
        /\ host.file \in Files /\ e < Len(host.file)
    BY DEF Data, Sends, TypeOK, Hosts, HostHasFile
  <1>2. /\ host.file \in Seq(Nat) /\ Len(host.file) \in 1 .. NUnits
        /\ e \in 0 .. NUnits /\ NUnits \in Nat /\ ses \in Sessions
        /\ flash \in [Partitions -> Rows] /\ "B" \in Partitions /\ old \in Rows
    BY <1>1, CtuAssumption DEF TypeOK, Sessions, Partitions
  <1>3. e \in Units /\ e + 1 \in 0 .. NUnits /\ e + 1 \in 1 .. Len(host.file) /\ e \in Nat
    BY <1>1, <1>2 DEF Units
  <1>4. Unit = host.file[e + 1] /\ Unit \in Nat  BY <1>1, <1>2, <1>3 DEF Unit
  <1>5. host'.phase = "data" /\ host'.file = host.file
    <2>1. host' \in {host, NextBlock}  BY DEF Data, Answered
    <2>2. NextBlock.phase = "data" /\ NextBlock.file = host.file
      BY <1>1 DEF NextBlock, Hosts
    <2>3. QED  BY <1>1, <2>1, <2>2
  <1>6. /\ ses.size = Len(host.file) /\ ses.got = e /\ ses.offset = e
        /\ \A u \in 0 .. e - 1 : old[u] = host.file[u + 1]
        /\ ses.total = RowSum(old, e)
    BY <1>1 DEF SessionIsTheHosts
  <1>7. ASSUME NEW x \in Nat, flash' = Written("B", e, x)
        PROVE  /\ new \in Rows /\ new[e] = x /\ RowSum(new, e) = RowSum(old, e)
               /\ \A u \in 0 .. e - 1 : new[u] = old[u]
    <2>1. new \in Rows /\ \A v \in Units : new[v] = IF v = e THEN x ELSE old[v]
      BY <1>2, <1>3, <1>7, WrittenIs
    <2>2. \A u \in 0 .. e - 1 : u \in Units /\ u # e  BY <1>2, <1>3 DEF Units
    <2>3. \A u \in 0 .. e - 1 : new[u] = old[u]  BY <2>1, <2>2
    <2> HIDE DEF e, old, new
    <2>4. RowSum(new, e) = RowSum(old, e)  BY <1>2, <2>3, SameSums
    <2>5. QED  BY <1>3, <2>1, <2>3, <2>4
  <1>8. CASE ses' = OneMore /\ flash' = Written("B", e, Unit)
    <2>1. /\ ses'.size = ses.size /\ ses'.expected = e + 1 /\ ses'.got = e + 1
          /\ ses'.offset = e + 1 /\ ses'.total = ses.total + Unit
      BY <1>2, <1>3, <1>4, <1>6, <1>8, OneMoreIs
    <2>2. /\ new \in Rows /\ new[e] = Unit /\ RowSum(new, e) = RowSum(old, e)
          /\ \A u \in 0 .. e - 1 : new[u] = old[u]
      BY <1>4, <1>7, <1>8
    <2> HIDE DEF new, old, e
    <2>3. RowSum(new, e + 1) = RowSum(new, e) + new[e]  BY <1>3, <2>2, RowSums
    <2>4. ses'.total = RowSum(new, e + 1)  BY <1>6, <2>1, <2>2, <2>3
    <2>5. \A u \in 0 .. (e + 1) - 1 : new[u] = host.file[u + 1]
      <3>1. ASSUME NEW u \in 0 .. (e + 1) - 1  PROVE u \in 0 .. e - 1 \/ u = e
        BY <1>3
      <3>2. QED  BY <1>4, <1>6, <2>2, <3>1
    <2>6. e + 1 <= Len(host.file)  BY <1>2, <1>3
    <2>7. QED
      BY <1>5, <1>6, <2>1, <2>4, <2>5, <2>6 DEF SessionIsTheHosts, new
  <1>9. CASE ses' = ses /\ \E x \in {Blank, Torn, Unit} : flash' = Written("B", e, x)
    <2>1. PICK x \in {Blank, Torn, Unit} : flash' = Written("B", e, x)  BY <1>9
    <2>2. x \in Nat  BY <1>4, <2>1, CtuAssumption
    <2>3. /\ RowSum(new, e) = RowSum(old, e)
          /\ \A u \in 0 .. e - 1 : new[u] = old[u]
      BY <1>7, <2>1, <2>2
    <2>4. QED  BY <1>1, <1>5, <1>6, <1>9, <2>3 DEF SessionIsTheHosts
  <1>10. QED  BY <1>8, <1>9 DEF Data, OneMore
LEMMA SessionKept ==
    ASSUME TypeOK, FlashOfFiles, HostHasFile, InSession, SessionIsTheHosts, [Next]_vars
    PROVE  SessionIsTheHosts'
  <1>1. ~Fresh.downloading  BY FreshIs
  <1>2. Restart => SessionIsTheHosts'  BY <1>1, SessionEnds DEF Restart
  <1>3. CASE BoardNext
    <2>1. ~Listening
      BY <1>3 DEF Listening, InSession, BoardNext, TryBootApp, DropCommit, CheckApp, EnterBoot,
         PromoteErase, PromoteCopy, PromoteCopied, Record
    <2>2. flash'["B"] = flash["B"]  BY <2>1, FlashKept
    <2>3. host' = host
      BY <1>3 DEF BoardNext, TryBootApp, DropCommit, CheckApp, EnterBoot,
         PromoteErase, PromoteCopy, PromoteCopied, Record
    <2>4. ses' = ses \/ ses' = Fresh
      BY <1>3 DEF BoardNext, TryBootApp, DropCommit, CheckApp, EnterBoot,
         PromoteErase, PromoteCopy, PromoteCopied, Record, Restart
    <2>5. QED  BY <1>1, <2>2, <2>3, <2>4, SessionStays, SessionEnds
  <1>4. CASE Start  BY <1>4, StartKeepsSession
  <1>5. CASE Data  BY <1>5, DataKeepsSession
  <1>6. CASE EnterUpgrade  BY <1>1, <1>6, SessionEnds DEF EnterUpgrade
  <1>7. CASE Select
    <2>1. ~ses'.downloading  BY <1>7, SelectedIs DEF Select, TypeOK
    <2>2. QED  BY <2>1, SessionEnds
  <1>8. CASE DataAgain
    <2>1. host'.file = host.file /\ host.phase = "data"
      BY <1>8 DEF DataAgain, Sends, NextBlock, TypeOK
    <2>2. QED  BY <1>8, <2>1, SessionStays DEF DataAgain, node, stored
  <1>9. CASE EndRefused
    <2>1. host'.phase = "data" => host' = host
      BY <1>9 DEF EndRefused, Refused, Answered, TypeOK
    <2>2. QED  BY <1>9, <2>1, SessionStays DEF EndRefused, node, stored
  <1>10. ASSUME host' \in {host, NoHost}, ses' = ses, flash' = flash
         PROVE  SessionIsTheHosts'
    <2>1. NoHost.phase # "data"  BY DEF NoHost
    <2>2. QED  BY <1>10, <2>1, SessionStays, SessionEnds
  <1>11. CASE \/ EndInApp \/ EndInBoot \/ LearnId \/ Abort \/ GiveUp \/ IdleTimeout
              \/ UNCHANGED vars
    BY <1>2, <1>10, <1>11 DEF EndInApp, EndInBoot, LearnId, Abort, GiveUp, IdleTimeout, Answered,
       vars, node, stored
  <1>12. CASE \/ PowerFail \/ PowerFailErase \/ PowerFailProgram \/ PowerFailSave
    BY <1>2, <1>12 DEF PowerFail, PowerFailErase, PowerFailProgram, PowerFailSave
  <1>13. QED
    BY <1>3, <1>4, <1>5, <1>6, <1>7, <1>8, <1>9, <1>11, <1>12 DEF Next, SessionNext

(* What the end of a transfer finds: the host's file in B, whole.          *)
LEMMA CompleteIsTheHosts ==
    ASSUME TypeOK, HostHasFile, SessionIsTheHosts, Sent, Complete
    PROVE  /\ host.file \in Files /\ ses.offset = Len(host.file)
           /\ ses.total = FileSum(host.file) /\ Holds("B", host.file)
           /\ RowSum(flash["B"], ses.offset) = ses.total /\ ses.offset > 0
  <1>1. /\ host.file \in Files /\ flash["B"] \in Rows
        /\ host.file \in Seq(Nat) /\ Len(host.file) \in 1 .. NUnits
    BY CtuAssumption DEF Sent, HostHasFile, TypeOK, Partitions
  <1>2. /\ ses.offset = Len(host.file) /\ ses.expected = Len(host.file)
        /\ \A u \in 0 .. Len(host.file) - 1 : flash["B"][u] = host.file[u + 1]
        /\ ses.total = RowSum(flash["B"], Len(host.file))
    BY DEF Sent, Complete, SessionIsTheHosts
  <1>3. \A i \in DOMAIN host.file : flash["B"][i - 1] = host.file[i]
    <2>1. ASSUME NEW i \in DOMAIN host.file
          PROVE  i - 1 \in 0 .. Len(host.file) - 1 /\ (i - 1) + 1 = i
      BY <1>1
    <2>2. QED  BY <1>2, <2>1
  <1>4. RowSum(flash["B"], Len(host.file)) = FileSum(host.file)
    BY <1>1, <1>3, FileSums
  <1>5. QED  BY <1>1, <1>2, <1>3, <1>4 DEF Holds

LEMMA NamesKept ==
    ASSUME TypeOK, HostHasFile, SessionIsTheHosts, RecordsNameFiles, [Next]_vars
    PROVE  RecordsNameFiles'
  <1>1. Named(meta) /\ Named(ram) /\ meta \in Metas /\ ram \in Metas
    BY DEF RecordsNameFiles, TypeOK
  <1>2. Named(NoMeta) /\ Named(FirstRecord)
    BY DEF Named, NoMeta, FirstRecord
  <1>3. \A m \in Metas : Named(m) => Named(Loaded(m))
    BY DEF Named, Loaded, Metas
  <1>4. Named(Normal) /\ Named([ram EXCEPT !.flag = 1])
    BY <1>1 DEF Named, Normal, Metas
  <1>5. ASSUME Named(meta'), Named(ram')  PROVE RecordsNameFiles'
    BY <1>5 DEF RecordsNameFiles, Named
  <1>6. ASSUME Sent, Complete, NEW m \in Metas  PROVE Named(Committed(m))
    <2>1. Committed(m).size = ses.offset /\ Committed(m).sum = ses.total
      BY RecordTypes
    <2>2. QED  BY <1>6, <2>1, CompleteIsTheHosts DEF Named
  <1>7. CASE TryBootApp
    <2>1. meta' \in {FirstRecord, meta} /\ meta' \in Metas  BY <1>7, StartTypes
    <2>2. ram' = Loaded(meta')  BY <1>7 DEF TryBootApp
    <2>3. QED  BY <1>1, <1>2, <1>3, <1>5, <2>1, <2>2
  <1>8. CASE DropCommit
    BY <1>1, <1>4, <1>5, <1>8, SaveIs DEF DropCommit
  <1>9. CASE EnterBoot
    BY <1>1, <1>4, <1>5, <1>9, SaveIs DEF EnterBoot
  <1>10. CASE Record
    <2>1. meta' \in {Normal, meta}  BY <1>10, SaveIs DEF Record
    <2>2. ram' \in {Normal, NoMeta}  BY <1>10 DEF Record, Restart
    <2>3. QED  BY <1>1, <1>2, <1>4, <1>5, <2>1, <2>2
  <1>11. CASE EndInApp
    <2>1. meta' \in {Committed(meta), meta}  BY <1>11, SaveIs DEF EndInApp
    <2>2. QED  BY <1>1, <1>5, <1>6, <1>11, <2>1 DEF EndInApp
  <1>12. CASE EndInBoot
    <2>1. meta' \in {Committed(ram), meta} /\ ram' = Committed(ram)
      BY <1>12, SaveIs DEF EndInBoot
    <2>2. QED  BY <1>1, <1>5, <1>6, <1>12, <2>1 DEF EndInBoot
  <1>13. CASE Abort
    <2>1. CASE mode = "app"  BY <1>1, <1>5, <1>13, <2>1 DEF Abort, stored
    <2>2. CASE mode # "app"
      BY <1>1, <1>2, <1>4, <1>5, <1>13, <2>2, SaveIs DEF Abort, Restart
    <2>3. QED  BY <2>1, <2>2
  <1>14. CASE CheckApp \/ PromoteErase \/ PromoteCopy \/ PromoteCopied
    BY <1>1, <1>5, <1>14 DEF CheckApp, PromoteErase, PromoteCopy, PromoteCopied, stored
  <1>15. CASE \/ EnterUpgrade \/ Select \/ Start \/ Data \/ DataAgain \/ EndRefused
              \/ GiveUp \/ IdleTimeout \/ UNCHANGED vars
    BY <1>1, <1>5, <1>15 DEF EnterUpgrade, Select, Start, Data, DataAgain, EndRefused,
       GiveUp, IdleTimeout, vars, node, stored
  <1>16. CASE \/ PowerFail \/ PowerFailErase \/ PowerFailProgram \/ PowerFailSave
    BY <1>1, <1>2, <1>5, <1>16 DEF PowerFail, PowerFailErase, PowerFailProgram,
       PowerFailSave, Restart, stored
  <1>17. CASE LearnId  BY <1>1, <1>5, <1>17, SaveIs DEF LearnId, node
  <1>18. QED
    BY <1>7, <1>8, <1>9, <1>10, <1>11, <1>12, <1>13, <1>14, <1>15, <1>16, <1>17
       DEF Next, BoardNext, SessionNext
-----------------------------------------------------------------------------
(* What runs.                                                              *)

(* The checks before a start, and nothing else, lead into the application. *)
LEMMA AppEntered ==
    ASSUME TypeOK, PromotionHasCause, [Next]_vars, mode' = "app"
    PROVE  \/ mode = "app"
           \/ CheckApp /\ mode = "check" /\ AppOk(ram)
           \/ Record /\ mode = "record" /\ why = "rebuild" /\ AppOk(Normal)
  <1>1. ~Restart  BY DEF Restart
  <1>2. CASE CheckApp  BY <1>2 DEF CheckApp, Promote
  <1>3. CASE Record  BY <1>1, <1>3 DEF Record
  <1>4. ~TryBootApp
    <2>1. ASSUME TryBootApp  PROVE FALSE
      <3>1. ram' \in Metas /\ Tried(ram')  BY <2>1, StartTypes DEF TryBootApp
      <3>2. QED  BY <3>1, TriedIs
    <2>2. QED  BY <2>1
  <1>5. mode \in {"erase", "copy"} => ~PromoteFailed
    BY DEF PromoteFailed, PromotionHasCause, AfterFailure
  <1>6. ~PromoteErase /\ ~PromoteCopy
    BY <1>5 DEF PromoteErase, PromoteCopy
  <1>7. ~DropCommit /\ ~EnterBoot /\ ~PromoteCopied /\ ~EndInBoot
    BY DEF DropCommit, EnterBoot, PromoteCopied, EndInBoot, Promote
  <1>8. CASE \/ EnterUpgrade \/ Select \/ Start \/ Data \/ DataAgain \/ EndInApp \/ EndRefused
             \/ LearnId \/ Abort \/ GiveUp \/ IdleTimeout \/ UNCHANGED vars
    BY <1>1, <1>8 DEF EnterUpgrade, Select, Start, Data, DataAgain, EndInApp, EndRefused,
       LearnId, Abort, GiveUp, IdleTimeout, vars, node
  <1>9. ~ (\/ PowerFail \/ PowerFailErase \/ PowerFailProgram \/ PowerFailSave)
    BY <1>1 DEF PowerFail, PowerFailErase, PowerFailProgram, PowerFailSave
  <1>10. QED
    BY <1>2, <1>3, <1>4, <1>6, <1>7, <1>8, <1>9 DEF Next, BoardNext, SessionNext

LEMMA MatchIsWhole ==
    ASSUME TypeOK, FlashOfFiles, NEW m \in Metas, Named(m), Matches("A", m)
    PROVE  \E f \in Files : Holds("A", f)
  <1>1. PICK f \in Files : m.size = Len(f) /\ m.sum = FileSum(f)
    BY DEF Matches, Named
  <1>2. m.size \in 1 .. NUnits  BY CtuAssumption DEF Matches, Metas
  <1>3. flash["A"] \in RowsOfFiles
    <2>1. flash["A"] \in Rows /\ \A u \in Units : flash["A"][u] \in UnitsAt(u)
      BY DEF TypeOK, FlashOfFiles, Partitions
    <2>2. flash["A"] \in [Units -> UNION {UnitsAt(u) : u \in Units}]
      BY <2>1 DEF Rows
    <2>3. QED  BY <2>1, <2>2 DEF RowsOfFiles
  <1>4. RowSum(flash["A"], m.size) = FileSum(f)  BY <1>1 DEF Matches
  <1>5. QED  BY <1>1, <1>2, <1>3, <1>4, FirmwareAssumption DEF Holds

LEMMA WholeKept ==
    ASSUME TypeOK, FlashOfFiles, HostHasFile, InSession, PromotionHasCause, RecordsNameFiles,
           RunsWhole, [Next]_vars
    PROVE  RunsWhole'
  <1> SUFFICES ASSUME mode' = "app"  PROVE \E f \in Files : Holds("A", f)'
    BY DEF RunsWhole
  <1>1. /\ ram \in Metas /\ Normal \in Metas /\ Named(ram)
        /\ Normal.size = ram.size /\ Normal.sum = ram.sum
    BY RecordTypes DEF TypeOK, RecordsNameFiles, Normal, Metas
  <1>2. Named(Normal)  BY <1>1 DEF Named
  <1>3. /\ mode \notin {"erase", "copy"}
        /\ \E f \in Files : Holds("A", f)
    <2>1. CASE mode = "app"  BY <2>1 DEF RunsWhole
    <2>2. CASE mode = "check" /\ AppOk(ram)
      BY <1>1, <2>2, MatchIsWhole DEF AppOk
    <2>3. CASE mode = "record" /\ AppOk(Normal)
      BY <1>1, <1>2, <2>3, MatchIsWhole DEF AppOk
    <2>4. QED  BY <2>1, <2>2, <2>3, AppEntered
  <1>4. flash'["A"] = flash["A"]  BY <1>3, FlashKept
  <1>5. QED  BY <1>3, <1>4 DEF Holds
-----------------------------------------------------------------------------
(* What the next start finds.                                              *)

LEMMA StartKept ==
    ASSUME TypeOK, InSession, PromotionHasCause, StartKnowsRecord, [Next]_vars
    PROVE  StartKnowsRecord'
  <1>1. ASSUME UNCHANGED <<ram, meta>>, Starting' => Starting
        PROVE  StartKnowsRecord'
    BY <1>1 DEF StartKnowsRecord
  <1>2. ASSUME mode' \notin {"drop", "check", "erase", "copy", "record"}
        PROVE  StartKnowsRecord'
    BY <1>2 DEF StartKnowsRecord, Starting
  <1>3. Restart => StartKnowsRecord'  BY <1>2 DEF Restart
  <1>4. CASE TryBootApp
    <2>1. ram' \in Metas /\ Tried(ram') /\ ram' = Loaded(meta') /\ meta' \in Metas
      BY <1>4, StartTypes DEF TryBootApp
    <2>2. CASE mode' = "enter"  BY <1>2, <2>2
    <2>3. CASE ram'.magic = "good" /\ ram'.flag # 1
      <3>1. ram' = meta'  BY <2>1, <2>3 DEF Loaded, Metas
      <3>2. QED  BY <2>3, <3>1 DEF StartKnowsRecord
    <2>4. QED  BY <2>1, <2>2, <2>3, TriedIs
  <1>5. CASE DropCommit
    <2>1. /\ Starting /\ ram' = Normal /\ meta' \in {Normal, meta}
      BY <1>5, SaveIs DEF DropCommit, Starting
    <2>2. /\ Normal.magic = ram.magic /\ Normal.flag = 0
          /\ Normal.size = ram.size /\ Normal.sum = ram.sum
      BY DEF Normal, TypeOK, Metas
    <2>3. QED  BY <2>1, <2>2 DEF StartKnowsRecord
  <1>6. CASE CheckApp
    <2>1. UNCHANGED <<ram, meta>> /\ Starting  BY <1>6 DEF CheckApp, stored, Starting
    <2>2. QED  BY <1>1, <2>1
  <1>7. ASSUME PromoteFailed, mode \in {"erase", "copy"}  PROVE Starting' => Starting
    <2>1. CASE why = "commit"
      <3>1. mode' = "record" /\ why' = "commit"
        BY <1>7, <2>1 DEF PromoteFailed, AfterFailure
      <3>2. QED  BY <3>1 DEF Starting
    <2>2. CASE why # "commit"  BY <1>7, <2>2 DEF Starting
    <2>3. QED  BY <2>1, <2>2
  <1>8. CASE PromoteErase
    <2>1. Starting' => Starting
      <3>1. CASE PromoteFailed  BY <1>7, <1>8, <3>1 DEF PromoteErase
      <3>2. CASE mode' = "copy" /\ UNCHANGED why
        BY <1>8, <3>2 DEF PromoteErase, Starting
      <3>3. QED  BY <1>8, <3>1, <3>2 DEF PromoteErase
    <2>2. QED  BY <1>1, <1>8, <2>1 DEF PromoteErase
  <1>9. CASE PromoteCopy
    <2>1. Starting' => Starting
      <3>1. CASE PromoteFailed  BY <1>7, <1>9, <3>1 DEF PromoteCopy
      <3>2. CASE UNCHANGED <<mode, why>>  BY <3>2 DEF Starting
      <3>3. QED  BY <1>9, <3>1, <3>2 DEF PromoteCopy
    <2>2. QED  BY <1>1, <1>9, <2>1 DEF PromoteCopy
  <1>10. CASE PromoteCopied
    <2>1. Starting' => Starting  BY <1>10 DEF PromoteCopied, Starting
    <2>2. QED  BY <1>1, <1>10, <2>1 DEF PromoteCopied, stored
  <1>11. CASE EnterBoot \/ Record
    BY <1>2, <1>3, <1>11 DEF EnterBoot, Record
  <1>12. CASE EndInBoot
    <2>1. ~Starting'  BY <1>12 DEF EndInBoot, Promote, Starting
    <2>2. QED  BY <2>1 DEF StartKnowsRecord
  <1>13. ASSUME UNCHANGED mode, mode \in {"boot", "app"}  PROVE StartKnowsRecord'
    BY <1>2, <1>13
  <1>14. CASE \/ EnterUpgrade \/ Select \/ Start \/ Data \/ EndInApp \/ LearnId \/ IdleTimeout
    BY <1>13, <1>14 DEF EnterUpgrade, Select, Start, Data, EndInApp, LearnId, IdleTimeout,
       Listening, Sends, node
  <1>15. CASE Abort  BY <1>3, <1>13, <1>15 DEF Abort
  <1>16. CASE \/ DataAgain \/ EndRefused \/ GiveUp \/ UNCHANGED vars
    BY <1>1, <1>16 DEF DataAgain, EndRefused, GiveUp, vars, node, stored, Starting
  <1>17. CASE \/ PowerFail \/ PowerFailErase \/ PowerFailProgram \/ PowerFailSave
    BY <1>3, <1>17 DEF PowerFail, PowerFailErase, PowerFailProgram, PowerFailSave
  <1>18. QED
    BY <1>4, <1>5, <1>6, <1>8, <1>9, <1>10, <1>11, <1>12, <1>14, <1>15, <1>16, <1>17
       DEF Next, BoardNext, SessionNext

(* In an application the steps of the session, and a restart, are left.    *)
LEMMA AppKeepsRecord ==
    ASSUME ~Again, TypeOK, FlashOfFiles, HostHasFile, InSession, SessionIsTheHosts,
           AppIsRecorded, mode = "app", mode' = "app", [Next]_vars
    PROVE  AppIsRecorded'
  <1>1. /\ meta.magic = "good" /\ meta.flag # 1
        /\ Matches("A", meta) \/ (meta.flag = 2 /\ Matches("B", meta))
        /\ active => meta.flag # 2
    BY DEF AppIsRecorded
  <1>2. flash'["A"] = flash["A"]  BY FlashKept
  <1>3. ~active => flash'["B"] = flash["B"]  BY FlashKept DEF Listening
  <1>4. ASSUME meta' = meta, active' => meta.flag # 2  PROVE AppIsRecorded'
    <2>1. Matches("A", meta) => Matches("A", meta)'  BY <1>2, <1>4 DEF Matches
    <2>2. ~active /\ Matches("B", meta) => Matches("B", meta)'  BY <1>3, <1>4 DEF Matches
    <2>3. QED  BY <1>1, <1>4, <2>1, <2>2 DEF AppIsRecorded
  <1>5. CASE EnterUpgrade
    BY <1>4, <1>5 DEF EnterUpgrade, stored
  <1>6. CASE EndInApp
    <2>1. meta' \in {Committed(meta), meta}  BY <1>6, SaveIs DEF EndInApp
    <2>2. CASE meta' = Committed(meta)
      <3>1. /\ meta'.magic = meta.magic /\ meta'.flag = 2
            /\ meta'.size = ses.offset /\ meta'.sum = ses.total
        BY <2>2, RecordTypes DEF TypeOK
      <3>2. ~active' /\ flash' = flash  BY <1>6, <2>2 DEF EndInApp
      <3>3. Matches("B", meta)'
        BY <1>6, <3>1, <3>2, CompleteIsTheHosts DEF Matches, EndInApp
      <3>4. QED  BY <1>1, <3>1, <3>2, <3>3 DEF AppIsRecorded
    <2>3. CASE meta' = meta  BY <1>1, <1>4, <1>6, <2>3 DEF EndInApp
    <2>4. QED  BY <2>1, <2>2, <2>3
  <1>7. CASE \/ Select \/ Start \/ Data \/ DataAgain \/ EndRefused \/ GiveUp \/ UNCHANGED vars
    BY <1>1, <1>4, <1>7 DEF Select, Start, Data, DataAgain, EndRefused, GiveUp, vars, node, stored
  <1>8. CASE Abort \/ IdleTimeout
    BY <1>4, <1>8 DEF Abort, IdleTimeout, stored
  <1>9. ~BoardNext /\ ~EndInBoot /\ ~LearnId
    BY DEF BoardNext, TryBootApp, DropCommit, CheckApp, EnterBoot, PromoteErase,
       PromoteCopy, PromoteCopied, Record, EndInBoot, LearnId
  <1>10. ~ (\/ PowerFail \/ PowerFailErase \/ PowerFailProgram \/ PowerFailSave)
    BY DEF PowerFail, PowerFailErase, PowerFailProgram, PowerFailSave, Restart
  <1>11. QED
    BY <1>5, <1>6, <1>7, <1>8, <1>9, <1>10 DEF Next, SessionNext

LEMMA AppRecordedKept ==
    ASSUME ~Again, TypeOK, FlashOfFiles, HostHasFile, InSession, PromotionHasCause,
           SessionIsTheHosts, StartKnowsRecord, AppIsRecorded, [Next]_vars
    PROVE  AppIsRecorded'
  <1> SUFFICES ASSUME mode' = "app"  PROVE AppIsRecorded'
    BY DEF AppIsRecorded
  <1>1. CASE mode = "app"  BY <1>1, AppKeepsRecord
  <1>2. CASE CheckApp /\ mode = "check" /\ AppOk(ram)
    <2>1. /\ meta.magic = "good" /\ meta.flag # 1
          /\ ram.size = meta.size /\ ram.sum = meta.sum /\ ~active
      BY <1>2 DEF StartKnowsRecord, Starting, InSession
    <2>2. Matches("A", ram) /\ UNCHANGED <<meta, flash, active>>
      BY <1>2 DEF AppOk, CheckApp, stored
    <2>3. Matches("A", meta)'  BY <2>1, <2>2 DEF Matches
    <2>4. QED  BY <2>1, <2>2, <2>3 DEF AppIsRecorded
  <1>3. CASE Record /\ mode = "record" /\ why = "rebuild" /\ AppOk(Normal)
    <2>1. /\ meta.magic = "good" /\ meta.flag # 1 /\ ram.magic = "good"
          /\ ram.size = meta.size /\ ram.sum = meta.sum /\ ~active
      BY <1>3 DEF StartKnowsRecord, Starting, InSession
    <2>2. /\ Normal.magic = ram.magic /\ Normal.flag = 0
          /\ Normal.size = ram.size /\ Normal.sum = ram.sum
      BY DEF Normal, TypeOK, Metas
    <2>3. Matches("A", Normal) /\ UNCHANGED <<flash, active>> /\ meta' \in {Normal, meta}
      BY <1>3, SaveIs DEF AppOk, Record
    <2>4. /\ meta'.magic = "good" /\ meta'.flag # 1
          /\ meta'.size = ram.size /\ meta'.sum = ram.sum
      BY <2>1, <2>2, <2>3
    <2>5. Matches("A", meta)'  BY <2>2, <2>3, <2>4 DEF Matches
    <2>6. QED  BY <2>1, <2>3, <2>4, <2>5 DEF AppIsRecorded
  <1>4. QED  BY <1>1, <1>2, <1>3, AppEntered
-----------------------------------------------------------------------------
(* The theorems.                                                           *)

LEMMA InitInvariant == Init => CtuInv
  <1> SUFFICES ASSUME Init PROVE CtuInv  OBVIOUS
  <1>1. /\ mode = "init" /\ why = "none" /\ copied = 0 /\ active = FALSE
        /\ ses = Fresh /\ ram = NoMeta /\ sick = FALSE /\ faults = 0 /\ host = NoHost
    BY DEF Init
  <1>2. /\ 0 \in 0 .. NUnits /\ 0 \in 0 .. MaxFaults /\ "init" \in Modes
        /\ NoMeta \in Metas /\ NoHost \in Hosts
    BY CtuAssumption DEF Modes, NoMeta, Metas, NoHost, Hosts
  <1>3. /\ meta \in Metas /\ Named(meta)
        /\ flash \in [Partitions -> Rows] /\ FlashOfFiles
    <2>1. CASE meta = NoMeta /\ flash = [p \in Partitions |-> BlankRow]
      BY <1>2, <2>1, CtuAssumption
         DEF NoMeta, Named, BlankRow, Rows, FlashOfFiles, UnitsAt
    <2>2. CASE \E f \in Files : Installed(f)
      <3>1. PICK f \in Files : Installed(f)  BY <2>2
      <3>2. f \in Seq(Nat) /\ Len(f) \in 1 .. NUnits  BY CtuAssumption
      <3> DEFINE row == [u \in Units |-> IF u < Len(f) THEN f[u + 1] ELSE Blank]
      <3>3. ASSUME NEW u \in Units
            PROVE  row[u] \in Nat /\ row[u] \in UnitsAt(u)
        <4>1. u \in Nat /\ u + 1 \in 1 .. NUnits  BY UnitsFit
        <4>2. CASE u < Len(f)
          <5>1. u + 1 \in 1 .. Len(f)  BY <3>2, <4>1, <4>2
          <5>2. row[u] = f[u + 1] /\ f[u + 1] \in Nat  BY <3>2, <4>2, <5>1
          <5>3. QED  BY <4>2, <5>2 DEF UnitsAt
        <4>3. CASE ~(u < Len(f))
          <5>1. row[u] = Blank  BY <4>3
          <5>2. QED  BY <5>1, CtuAssumption DEF UnitsAt
        <4>4. QED  BY <4>2, <4>3
      <3>4. row \in Rows /\ flash = [p \in Partitions |-> row]
        BY <3>1, <3>3 DEF Rows, Installed
      <3>5. FileSum(f) \in Nat
        <4>1. \A i \in DOMAIN f : row[i - 1] = f[i]
          <5>1. ASSUME NEW i \in DOMAIN f
                PROVE  i - 1 \in Units /\ i - 1 < Len(f) /\ (i - 1) + 1 = i
            BY <3>2, CtuAssumption DEF Units
          <5>2. QED  BY <5>1
        <4> HIDE DEF row
        <4>2. RowSum(row, Len(f)) = FileSum(f)  BY <3>4, <4>1, FileSums
        <4>3. Len(f) - 1 \in Units /\ (Len(f) - 1) + 1 = Len(f)
          BY <3>2, CtuAssumption DEF Units
        <4>4. RowSum(row, Len(f)) \in Nat
          <5>1. /\ RowSum(row, Len(f) - 1) \in Nat /\ row[Len(f) - 1] \in Nat
                /\ RowSum(row, Len(f)) = RowSum(row, Len(f) - 1) + row[Len(f) - 1]
            BY <3>4, <4>3, RowSums DEF Rows
          <5>2. QED  BY <5>1
        <4>5. QED  BY <4>2, <4>4
      <3>6. meta = [magic |-> "good", flag |-> 0, size |-> Len(f), sum |-> FileSum(f)]
        BY <3>1 DEF Installed
      <3>7. meta \in Metas /\ Named(meta)
        BY <3>2, <3>5, <3>6 DEF Metas, Named
      <3> HIDE DEF row
      <3>8. FlashOfFiles  BY <3>3, <3>4 DEF FlashOfFiles
      <3>9. QED  BY <3>4, <3>7, <3>8
    <2>3. QED  BY <2>1, <2>2 DEF Init
  <1>4. TypeOK
    BY <1>1, <1>2, <1>3, FreshIs DEF TypeOK, Hosts
  <1>5. RecordsNameFiles
    BY <1>1, <1>3 DEF RecordsNameFiles, Named, NoMeta
  <1>6. HostHasFile /\ InSession /\ PromotionHasCause /\ SessionIsTheHosts /\ BootMarks
    BY <1>1 DEF HostHasFile, InSession, PromotionHasCause, SessionIsTheHosts, NoHost, BootMarks
  <1>7. RunsWhole /\ StartKnowsRecord /\ AppIsRecorded
    BY <1>1 DEF RunsWhole, StartKnowsRecord, Starting, AppIsRecorded
  <1>8. QED  BY <1>3, <1>4, <1>5, <1>6, <1>7 DEF CtuInv

LEMMA NextInvariant == CtuInv /\ [Next]_vars => CtuInv'
  <1> SUFFICES ASSUME CtuInv, [Next]_vars PROVE CtuInv'  OBVIOUS
  <1>1. /\ TypeOK /\ FlashOfFiles /\ RecordsNameFiles
        /\ HostHasFile /\ InSession /\ PromotionHasCause /\ BootMarks
        /\ SessionIsTheHosts /\ RunsWhole
        /\ StartKnowsRecord /\ (Again \/ AppIsRecorded)
    BY DEF CtuInv
  <1>2. TypeOK' /\ FlashOfFiles'  BY <1>1, TypesKept, FlashKept
  <1>3. RecordsNameFiles' /\ SessionIsTheHosts'  BY <1>1, NamesKept, SessionKept
  <1>4. HostHasFile' /\ InSession' /\ PromotionHasCause' /\ BootMarks'
    BY <1>1, HostKept, SessionOfAppKept, CausesKept, MarksKept
  <1>5. RunsWhole' /\ StartKnowsRecord'  BY <1>1, WholeKept, StartKept
  <1>6. (Again \/ AppIsRecorded)'
    <2>1. CASE Again  BY <2>1
    <2>2. CASE ~Again  BY <1>1, <2>2, AppRecordedKept
    <2>3. QED  BY <2>1, <2>2
  <1>7. QED  BY <1>2, <1>3, <1>4, <1>5, <1>6 DEF CtuInv

(* CtuInv holds for every partition size, every set of files, and any      *)
(* number of failures.                                                     *)
THEOREM CtuInvariant == Spec => []CtuInv
  <1>1. Init => CtuInv  BY InitInvariant
  <1>2. CtuInv /\ [Next]_vars => CtuInv'  BY NextInvariant
  <1>3. QED  BY <1>1, <1>2, PTL DEF Spec

(* Every variable keeps its type; in particular no counter of the session  *)
(* and no count of copied units leaves the partition.                      *)
THEOREM CtuTypes == Spec => []TypeOK
  <1>1. CtuInv => TypeOK  BY DEF CtuInv
  <1>2. QED  BY <1>1, CtuInvariant, PTL

(* What runs is a whole firmware file (boot_task.c, boot_app_ok).          *)
THEOREM OnlyWholeFirmwareRuns == Spec => []RunsWhole
  <1>1. CtuInv => RunsWhole  BY DEF CtuInv
  <1>2. QED  BY <1>1, CtuInvariant, PTL

(* A download in the running application never costs the board its         *)
(* firmware (srv_boot_ctrl.h:20), as long as the host does not download    *)
(* again before the power cycle that a finished download needs; without    *)
(* that condition it may (CtuSecondDownload).                              *)
THEOREM DownloadsAreSafe == ASSUME ~Again PROVE Spec => []NextStartRuns
  <1>1. CtuInv => NextStartRuns  BY DEF CtuInv, AppIsRecorded, NextStartRuns
  <1>2. QED  BY <1>1, CtuInvariant, PTL

(* A record of a download is made of the transfer that ends with it        *)
(* (boot_session.c, session_end).                                          *)
THEOREM CommitsAreTheHosts == Spec => CommittedIsTheHosts
  <1> DEFINE Right == meta' # meta /\ meta'.flag = 2 =>
        /\ meta'.size = Len(host.file) /\ meta'.sum = FileSum(host.file)
        /\ Holds("B", host.file)
  <1>1. CtuInv /\ [Next]_vars => Right
    <2> SUFFICES ASSUME CtuInv, [Next]_vars, meta' # meta, meta'.flag = 2
                 PROVE  /\ meta'.size = Len(host.file) /\ meta'.sum = FileSum(host.file)
                        /\ Holds("B", host.file)
      OBVIOUS
    <2>1. TypeOK /\ HostHasFile /\ SessionIsTheHosts  BY DEF CtuInv
    <2>2. /\ FirstRecord.flag = 0 /\ Normal.flag = 0 /\ [ram EXCEPT !.flag = 1].flag = 1
      BY <2>1 DEF FirstRecord, NoMeta, Normal, TypeOK, Metas
    <2>3. CASE EndInApp \/ EndInBoot
      <3>1. PICK m \in {meta, ram} : meta' = Committed(m)
        BY <2>1, <2>3, SaveIs DEF EndInApp, EndInBoot
      <3>2. meta'.size = ses.offset /\ meta'.sum = ses.total
        BY <2>1, <3>1, RecordTypes DEF TypeOK
      <3>3. QED
        BY <2>1, <2>3, <3>2, CompleteIsTheHosts DEF EndInApp, EndInBoot
    <2>4. ~TryBootApp  BY <2>1, <2>2, StartTypes
    <2>5. ~DropCommit /\ ~EnterBoot /\ ~Record
      <3>1. \A m : Save(m) => meta' = m  BY <2>1, SaveIs
      <3>2. ~DropCommit /\ ~Record  BY <2>2, <3>1 DEF DropCommit, Record
      <3>3. ~EnterBoot
        <4>1. ASSUME EnterBoot  PROVE FALSE
          <5>1. Save(ram') /\ ram'.flag = 1  BY <2>2, <4>1 DEF EnterBoot
          <5>2. meta' = ram'  BY <3>1, <5>1
          <5>3. QED  BY <5>1, <5>2
        <4>2. QED  BY <4>1
      <3>4. QED  BY <3>2, <3>3
    <2>6. ~Abort /\ ~LearnId
      <3>1. ~Abort  BY <2>1, <2>2, SaveIs DEF Abort, stored
      <3>2. mode = "boot" => ram.flag = 1  BY DEF CtuInv, BootMarks
      <3>3. ~LearnId  BY <2>1, <3>2, SaveIs DEF LearnId
      <3>4. QED  BY <3>1, <3>3
    <2>7. ~ (\/ CheckApp \/ PromoteErase \/ PromoteCopy \/ PromoteCopied
             \/ EnterUpgrade \/ Select \/ Start \/ Data \/ DataAgain \/ EndRefused
             \/ GiveUp \/ IdleTimeout \/ UNCHANGED vars)
      BY DEF CheckApp, PromoteErase, PromoteCopy, PromoteCopied, EnterUpgrade, Select, Start,
         Data, DataAgain, EndRefused, GiveUp, IdleTimeout, vars, node, stored
    <2>8. ~ (\/ PowerFail \/ PowerFailErase \/ PowerFailProgram \/ PowerFailSave)
      BY DEF PowerFail, PowerFailErase, PowerFailProgram, PowerFailSave, stored
    <2>9. QED
      BY <2>3, <2>4, <2>5, <2>6, <2>7, <2>8 DEF Next, BoardNext, SessionNext
  <1>2. Right => [meta' # meta /\ meta'.flag = 2 =>
        /\ meta'.size = Len(host.file) /\ meta'.sum = FileSum(host.file)
        /\ Holds("B", host.file)]_vars
    OBVIOUS
  <1>3. QED  BY <1>1, <1>2, CtuInvariant, PTL DEF Spec, CommittedIsTheHosts
-----------------------------------------------------------------------------
(* When the host is needed.  The states that HostNotNeeded excepts last:   *)
(* a torn frame never goes away, and failures are counted.                 *)

Fine == ~sick /\ faults < 2
Recorded == meta.magic = "good" /\ meta.size > 0
SameFirmware == meta.size = ram.size /\ meta.sum = ram.sum

CopyCounts == mode \notin {"copy", "record"} => copied = 0
MagicKnown == mode # "init" => (ram.magic = "good" <=> meta.magic = "good")

(* What a start needs to find, if a firmware is recorded.  That A is       *)
(* broken while nothing says so takes a promotion that has failed.         *)
Repairable ==
    Recorded =>
        /\ meta.flag # 1
        /\ meta.flag = 2 => Matches("B", meta)
        /\ meta.flag = 0 => Matches("A", meta) \/ (Matches("B", meta) /\ faults > 0)

WaitsUnrecorded ==
    mode \in {"enter", "boot"} /\ ram.magic = "good" => meta.size = 0 /\ ram.size = 0
DropsAfterFailure == mode = "drop" /\ Recorded => faults > 0 /\ Matches("B", meta)
ChecksNormal == mode = "check" /\ Recorded => meta.flag = 0
PromotesWhole ==
    mode \in {"erase", "copy"} =>
        /\ Matches("B", ram)
        /\ Recorded => SameFirmware /\ (meta.flag = 2 \/ faults > 0)
        /\ why = "rebuild" => faults > 0
CopiesB == mode = "copy" => \A u \in 0 .. copied - 1 : flash["A"][u] = flash["B"][u]
RecordsWhole ==
    mode = "record" =>
        /\ Matches("B", ram)
        /\ Matches("A", ram) \/ (why = "commit" /\ faults > 0)
        /\ Recorded => SameFirmware

OnTheWay ==
    /\ WaitsUnrecorded /\ DropsAfterFailure /\ ChecksNormal
    /\ PromotesWhole /\ CopiesB /\ RecordsWhole
HostInv == CopyCounts /\ MagicKnown /\ (Fine => Repairable /\ OnTheWay)

LEMMA NormalIs ==
    ASSUME TypeOK
    PROVE  /\ Normal.magic = ram.magic /\ Normal.flag = 0
           /\ Normal.size = ram.size /\ Normal.sum = ram.sum
  BY DEF Normal, TypeOK, Metas

(* Saves: what a failed one costs.                                         *)
LEMMA SaveCosts ==
    ASSUME TypeOK, NEW m, Save(m)
    PROVE  /\ sick => sick'
           /\ faults' = faults \/ (faults' = faults + 1 /\ meta' = meta)
           /\ ~sick /\ faults' = faults => meta' = m
  <1>1. faults \in Nat  BY DEF TypeOK
  <1>2. CASE sick  BY <1>2 DEF Save
  <1>3. CASE ~sick
    <2>1. CASE meta' = m /\ UNCHANGED sick /\ Sound  BY <1>3, <2>1 DEF Sound
    <2>2. CASE UNCHANGED meta /\ sick' \in {FALSE, TornSaves} /\ Faulty
      BY <1>1, <1>3, <2>2 DEF Faulty
    <2>3. QED  BY <1>3, <2>1, <2>2 DEF Save
  <1>4. QED  BY <1>2, <1>3

(* No step mends what HostNotNeeded excepts.                               *)
LEMMA FineBefore ==
    ASSUME TypeOK, [Next]_vars
    PROVE  faults' \in {faults, faults + 1} /\ (Fine' => Fine)
  <1>1. faults \in Nat  BY DEF TypeOK
  <1>2. ASSUME faults' \in {faults, faults + 1}, sick => sick'
        PROVE  faults' \in {faults, faults + 1} /\ (Fine' => Fine)
    BY <1>1, <1>2 DEF Fine
  <1>3. \A m : Save(m) => faults' \in {faults, faults + 1} /\ (sick => sick')
    BY SaveCosts
  <1>4. Faulty \/ Sound => faults' \in {faults, faults + 1}  BY DEF Faulty, Sound
  <1>5. CASE \/ DropCommit \/ EnterBoot \/ Record \/ EndInApp \/ EndInBoot \/ LearnId
    BY <1>2, <1>3, <1>5 DEF DropCommit, EnterBoot, Record, EndInApp, EndInBoot, LearnId
  <1>6. CASE TryBootApp
    BY <1>2, <1>3, <1>6 DEF TryBootApp
  <1>7. CASE Abort
    BY <1>2, <1>3, <1>7 DEF Abort, stored
  <1>8. CASE PromoteErase \/ PromoteCopy
    BY <1>2, <1>4, <1>8 DEF PromoteErase, PromoteCopy, PromoteFailed
  <1>9. CASE Start \/ Data
    BY <1>2, <1>4, <1>9 DEF Start, Data
  <1>10. CASE \/ CheckApp \/ PromoteCopied \/ EnterUpgrade \/ Select \/ DataAgain
              \/ EndRefused \/ GiveUp \/ IdleTimeout \/ UNCHANGED vars
    BY <1>2, <1>10 DEF CheckApp, PromoteCopied, EnterUpgrade, Select, DataAgain, EndRefused,
       GiveUp, IdleTimeout, vars, stored
  <1>11. CASE \/ PowerFail \/ PowerFailErase \/ PowerFailProgram \/ PowerFailSave
    BY <1>2, <1>11 DEF PowerFail, PowerFailErase, PowerFailProgram, PowerFailSave, stored
  <1>12. QED
    BY <1>5, <1>6, <1>7, <1>8, <1>9, <1>10, <1>11 DEF Next, BoardNext, SessionNext

LEMMA CopyCountsKept ==
    ASSUME CopyCounts, [Next]_vars
    PROVE  CopyCounts'
  <1>1. ASSUME mode' \in {"copy", "record"} \/ copied' = 0  PROVE CopyCounts'
    BY <1>1 DEF CopyCounts
  <1>2. ASSUME UNCHANGED copied, mode \notin {"copy", "record"}  PROVE CopyCounts'
    BY <1>1, <1>2 DEF CopyCounts
  <1>3. Restart => CopyCounts'  BY <1>1 DEF Restart
  <1>4. CASE \/ TryBootApp \/ DropCommit \/ CheckApp \/ EnterBoot
    BY <1>2, <1>4 DEF TryBootApp, DropCommit, CheckApp, EnterBoot
  <1>5. CASE PromoteErase \/ PromoteCopy \/ PromoteCopied
    BY <1>1, <1>5 DEF PromoteErase, PromoteCopy, PromoteCopied, PromoteFailed
  <1>6. CASE Record \/ EndInBoot
    BY <1>1, <1>3, <1>6 DEF Record, EndInBoot
  <1>7. CASE \/ EnterUpgrade \/ Select \/ Start \/ Data \/ EndInApp \/ LearnId \/ IdleTimeout
    BY <1>2, <1>7 DEF EnterUpgrade, Select, Start, Data, EndInApp, LearnId, IdleTimeout,
       Listening, Sends, node
  <1>8. CASE Abort
    BY <1>2, <1>3, <1>8 DEF Abort
  <1>9. CASE \/ DataAgain \/ EndRefused \/ GiveUp \/ UNCHANGED vars
    BY <1>9 DEF DataAgain, EndRefused, GiveUp, vars, node, CopyCounts
  <1>10. CASE \/ PowerFail \/ PowerFailErase \/ PowerFailProgram \/ PowerFailSave
    BY <1>3, <1>10 DEF PowerFail, PowerFailErase, PowerFailProgram, PowerFailSave
  <1>11. QED
    BY <1>4, <1>5, <1>6, <1>7, <1>8, <1>9, <1>10 DEF Next, BoardNext, SessionNext

LEMMA MagicKnownKept ==
    ASSUME TypeOK, InSession, MagicKnown, [Next]_vars
    PROVE  MagicKnown'
  <1>1. ASSUME mode # "init", meta'.magic = meta.magic, ram'.magic = ram.magic
        PROVE  MagicKnown'
    BY <1>1 DEF MagicKnown
  <1>2. ASSUME mode # "init", meta'.magic \in {ram.magic, meta.magic}, ram'.magic = ram.magic
        PROVE  MagicKnown'
    BY <1>2 DEF MagicKnown
  <1>3. Restart => MagicKnown'  BY DEF Restart, MagicKnown
  <1>4. CASE TryBootApp
    <2>1. meta' \in Metas /\ ram' = Loaded(meta')  BY <1>4, StartTypes DEF TryBootApp
    <2>2. ram'.magic = "good" <=> meta'.magic = "good"  BY <2>1 DEF Loaded, Metas
    <2>3. QED  BY <2>2 DEF MagicKnown
  <1>5. CASE DropCommit
    BY <1>2, <1>5, SaveIs, NormalIs DEF DropCommit
  <1>6. CASE EnterBoot
    <2>1. [ram EXCEPT !.flag = 1].magic = ram.magic  BY DEF TypeOK, Metas
    <2>2. ram' = [ram EXCEPT !.flag = 1] /\ Save(ram') /\ mode # "init"  BY <1>6 DEF EnterBoot
    <2>3. meta' \in {ram', meta}  BY <2>2, SaveIs
    <2>4. QED  BY <1>2, <2>1, <2>2, <2>3
  <1>7. CASE Record
    BY <1>2, <1>3, <1>7, SaveIs, NormalIs DEF Record
  <1>8. CASE EndInApp
    <2>1. Committed(meta).magic = meta.magic  BY RecordTypes DEF TypeOK
    <2>2. QED  BY <1>1, <1>8, <2>1, SaveIs DEF EndInApp
  <1>9. CASE EndInBoot
    <2>1. Committed(ram).magic = ram.magic  BY RecordTypes DEF TypeOK
    <2>2. ram' = Committed(ram) /\ Save(ram') /\ mode # "init"  BY <1>9 DEF EndInBoot
    <2>3. meta' \in {ram', meta}  BY <2>2, SaveIs
    <2>4. QED  BY <1>2, <2>1, <2>2, <2>3
  <1>10. CASE Abort
    BY <1>1, <1>3, <1>10 DEF Abort, Listening, stored
  <1>11. CASE CheckApp \/ PromoteErase \/ PromoteCopy \/ PromoteCopied
    BY <1>1, <1>11 DEF CheckApp, PromoteErase, PromoteCopy, PromoteCopied, stored
  <1>12. CASE \/ EnterUpgrade \/ Select \/ Start \/ Data \/ IdleTimeout
    BY <1>1, <1>12 DEF EnterUpgrade, Select, Start, Data, IdleTimeout, Listening, Sends, stored
  <1>13. CASE \/ DataAgain \/ EndRefused \/ GiveUp \/ UNCHANGED vars
    BY <1>13 DEF DataAgain, EndRefused, GiveUp, vars, node, stored, MagicKnown
  <1>14. CASE \/ PowerFail \/ PowerFailErase \/ PowerFailProgram \/ PowerFailSave
    BY <1>3, <1>14 DEF PowerFail, PowerFailErase, PowerFailProgram, PowerFailSave
  <1>15. CASE LearnId  BY <1>2, <1>15, SaveIs DEF LearnId, node
  <1>16. QED
    BY <1>4, <1>5, <1>6, <1>7, <1>8, <1>9, <1>10, <1>11, <1>12, <1>13, <1>14, <1>15
       DEF Next, BoardNext, SessionNext

(* An application whose sum is right may be started.                       *)
LEMMA WholeIsOk ==
    ASSUME TypeOK, FlashOfFiles, NEW m \in Metas, Named(m), Matches("A", m)
    PROVE  AppOk(m)
  <1>1. PICK f \in Files : Holds("A", f)  BY MatchIsWhole
  <1>2. 1 \in DOMAIN f /\ f[1] \in Vectors  BY CtuAssumption
  <1>3. flash["A"][0] = f[1]  BY <1>1, <1>2 DEF Holds
  <1>4. QED  BY <1>2, <1>3 DEF AppOk

(* What the flash holds changes under a record only where the record does  *)
(* not need it: a promotion writes A while B is whole, a session writes B  *)
(* while the running firmware in A is the recorded one.                    *)
LEMMA FirmwareStays ==
    ASSUME ~Again, CtuInv, HostInv, Fine, [Next]_vars, meta' = meta
    PROVE  Repairable'
  <1>1. /\ TypeOK /\ FlashOfFiles /\ HostHasFile /\ InSession /\ AppIsRecorded
        /\ Repairable /\ WaitsUnrecorded /\ PromotesWhole /\ MagicKnown
    BY DEF CtuInv, HostInv, OnTheWay
  <1>2. /\ mode \notin {"erase", "copy"} => flash'["A"] = flash["A"]
        /\ ~Listening => flash'["B"] = flash["B"]
    BY <1>1, FlashKept
  <1>3. faults > 0 => faults' > 0
    <2>1. faults \in Nat  BY <1>1 DEF TypeOK
    <2>2. QED  BY <1>1, <2>1, FineBefore
  <1>4. SUFFICES ASSUME Recorded
                 PROVE  /\ meta.flag = 2 => Matches("B", meta)'
                        /\ meta.flag = 0 => Matches("A", meta)'
                                            \/ (Matches("B", meta)' /\ faults' > 0)
    BY <1>1 DEF Repairable, Recorded
  <1>5. ASSUME flash'["B"] = flash["B"]  PROVE Matches("B", meta) => Matches("B", meta)'
    BY <1>5 DEF Matches
  <1>6. ASSUME flash'["A"] = flash["A"]  PROVE Matches("A", meta) => Matches("A", meta)'
    BY <1>6 DEF Matches
  <1>7. CASE mode \in {"erase", "copy"}
    <2>1. flash'["B"] = flash["B"]  BY <1>1, <1>2, <1>7 DEF Listening
    <2>2. Matches("B", ram) /\ SameFirmware /\ (meta.flag = 2 \/ faults > 0)
      BY <1>1, <1>4, <1>7 DEF PromotesWhole
    <2>3. Matches("B", meta)  BY <2>2 DEF Matches, SameFirmware
    <2>4. QED  BY <1>3, <1>5, <2>1, <2>2, <2>3
  <1>8. CASE Listening
    <2>1. mode = "app" /\ active
      <3>1. mode # "boot"
        <4>1. ASSUME mode = "boot"  PROVE FALSE
          <5>1. ram.magic = "good"  BY <1>1, <1>4, <4>1 DEF MagicKnown, Recorded
          <5>2. meta.size = 0  BY <1>1, <4>1, <5>1 DEF WaitsUnrecorded
          <5>3. QED  BY <1>4, <5>2 DEF Recorded
        <4>2. QED  BY <4>1
      <3>2. QED  BY <1>8, <3>1 DEF Listening
    <2>2. meta.flag # 2 /\ Matches("A", meta)  BY <1>1, <2>1 DEF AppIsRecorded
    <2>3. QED  BY <1>2, <1>6, <2>1, <2>2
  <1>9. CASE mode \notin {"erase", "copy"} /\ ~Listening
    BY <1>1, <1>2, <1>3, <1>4, <1>5, <1>6, <1>9 DEF Repairable
  <1>10. QED  BY <1>7, <1>8, <1>9

(* What is stored is repairable, too: a first record, a dropped commit,    *)
(* a promotion, a download.                                                *)
LEMMA RepairableKept ==
    ASSUME ~Again, CtuInv, HostInv, Fine, Fine', [Next]_vars
    PROVE  Repairable'
  <1>1. /\ TypeOK /\ HostHasFile /\ SessionIsTheHosts /\ StartKnowsRecord
        /\ CopyCounts /\ MagicKnown /\ Repairable
        /\ WaitsUnrecorded /\ DropsAfterFailure /\ PromotesWhole /\ RecordsWhole
    BY DEF CtuInv, HostInv, OnTheWay
  <1>2. CASE meta' = meta  BY <1>2, FirmwareStays
  <1>3. faults' \in {faults, faults + 1} /\ faults \in Nat
    BY <1>1, FineBefore DEF TypeOK
  <1>4. /\ Normal.magic = ram.magic /\ Normal.flag = 0
        /\ Normal.size = ram.size /\ Normal.sum = ram.sum
    BY <1>1, NormalIs
  <1>5. ASSUME ~Recorded'  PROVE Repairable'  BY <1>5 DEF Repairable
  <1>6. ASSUME meta'.flag = 2, Matches("B", meta)'  PROVE Repairable'
    BY <1>6 DEF Repairable
  <1>7. CASE meta' # meta
    <2>1. CASE TryBootApp
      <3>1. meta'.size = 0  BY <1>1, <1>7, <2>1, StartTypes DEF FirstRecord, NoMeta
      <3>2. QED  BY <1>5, <3>1 DEF Recorded
    <2>2. CASE DropCommit
      <3>1. meta' = Normal /\ mode = "drop" /\ flash' = flash
        BY <1>1, <1>7, <2>2, SaveIs DEF DropCommit
      <3>2. /\ meta.magic = "good" /\ ram.magic = "good"
            /\ ram.size = meta.size /\ ram.sum = meta.sum
        BY <1>1, <3>1 DEF StartKnowsRecord, Starting
      <3>3. Recorded' => Recorded  BY <1>4, <3>1, <3>2 DEF Recorded
      <3>4. Recorded => Matches("B", meta)' /\ faults' > 0
        BY <1>1, <1>3, <1>4, <3>1, <3>2 DEF DropsAfterFailure, Matches
      <3>5. QED  BY <1>4, <3>1, <3>3, <3>4 DEF Repairable
    <2>3. CASE EnterBoot
      <3>1. ram' = [ram EXCEPT !.flag = 1] /\ Save(ram') /\ mode = "enter"
        BY <2>3 DEF EnterBoot
      <3>2. ram'.magic = ram.magic /\ ram'.size = ram.size
        BY <1>1, <3>1 DEF TypeOK, Metas
      <3>3. meta' = ram'  BY <1>1, <1>7, <3>1, SaveIs
      <3>4. ~Recorded'  BY <1>1, <3>1, <3>2, <3>3 DEF Recorded, WaitsUnrecorded
      <3>5. QED  BY <1>5, <3>4
    <2>4. CASE Record
      <3>1. meta' = Normal /\ mode = "record" /\ flash' = flash
        BY <1>1, <1>7, <2>4, SaveIs DEF Record
      <3>2. Matches("B", ram) /\ (Matches("A", ram) \/ faults > 0)
        BY <1>1, <3>1 DEF RecordsWhole
      <3>3. Matches("B", meta)' /\ (Matches("A", meta)' \/ faults' > 0)
        BY <1>3, <1>4, <3>1, <3>2 DEF Matches
      <3>4. QED  BY <1>4, <3>1, <3>3 DEF Repairable
    <2>5. CASE EndInApp \/ EndInBoot
      <3>1. PICK m \in Metas : meta' = Committed(m)
        BY <1>1, <1>7, <2>5, SaveIs DEF EndInApp, EndInBoot, TypeOK
      <3>2. meta'.flag = 2 /\ meta'.size = ses.offset /\ meta'.sum = ses.total
        BY <1>1, <3>1, RecordTypes
      <3>3. flash' = flash /\ Sent /\ Complete  BY <2>5 DEF EndInApp, EndInBoot
      <3>4. Matches("B", meta)'
        BY <1>1, <3>2, <3>3, CompleteIsTheHosts DEF Matches
      <3>5. QED  BY <1>6, <3>2, <3>4
    <2>6. CASE Abort
      <3>1. mode = "boot" /\ meta' = Normal
        BY <1>1, <1>7, <2>6, SaveIs DEF Abort, Listening, stored
      <3>2. ~Recorded'  BY <1>1, <1>4, <3>1 DEF Recorded, WaitsUnrecorded
      <3>3. QED  BY <1>5, <3>2
    <2>7. CASE LearnId
      <3>1. mode = "boot" /\ meta' = ram  BY <1>1, <1>7, <2>7, SaveIs DEF LearnId
      <3>2. ~Recorded'  BY <1>1, <3>1 DEF Recorded, WaitsUnrecorded
      <3>3. QED  BY <1>5, <3>2
    <2>8. ~ (\/ CheckApp \/ PromoteErase \/ PromoteCopy \/ PromoteCopied
             \/ EnterUpgrade \/ Select \/ Start \/ Data \/ DataAgain \/ EndRefused
             \/ GiveUp \/ IdleTimeout \/ UNCHANGED vars)
      BY <1>7 DEF CheckApp, PromoteErase, PromoteCopy, PromoteCopied, EnterUpgrade, Select,
         Start, Data, DataAgain, EndRefused, GiveUp, IdleTimeout, vars, node, stored
    <2>9. ~ (\/ PowerFail \/ PowerFailErase \/ PowerFailProgram \/ PowerFailSave)
      BY <1>7 DEF PowerFail, PowerFailErase, PowerFailProgram, PowerFailSave, stored
    <2>10. QED
      BY <2>1, <2>2, <2>3, <2>4, <2>5, <2>6, <2>7, <2>8, <2>9 DEF Next, BoardNext, SessionNext
  <1>8. QED  BY <1>2, <1>7

(* In each mode only the condition of that mode is left to show.           *)
LEMMA WayTo ==
    /\ mode' \in {"init", "app"} => OnTheWay'
    /\ mode' \in {"enter", "boot"} /\ WaitsUnrecorded' => OnTheWay'
    /\ mode' = "drop" /\ DropsAfterFailure' => OnTheWay'
    /\ mode' = "check" /\ ChecksNormal' => OnTheWay'
    /\ mode' = "erase" /\ PromotesWhole' => OnTheWay'
    /\ mode' = "copy" /\ PromotesWhole' /\ CopiesB' => OnTheWay'
    /\ mode' = "record" /\ RecordsWhole' => OnTheWay'
  BY DEF OnTheWay, WaitsUnrecorded, DropsAfterFailure, ChecksNormal, PromotesWhole,
         CopiesB, RecordsWhole

(* A start follows the record, and a record that it follows is repairable. *)
LEMMA StartOnTheWay ==
    ASSUME TypeOK, Repairable, Repairable', TryBootApp
    PROVE  OnTheWay'
  <1>1. /\ ram' \in Metas /\ Tried(ram') /\ ram' = Loaded(meta') /\ meta' \in Metas
        /\ flash' = flash
    BY StartTypes DEF TryBootApp
  <1>2. CASE ram'.magic # "good"
    <2>1. mode' = "enter"  BY <1>1, <1>2 DEF Tried
    <2>2. WaitsUnrecorded'  BY <1>2 DEF WaitsUnrecorded
    <2>3. QED  BY <2>1, <2>2, WayTo
  <1>3. CASE ram'.magic = "good"
    <2>1. ram' = meta'  BY <1>1, <1>3 DEF Loaded, Metas
    <2>2. meta'.size \in Nat /\ meta'.flag \in {0, 1, 2}  BY <1>1, CtuAssumption DEF Metas
    <2>3. CASE meta'.size > 0
      <3>1. Recorded'  BY <1>3, <2>1, <2>3 DEF Recorded
      <3>2. meta'.flag # 1 /\ (meta'.flag = 2 => Matches("B", meta)')
        BY <3>1 DEF Repairable
      <3>3. CASE meta'.flag = 0
        <4>1. mode' = "check"  BY <1>1, <1>3, <2>1, <3>3 DEF Tried
        <4>2. ChecksNormal'  BY <3>3 DEF ChecksNormal
        <4>3. QED  BY <4>1, <4>2, WayTo
      <3>4. CASE meta'.flag = 2
        <4>1. Matches("B", ram)' /\ Matches("B", ram')
          BY <1>1, <2>1, <3>2, <3>4 DEF Matches
        <4>2. mode' = "erase" /\ why' = "resume"
          BY <1>1, <1>3, <2>1, <3>4, <4>1 DEF Tried, Promote
        <4>3. PromotesWhole'
          BY <2>1, <3>4, <4>1, <4>2 DEF PromotesWhole, SameFirmware
        <4>4. QED  BY <4>2, <4>3, WayTo
      <3>5. QED  BY <2>2, <3>2, <3>3, <3>4
    <2>4. CASE meta'.size = 0
      <3>1. ~Recorded' /\ ~Matches("B", ram')  BY <2>1, <2>4 DEF Recorded, Matches
      <3>2. mode' \in {"drop", "check", "enter"}
        BY <1>1, <1>3, <2>1, <2>2, <3>1 DEF Tried
      <3>3. DropsAfterFailure' /\ ChecksNormal' /\ WaitsUnrecorded'
        BY <2>1, <2>4, <3>1 DEF DropsAfterFailure, ChecksNormal, WaitsUnrecorded
      <3>4. QED  BY <3>2, <3>3, WayTo
    <2>5. QED  BY <2>2, <2>3, <2>4
  <1>4. QED  BY <1>2, <1>3

LEMMA DropOnTheWay ==
    ASSUME TypeOK, DropsAfterFailure, Fine', DropCommit
    PROVE  OnTheWay'
  <1>1. mode = "drop" /\ mode' = "check" /\ Save(Normal)  BY DEF DropCommit
  <1>2. ASSUME Recorded'  PROVE meta'.flag = 0
    <2>1. CASE meta' = Normal  BY <2>1, NormalIs
    <2>2. CASE meta' # Normal
      <3>1. meta' = meta  BY <1>1, <2>2, SaveIs
      <3>2. faults > 0  BY <1>2, <1>1, <3>1 DEF Recorded, DropsAfterFailure
      <3>3. sick' \/ faults' = faults + 1  BY <1>1, <2>2, SaveCosts
      <3>4. faults \in Nat  BY DEF TypeOK
      <3>5. QED  BY <3>2, <3>3, <3>4 DEF Fine
    <2>3. QED  BY <2>1, <2>2
  <1>3. ChecksNormal'  BY <1>2 DEF ChecksNormal
  <1>4. QED  BY <1>1, <1>3, WayTo

(* Neither the application nor the copy in B is missed when A is checked.  *)
LEMMA CheckOnTheWay ==
    ASSUME CtuInv, Repairable, ChecksNormal, CheckApp
    PROVE  OnTheWay'
  <1>1. /\ TypeOK /\ FlashOfFiles /\ Named(ram) /\ ram \in Metas /\ mode = "check"
        /\ UNCHANGED <<ram, meta, flash, sick, faults>>
    BY DEF CtuInv, RecordsNameFiles, TypeOK, CheckApp, stored
  <1>2. meta.magic = "good" /\ SameFirmware
    BY <1>1 DEF CtuInv, StartKnowsRecord, Starting, SameFirmware
  <1>3. ~AppOk(ram) => ~Matches("A", ram)  BY <1>1, WholeIsOk
  <1>4. Recorded => Matches("A", ram) \/ (Matches("B", ram) /\ faults > 0)
    <2>1. Recorded => Matches("A", meta) \/ (Matches("B", meta) /\ faults > 0)
      BY <1>1 DEF Repairable, ChecksNormal
    <2>2. QED  BY <1>2, <2>1 DEF Matches, SameFirmware
  <1>5. ram.size > 0 => Recorded  BY <1>2 DEF SameFirmware, Recorded
  <1>6. CASE AppOk(ram)
    <2>1. mode' = "app"  BY <1>6 DEF CheckApp
    <2>2. QED  BY <2>1, WayTo
  <1>7. CASE ~AppOk(ram) /\ Matches("B", ram)
    <2>1. mode' = "erase" /\ why' = "rebuild"  BY <1>7 DEF CheckApp, Promote
    <2>2. Recorded /\ faults > 0  BY <1>3, <1>4, <1>5, <1>7 DEF Matches
    <2>3. Matches("B", ram)'  BY <1>1, <1>7 DEF Matches
    <2>4. PromotesWhole'
      BY <1>1, <1>2, <2>2, <2>3 DEF PromotesWhole, SameFirmware, Recorded
    <2>5. QED  BY <2>1, <2>4, WayTo
  <1>8. CASE ~AppOk(ram) /\ ~Matches("B", ram)
    <2>1. mode' = "enter"  BY <1>8 DEF CheckApp
    <2>2. ~Recorded  BY <1>3, <1>4, <1>8
    <2>3. meta.size = 0 /\ ram.size = 0
      <3>1. ram.size \in Nat  BY <1>1, CtuAssumption DEF Metas
      <3>2. QED  BY <1>2, <1>5, <2>2, <3>1 DEF SameFirmware
    <2>4. WaitsUnrecorded'  BY <1>1, <2>3 DEF WaitsUnrecorded
    <2>5. QED  BY <2>1, <2>4, WayTo
  <1>9. QED  BY <1>6, <1>7, <1>8

LEMMA EnterOnTheWay ==
    ASSUME TypeOK, WaitsUnrecorded, EnterBoot
    PROVE  OnTheWay'
  <1>1. /\ mode = "enter" /\ mode' = "boot" /\ Save(ram')
        /\ ram' = [ram EXCEPT !.flag = 1]
    BY DEF EnterBoot
  <1>2. ram'.magic = ram.magic /\ ram'.size = ram.size  BY <1>1 DEF TypeOK, Metas
  <1>3. meta' \in {ram', meta}  BY <1>1, SaveIs
  <1>4. WaitsUnrecorded'  BY <1>1, <1>2, <1>3 DEF WaitsUnrecorded
  <1>5. QED  BY <1>1, <1>4, WayTo

(* A promotion that fails has B left to start from again; what runs out    *)
(* after the second failure is left to the host.                           *)
LEMMA FailureOnTheWay ==
    ASSUME TypeOK, PromotionHasCause, PromotesWhole, mode \in {"erase", "copy"},
           Fine', PromoteFailed, UNCHANGED <<ram, meta>>, flash'["B"] = flash["B"]
    PROVE  OnTheWay'
  <1>1. faults = 0 /\ faults' = 1
    BY DEF PromoteFailed, Faulty, Fine, TypeOK
  <1>2. why \in {"resume", "commit"}
    BY <1>1 DEF PromotesWhole, PromotionHasCause
  <1>3. Matches("B", ram) /\ (Recorded => SameFirmware)  BY DEF PromotesWhole
  <1>4. Matches("B", ram)' /\ (Recorded => Matches("B", meta)')
    BY <1>3 DEF Matches, SameFirmware
  <1>5. CASE why = "resume"
    <2>1. mode' = "drop"  BY <1>5 DEF PromoteFailed, AfterFailure
    <2>2. DropsAfterFailure'  BY <1>1, <1>4 DEF DropsAfterFailure, Recorded
    <2>3. QED  BY <2>1, <2>2, WayTo
  <1>6. CASE why = "commit"
    <2>1. mode' = "record" /\ why' = "commit"  BY <1>6 DEF PromoteFailed, AfterFailure
    <2>2. RecordsWhole'
      BY <1>1, <1>3, <1>4, <2>1 DEF RecordsWhole, Recorded, SameFirmware
    <2>3. QED  BY <2>1, <2>2, WayTo
  <1>7. QED  BY <1>2, <1>5, <1>6

(* Each unit that a promotion copies is one of B.                          *)
LEMMA CopyOnTheWay ==
    ASSUME CtuInv, CopyCounts, PromotesWhole, CopiesB, Fine',
           PromoteErase \/ PromoteCopy
    PROVE  OnTheWay'
  <1>1. /\ TypeOK /\ PromotionHasCause /\ mode \in {"erase", "copy"}
        /\ flash \in [Partitions -> Rows] /\ copied \in 0 .. NUnits
        /\ ram.size \in 0 .. NUnits /\ NUnits \in Nat /\ faults \in Nat
        /\ UNCHANGED <<ram, meta>>
    BY CtuAssumption DEF CtuInv, TypeOK, Metas, PromoteErase, PromoteCopy
  <1>2. /\ "A" \in Partitions /\ "B" \in Partitions /\ "A" # "B"
        /\ \A u \in Units : flash["B"][u] \in Nat
    BY <1>1 DEF Partitions, Rows
  <1>3. copied < ram.size => copied \in Units  BY <1>1 DEF Units
  <1>4. flash'["B"] = flash["B"]
    <2>1. CASE PromoteErase
      BY <1>1, <1>2, <2>1, ErasedIs, BlankedIs DEF PromoteErase
    <2>2. CASE PromoteCopy
      <3>1. copied \in Units  BY <1>3, <2>2 DEF PromoteCopy
      <3>2. \A x \in Nat : Written("A", copied, x)["B"] = flash["B"]
        BY <1>1, <1>2, <3>1, WrittenIs
      <3>3. Torn \in Nat /\ flash["B"][copied] \in Nat  BY <1>2, <3>1, CtuAssumption
      <3>4. QED  BY <2>2, <3>2, <3>3 DEF PromoteCopy
    <2>3. QED  BY <2>1, <2>2
  <1>5. CASE PromoteFailed  BY <1>1, <1>4, <1>5, FailureOnTheWay
  <1>6. CASE ~PromoteFailed
    <2>1. mode' = "copy" /\ why' = why /\ faults' = faults
      BY <1>6 DEF PromoteErase, PromoteCopy, Sound
    <2>2. PromotesWhole'
      BY <1>1, <1>4, <2>1 DEF PromotesWhole, Matches, SameFirmware, Recorded
    <2>3. \A u \in 0 .. copied' - 1 : flash'["A"][u] = flash'["B"][u]
      <3>1. CASE PromoteErase
        <4>1. copied' = 0  BY <1>6, <3>1 DEF PromoteErase, CopyCounts
        <4>2. QED  BY <4>1
      <3>2. CASE PromoteCopy
        <4>1. /\ flash' = Written("A", copied, flash["B"][copied])
              /\ copied' = copied + 1 /\ mode = "copy" /\ copied \in Units
          BY <1>3, <1>6, <3>2 DEF PromoteCopy
        <4>2. \A v \in Units : flash'["A"][v] = IF v = copied THEN flash["B"][copied]
                                                ELSE flash["A"][v]
          BY <1>1, <1>2, <4>1, WrittenIs
        <4>3. ASSUME NEW u \in 0 .. copied' - 1
              PROVE  u \in Units /\ (u = copied \/ u \in 0 .. copied - 1)
          BY <1>1, <4>1 DEF Units
        <4>4. QED  BY <1>4, <4>1, <4>2, <4>3 DEF CopiesB
      <3>3. QED  BY <3>1, <3>2
    <2>4. CopiesB'  BY <2>3 DEF CopiesB
    <2>5. QED  BY <2>1, <2>2, <2>4, WayTo
  <1>7. QED  BY <1>5, <1>6

(* A complete copy has the sum of B.                                       *)
LEMMA CopiedOnTheWay ==
    ASSUME TypeOK, PromotesWhole, CopiesB, PromoteCopied
    PROVE  OnTheWay'
  <1>1. /\ mode = "copy" /\ copied = ram.size /\ mode' = "record"
        /\ UNCHANGED <<ram, meta, flash, sick, faults, why>>
    BY DEF PromoteCopied, stored
  <1>2. flash["B"] \in Rows /\ ram.size \in 0 .. NUnits
    BY DEF TypeOK, Partitions, Metas
  <1>3. RowSum(flash["A"], ram.size) = RowSum(flash["B"], ram.size)
    BY <1>1, <1>2, SameSums DEF CopiesB
  <1>4. Matches("B", ram) /\ (Recorded => SameFirmware)  BY <1>1 DEF PromotesWhole
  <1>5. Matches("A", ram)  BY <1>3, <1>4 DEF Matches
  <1>6. RecordsWhole'
    BY <1>1, <1>4, <1>5 DEF RecordsWhole, Matches, Recorded, SameFirmware
  <1>7. QED  BY <1>1, <1>6, WayTo

(* A rebuilt application is started.                                       *)
LEMMA RecordOnTheWay ==
    ASSUME CtuInv, RecordsWhole, Record
    PROVE  OnTheWay'
  <1>1. CASE why = "rebuild"
    <2>1. /\ TypeOK /\ FlashOfFiles /\ Named(ram) /\ mode = "record"
      BY DEF CtuInv, RecordsNameFiles, Record
    <2>2. /\ Normal \in Metas /\ Named(Normal)
          /\ Normal.size = ram.size /\ Normal.sum = ram.sum
      BY <2>1, RecordTypes, NormalIs DEF Named
    <2>3. Matches("A", Normal)  BY <1>1, <2>1, <2>2 DEF RecordsWhole, Matches
    <2>4. mode' = "app"  BY <1>1, <2>1, <2>2, <2>3, WholeIsOk DEF Record
    <2>5. QED  BY <2>4, WayTo
  <1>2. CASE why # "rebuild"
    <2>1. mode' = "init"  BY <1>2 DEF Record, Restart
    <2>2. QED  BY <2>1, WayTo
  <1>3. QED  BY <1>1, <1>2

LEMMA CommitOnTheWay ==
    ASSUME CtuInv, MagicKnown, WaitsUnrecorded, Fine, Fine', EndInBoot
    PROVE  OnTheWay'
  <1>1. /\ TypeOK /\ HostHasFile /\ SessionIsTheHosts
        /\ mode = "boot" /\ Sent /\ Complete /\ ram \in Metas
        /\ ram' = Committed(ram) /\ Save(ram') /\ flash' = flash
        /\ mode' = "erase" /\ why' = "commit"
    BY DEF CtuInv, TypeOK, EndInBoot, Promote
  <1>2. /\ ram'.magic = ram.magic /\ ram'.flag = 2
        /\ ram'.size = ses.offset /\ ram'.sum = ses.total
    BY <1>1, RecordTypes
  <1>3. Matches("B", ram)'
    BY <1>1, <1>2, CompleteIsTheHosts DEF Matches
  <1>4. Recorded' => meta' = ram'
    <2>1. meta' \in {ram', meta}  BY <1>1, SaveIs
    <2>2. ~Recorded  BY <1>1 DEF Recorded, MagicKnown, WaitsUnrecorded
    <2>3. QED  BY <2>1, <2>2 DEF Recorded
  <1>5. PromotesWhole'
    BY <1>1, <1>2, <1>3, <1>4 DEF PromotesWhole, SameFirmware
  <1>6. QED  BY <1>1, <1>5, WayTo

(* The other steps stay in their mode or end in a restart.                 *)
LEMMA SessionOnTheWay ==
    ASSUME TypeOK, OnTheWay, SessionNext \/ UNCHANGED vars, ~EndInBoot
    PROVE  OnTheWay'
  <1>1. CASE mode' \in {"init", "app"}  BY <1>1, WayTo
  <1>2. CASE mode' \notin {"init", "app"}
    <2>1. CASE DataAgain \/ EndRefused \/ GiveUp \/ UNCHANGED vars
      <3>1. UNCHANGED <<mode, why, copied, ram, meta, flash, sick, faults>>
        BY <2>1 DEF DataAgain, EndRefused, GiveUp, vars, node, stored
      <3>2. QED
        BY <3>1 DEF OnTheWay, WaitsUnrecorded, DropsAfterFailure, ChecksNormal,
           PromotesWhole, CopiesB, RecordsWhole, Matches, Recorded, SameFirmware
    <2>2. CASE Select \/ Start \/ Data
      <3>1. mode = "boot" /\ UNCHANGED <<mode, ram, meta>>
        BY <1>2, <2>2 DEF Select, Start, Data, Sends, Listening, stored
      <3>2. WaitsUnrecorded'  BY <3>1 DEF OnTheWay, WaitsUnrecorded
      <3>3. QED  BY <3>1, <3>2, WayTo
    <2>3. ~EnterUpgrade /\ ~EndInApp /\ ~IdleTimeout
      BY <1>2 DEF EnterUpgrade, EndInApp, IdleTimeout
    <2>4. ~Abort  BY <1>2 DEF Abort, Listening, Restart
    <2>5. CASE LearnId
      <3>1. mode = "boot" /\ UNCHANGED <<mode, ram>> /\ meta' \in {ram, meta}
        BY <2>5, SaveIs DEF LearnId, node
      <3>2. WaitsUnrecorded'  BY <3>1 DEF OnTheWay, WaitsUnrecorded
      <3>3. QED  BY <3>1, <3>2, WayTo
    <2>6. QED  BY <2>1, <2>2, <2>3, <2>4, <2>5 DEF SessionNext
  <1>3. QED  BY <1>1, <1>2

LEMMA OnTheWayKept ==
    ASSUME ~Again, CtuInv, HostInv, Fine, Fine', [Next]_vars
    PROVE  OnTheWay'
  <1>1. /\ TypeOK /\ CopyCounts /\ MagicKnown /\ Repairable /\ OnTheWay
        /\ WaitsUnrecorded /\ DropsAfterFailure /\ ChecksNormal
        /\ PromotesWhole /\ CopiesB /\ RecordsWhole
    BY DEF CtuInv, HostInv, OnTheWay
  <1>2. Repairable'  BY RepairableKept
  <1>3. CASE TryBootApp  BY <1>1, <1>2, <1>3, StartOnTheWay
  <1>4. CASE DropCommit  BY <1>1, <1>4, DropOnTheWay
  <1>5. CASE CheckApp  BY <1>1, <1>5, CheckOnTheWay
  <1>6. CASE EnterBoot  BY <1>1, <1>6, EnterOnTheWay
  <1>7. CASE PromoteErase \/ PromoteCopy  BY <1>1, <1>7, CopyOnTheWay
  <1>8. CASE PromoteCopied  BY <1>1, <1>8, CopiedOnTheWay
  <1>9. CASE Record  BY <1>1, <1>9, RecordOnTheWay
  <1>10. CASE EndInBoot  BY <1>1, <1>10, CommitOnTheWay
  <1>11. CASE (SessionNext \/ UNCHANGED vars) /\ ~EndInBoot  BY <1>1, <1>11, SessionOnTheWay
  <1>12. CASE PowerFail \/ PowerFailErase \/ PowerFailProgram \/ PowerFailSave
    <2>1. mode' = "init"
      BY <1>12 DEF PowerFail, PowerFailErase, PowerFailProgram, PowerFailSave, Restart
    <2>2. QED  BY <2>1, WayTo
  <1>13. QED
    BY <1>3, <1>4, <1>5, <1>6, <1>7, <1>8, <1>9, <1>10, <1>11, <1>12 DEF Next, BoardNext

LEMMA HostInvInit == Init => HostInv
  <1> SUFFICES ASSUME Init PROVE HostInv  OBVIOUS
  <1>1. mode = "init" /\ copied = 0  BY DEF Init
  <1>2. CopyCounts /\ MagicKnown  BY <1>1 DEF CopyCounts, MagicKnown
  <1>3. OnTheWay
    BY <1>1 DEF OnTheWay, WaitsUnrecorded, DropsAfterFailure, ChecksNormal,
       PromotesWhole, CopiesB, RecordsWhole
  <1>4. Repairable
    <2>1. CASE meta = NoMeta  BY <2>1 DEF Repairable, Recorded, NoMeta
    <2>2. CASE \E f \in Files : Installed(f)
      <3>1. PICK f \in Files : Installed(f)  BY <2>2
      <3> DEFINE row == [u \in Units |-> IF u < Len(f) THEN f[u + 1] ELSE Blank]
      <3>2. f \in Seq(Nat) /\ Len(f) \in 1 .. NUnits  BY CtuAssumption
      <3>3. flash = [p \in Partitions |-> row] /\ flash \in [Partitions -> Rows]
        BY <3>1, InitInvariant DEF Installed, CtuInv, TypeOK
      <3>4. flash["A"] = row /\ row \in Rows  BY <3>3 DEF Partitions
      <3>5. \A i \in DOMAIN f : row[i - 1] = f[i]
        <4>1. ASSUME NEW i \in DOMAIN f
              PROVE  i - 1 \in Units /\ i - 1 < Len(f) /\ (i - 1) + 1 = i
          BY <3>2, CtuAssumption DEF Units
        <4>2. QED  BY <4>1
      <3>6. meta.flag = 0 /\ meta.size = Len(f) /\ meta.sum = FileSum(f)
        BY <3>1 DEF Installed
      <3> HIDE DEF row
      <3>7. Matches("A", meta)  BY <3>2, <3>4, <3>5, <3>6, FileSums DEF Matches
      <3>8. QED  BY <3>6, <3>7 DEF Repairable
    <2>3. QED  BY <2>1, <2>2 DEF Init
  <1>5. QED  BY <1>2, <1>3, <1>4 DEF HostInv

LEMMA HostInvNext == ASSUME ~Again PROVE CtuInv /\ HostInv /\ [Next]_vars => HostInv'
  <1> SUFFICES ASSUME CtuInv, HostInv, [Next]_vars PROVE HostInv'  OBVIOUS
  <1>1. TypeOK /\ InSession /\ CopyCounts /\ MagicKnown  BY DEF CtuInv, HostInv
  <1>2. CopyCounts' /\ MagicKnown'  BY <1>1, CopyCountsKept, MagicKnownKept
  <1>3. Fine' => Repairable' /\ OnTheWay'
    BY <1>1, FineBefore, RepairableKept, OnTheWayKept
  <1>4. QED  BY <1>2, <1>3 DEF HostInv

(* An interrupted promotion is repaired without the host                   *)
(* (boot_485_ymodem.md:65): a board with a recorded firmware does not wait *)
(* in its bootloader, whatever was cut off and at most one operation of    *)
(* the flash failing.  The condition on Again is that of DownloadsAreSafe. *)
THEOREM RepairsItself == ASSUME ~Again PROVE Spec => []HostNotNeeded
  <1>1. Init => HostInv  BY HostInvInit
  <1>2. CtuInv /\ HostInv /\ [Next]_vars => HostInv'  BY HostInvNext
  <1>3. HostInv => HostNotNeeded
    BY DEF HostInv, Fine, OnTheWay, WaitsUnrecorded, HostNotNeeded
  <1>4. Spec => []HostInv  BY <1>1, <1>2, CtuInvariant, PTL DEF Spec
  <1>5. QED  BY <1>3, <1>4, PTL
=============================================================================
