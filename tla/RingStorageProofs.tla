------------------------- MODULE RingStorageProofs -------------------------
(***************************************************************************)
(* Theorems about RingStorage for every geometry, every set of values and  *)
(* every bound.  Part 1: types.  Part 2: the newest committed frame is     *)
(* always found again, for any number of sectors, of frames to a sector,   *)
(* of values and of power failures, on strict and on reprogrammable flash, *)
(* while the driver itself reports no fault and the area is not wiped.     *)
(* Part 3: a save that has returned OK is what a restart finds, with any   *)
(* faults of the driver too, and with wipes as long as the session is      *)
(* sound; a firmware that never wipes has only sound sessions.  Part 4:    *)
(* under the conditions of Part 2 the store implements DurableValue: what  *)
(* a scan of the flash would find is the stored value.                     *)
(***************************************************************************)
EXTENDS RingStorage, TLAPS, WellFoundedInduction

-----------------------------------------------------------------------------
(* Part 1: types.                                                          *)

(* The slot a save is writing exists: the type invariant needs it.         *)
Typing == TypeOK /\ (pc = "write" => offset \in Slots)

LEMMA CellTypes ==
    /\ Erased \in Cells
    /\ \A v \in Nat : Frag(v) \in Cells
  BY DEF Erased, Frag, Cells, Stages

LEMMA ProgrammedType ==
    ASSUME NEW c \in Cells, NEW f \in Cells, NEW u \in Units
    PROVE  Programmed(c, f, u) \in Cells
  BY DEF Programmed, Cells, Stages, Units

LEMMA SpoiledType ==
    ASSUME NEW c \in Cells, NEW u \in Units
    PROVE  Spoiled(c, u) \in Cells
  BY CellTypes DEF Spoiled, Cells, Stages, Committed

LEMMA InterruptedType ==
    ASSUME NEW c \in Cells, NEW f \in Cells, NEW u \in Units,
           NEW d \in Interrupted(c, f, u)
    PROVE  d \in Cells
  <1>1. f.ver \in Nat
    BY DEF Cells
  <1> QED
    BY <1>1, CellTypes, ProgrammedType, SpoiledType DEF Interrupted

LEMMA HalfErasedType ==
    ASSUME NEW c \in Cells, NEW how \in {"kept", "erased", "frag", "bad"}
    PROVE  HalfErased(c, how) \in Cells
  BY CellTypes DEF HalfErased, Cells, Stages

LEMMA EraseType ==
    ASSUME NEW fl \in [Places -> Cells], NEW s
    PROVE  EraseOf(fl, s) \in [Places -> Cells]
  BY CellTypes DEF EraseOf

(* What an erase that ends early may leave behind: no new frame, and none   *)
(* that it has not kept as it was but for its data.                         *)
LEMMA CutEraseFacts ==
    ASSUME NEW fl \in [Places -> Cells], NEW S, NEW gl \in CutErases(fl, S)
    PROVE  /\ gl \in [Places -> Cells]
           /\ \A p \in Places : p[1] \notin S => gl[p] = fl[p]
           /\ \A p \in Places : Committed(gl[p]) =>
                /\ Committed(fl[p])
                /\ gl[p].ver = fl[p].ver /\ gl[p].val = fl[p].val
  <1>1. PICK how \in [Slots -> {"kept", "erased", "frag", "bad"}] :
            gl = [p \in Places |->
                IF p[1] \in S THEN HalfErased(fl[p], how[p[2]]) ELSE fl[p]]
    BY DEF CutErases
  <1>2. ASSUME NEW p \in Places
        PROVE  how[p[2]] \in {"kept", "erased", "frag", "bad"}
    BY DEF Places
  <1>3. ASSUME NEW p \in Places
        PROVE  HalfErased(fl[p], how[p[2]]) \in Cells
    BY <1>2, HalfErasedType
  <1>4. ASSUME NEW c \in Cells, NEW h \in {"kept", "erased", "frag", "bad"},
               Committed(HalfErased(c, h))
        PROVE  /\ Committed(c)
               /\ HalfErased(c, h).ver = c.ver /\ HalfErased(c, h).val = c.val
    BY <1>4 DEF HalfErased, Committed, Erased, Frag, Cells
  <1>5. ASSUME NEW p \in Places, Committed(gl[p])
        PROVE  /\ Committed(fl[p])
               /\ gl[p].ver = fl[p].ver /\ gl[p].val = fl[p].val
    <2>1. CASE p[1] \in S
      <3>1. gl[p] = HalfErased(fl[p], how[p[2]]) /\ fl[p] \in Cells
        BY <1>1, <2>1
      <3>2. PICK c \in Cells, h \in {"kept", "erased", "frag", "bad"} :
              c = fl[p] /\ h = how[p[2]]
        BY <1>2, <3>1
      <3>3. Committed(HalfErased(c, h))
        BY <1>5, <3>1, <3>2
      <3> QED BY <1>4, <3>1, <3>2, <3>3
    <2>2. CASE p[1] \notin S
      BY <1>1, <1>5, <2>2
    <2> QED BY <2>1, <2>2
  <1> QED BY <1>1, <1>3, <1>5

LEMMA TargetType == active \in Sectors => Target \in Sectors
  BY GeometryAssumption DEF Target, Sectors

LEMMA NewFrameType == TypeOK /\ kv \in Values \cup {NoValue} => NewFrame \in Cells
  BY DEF NewFrame, TypeOK, Cells, Stages

LEMMA TornFlashType ==
    ASSUME TypeOK, TornWrite \/ TornCopy \/ TornErase \/ NothingTorn
    PROVE  flash' \in [Places -> Cells]
  <1>1. CASE TornWrite
    <2>1. PICK c \in Interrupted(flash[<<active, offset>>], NewFrame, unit) :
            flash' = [flash EXCEPT ![<<active, offset>>] = c]
      BY <1>1, Zenon DEF TornWrite
    <2>2. NewFrame \in Cells /\ unit \in Units
      BY NewFrameType DEF TypeOK
    <2>3. CASE <<active, offset>> \in Places
      <3>1. flash[<<active, offset>>] \in Cells
        BY <2>3 DEF TypeOK
      <3>2. c \in Cells
        BY <2>1, <2>2, <3>1, InterruptedType
      <3> QED
        BY <2>1, <2>3, <3>2 DEF TypeOK
    <2>4. CASE <<active, offset>> \notin Places
      BY <2>1, <2>4 DEF TypeOK
    <2> QED
      BY <2>3, <2>4
  <1>2. CASE TornCopy
    <2>1. PICK c \in Interrupted(flash[<<Target, 1>>], flash[latest], unit) :
            flash' = [flash EXCEPT ![<<Target, 1>>] = c]
      BY <1>2, Zenon DEF TornCopy
    <2>2. latest \in Places
      BY <1>2 DEF TornCopy, Copying, NothingToCopy, TypeOK
    <2>3. <<Target, 1>> \in Places
      BY TargetType, GeometryAssumption DEF TypeOK, Places, Slots
    <2>4. flash[latest] \in Cells /\ flash[<<Target, 1>>] \in Cells /\ unit \in Units
      BY <2>2, <2>3 DEF TypeOK
    <2>5. c \in Cells
      BY <2>1, <2>4, InterruptedType
    <2> QED
      BY <2>1, <2>5 DEF TypeOK
  <1>3. CASE TornErase
    BY <1>3, CutEraseFacts DEF TornErase, TypeOK
  <1>4. CASE NothingTorn
    BY <1>4 DEF NothingTorn, TypeOK
  <1> QED
    BY <1>1, <1>2, <1>3, <1>4

LEMMA ReachedType ==
    ASSUME NEW fl
    PROVE  Reached(fl) \in BOOLEAN
  BY Zenon DEF Reached

LEMMA TypingInit == Init => Typing
  BY CellTypes, GeometryAssumption DEF Init, Typing, TypeOK, Units, Sectors, Slots

LEMMA TypingStep == Typing /\ [Next]_vars => Typing'
  <1> SUFFICES ASSUME Typing, [Next]_vars
               PROVE  Typing'
    OBVIOUS
  <1> USE DEF Typing
  <1>t. TypeOK
    OBVIOUS
  <1>0. CASE UNCHANGED vars
    BY <1>0 DEF TypeOK, vars
  <1>1. CASE BootFound
    <2>1. PICK p \in Places : /\ latest' = p
                              /\ latestVer' = flash[p].ver
                              /\ active' = p[1]
                              /\ offset' = SlotAfter(p)
      BY <1>1 DEF BootFound
    <2>2. flash[p].ver \in Nat
      BY DEF TypeOK, Cells
    <2>3. p[1] \in Sectors /\ p[2] \in Slots
      BY DEF Places
    <2>4. p[2] + 1 \in 1 .. NSlots + 1
      BY <2>3, GeometryAssumption DEF Slots
    <2>5. sound' \in BOOLEAN
      BY <1>1, ReachedType, Zenon DEF BootFound
    <2> QED
      BY <1>1, <2>1, <2>2, <2>3, <2>4, <2>5 DEF BootFound, TypeOK, SlotAfter
  <1>2. CASE BootFirstUse
    <2>1. sound' \in BOOLEAN
      BY <1>2, ReachedType, Zenon DEF BootFirstUse
    <2> QED
      BY <1>2, <2>1 DEF BootFirstUse, TypeOK, ram
  <1>3. CASE InitErase
    BY <1>3, EraseType, CutEraseFacts DEF InitErase, TypeOK, ram
  <1>4. ASSUME NEW v \in Values, Save(v)
        PROVE  Typing'
    BY <1>4, GeometryAssumption DEF Save, TypeOK, Units, Slots
  <1>5. CASE RefusedCall
    BY <1>5 DEF RefusedCall, TypeOK, ram
  <1>6. CASE GcErase
    BY <1>6, EraseType, CutEraseFacts DEF GcErase, TypeOK, ram
  <1>7. CASE GcNoCopy
    <2>1. <<Target, 1>> \in Places /\ Target \in Sectors
      BY TargetType, GeometryAssumption DEF TypeOK, Places, Slots
    <2> QED
      BY <1>7, <2>1, GeometryAssumption DEF GcNoCopy, GcSwitch, TypeOK, Slots
  <1>8. CASE GcCopyUnit
    <2> DEFINE p == <<Target, 1>>
               f == flash[latest]
    <2>1. p \in Places /\ Target \in Sectors
      BY TargetType, GeometryAssumption DEF TypeOK, Places, Slots
    <2>2. f \in Cells /\ flash[p] \in Cells /\ unit \in Units
      BY <1>8, <2>1 DEF GcCopyUnit, NothingToCopy, TypeOK
    <2>3. Programmed(flash[p], f, unit) \in Cells /\ Spoiled(flash[p], unit) \in Cells
      BY <2>2, ProgrammedType, SpoiledType
    <2>4. \A c \in Interrupted(flash[p], f, unit) : c \in Cells
      BY <2>2, InterruptedType
    <2>5. NextUnit[unit] \in Units
      BY <2>2 DEF NextUnit, Units
    <2>6. 2 \in 1 .. NSlots + 1 /\ (~(2 > NSlots) => 2 \in Slots)
      BY GeometryAssumption DEF Slots
    <2>7. flash' \in [Places -> Cells]
      BY <1>8, <2>1, <2>3, <2>4 DEF GcCopyUnit, TypeOK
    <2> HIDE DEF p, f
    <2>8. /\ unit' \in Units
          /\ latest' \in Places \cup {NoFrame}
          /\ active' \in Sectors
          /\ offset' \in 1 .. NSlots + 1
          /\ pc' \in {"gcCopy", "idle", "write"}
          /\ pc' = "write" => offset' \in Slots
          /\ ret' \in {ret, "BUFFER_TOO_SMALL", "GC_FAILED"}
          /\ faults' \in Nat
      BY <1>8, <2>1, <2>2, <2>5, <2>6 DEF GcCopyUnit, GcSwitch, TypeOK, p
    <2>9. UNCHANGED <<latestVer, kv, wipePos, sound>>
      BY <1>8 DEF GcCopyUnit
    <2> QED
      BY <2>7, <2>8, <2>9 DEF TypeOK
  <1>9. CASE WriteUnit
    <2> DEFINE p == <<active, offset>>
    <2>1. p \in Places
      BY <1>9 DEF WriteUnit, TypeOK, Places
    <2>2. NewFrame \in Cells /\ flash[p] \in Cells /\ unit \in Units
      BY <2>1, NewFrameType DEF TypeOK
    <2>3. Programmed(flash[p], NewFrame, unit) \in Cells /\ Spoiled(flash[p], unit) \in Cells
      BY <2>2, ProgrammedType, SpoiledType
    <2>4. \A c \in Interrupted(flash[p], NewFrame, unit) : c \in Cells
      BY <2>2, InterruptedType
    <2>5. NextUnit[unit] \in Units
      BY <2>2 DEF NextUnit, Units
    <2>6. flash' \in [Places -> Cells]
      BY <1>9, <2>1, <2>3, <2>4 DEF WriteUnit, TypeOK
    <2> HIDE DEF p
    <2>7. offset \in Slots /\ offset + 1 \in 1 .. NSlots + 1
      BY <1>9, GeometryAssumption DEF WriteUnit, Slots
    <2>8. /\ unit' \in Units
          /\ latest' \in Places \cup {NoFrame}
          /\ latestVer' \in Nat
          /\ offset' \in 1 .. NSlots + 1
          /\ pc' \in {"idle", "write"}
          /\ pc' = "write" => offset' \in Slots
          /\ ret' \in {ret, "SAVED", "FLASH_WRITE"}
          /\ faults' \in Nat
      BY <1>9, <2>1, <2>2, <2>5, <2>7 DEF WriteUnit, TypeOK, p
    <2>9. UNCHANGED <<active, kv, wipePos, sound>>
      BY <1>9 DEF WriteUnit
    <2> QED
      BY <2>6, <2>8, <2>9 DEF TypeOK
  <1>10. CASE Load
    <2>1. LoadResult = "LOADED" => flash[latest].val \in Values \cup {NoValue}
      BY DEF LoadResult, TypeOK, Cells
    <2>2. LoadResult \in {"NO_VALID_FRAME", "LOADED", "CRC"}
      BY DEF LoadResult
    <2> QED
      BY <1>10, <2>1, <2>2 DEF Load, TypeOK
  <1>11. CASE WipeStart
    BY <1>11, GeometryAssumption DEF WipeStart, TypeOK, Sectors
  <1>12. CASE WipeSector
    <2>1. wipePos # NSectors - 1 => wipePos + 1 \in Sectors
      BY GeometryAssumption DEF TypeOK, Sectors
    <2>2. 0 \in Sectors /\ 1 \in 1 .. NSlots + 1
      BY GeometryAssumption DEF Sectors
    <2>3. flash' \in [Places -> Cells]
      BY <1>12, EraseType, CutEraseFacts DEF WipeSector, TypeOK
    <2>4. sound' \in BOOLEAN /\ wipePos' \in Sectors
      BY <1>12, <2>1, <2>2 DEF WipeSector, TypeOK
    <2> QED
      BY <1>12, <2>2, <2>3, <2>4 DEF WipeSector, TypeOK
  <1>13. CASE PowerFail
    <2>1. flash' \in [Places -> Cells]
      BY <1>13, TornFlashType DEF PowerFail
    <2> QED
      BY <1>13, <2>1, GeometryAssumption DEF PowerFail, RamCleared, TypeOK, Units, Sectors
  <1> QED
    BY <1>0, <1>1, <1>2, <1>3, <1>4, <1>5, <1>6, <1>7, <1>8, <1>9, <1>10, <1>11, <1>12, <1>13
    DEF Next

(* Every variable keeps its type, in every geometry, with any number of    *)
(* power failures, driver faults and wipes (ring_storage.c).               *)
THEOREM TypeInvariant == Spec => []TypeOK
  <1>1. Typing => TypeOK
    BY DEF Typing
  <1> QED
    BY <1>1, TypingInit, TypingStep, PTL DEF Spec

-----------------------------------------------------------------------------
(* Part 2: durability.                                                     *)

(* Two frames to a sector: what srv_log_flash.c asserts at compile time and *)
(* garbage collection needs to make room.                                   *)
Conditions == NSlots >= 2 /\ MaxFaults = 0 /\ AllowWipe = FALSE

LEMMA PlaceFacts ==
    /\ \A p \in Places : p = <<p[1], p[2]>> /\ p[1] \in Sectors /\ p[2] \in Slots
    /\ \A s \in Sectors, k \in Slots : <<s, k>> \in Places
                                       /\ <<s, k>>[1] = s /\ <<s, k>>[2] = k
  BY DEF Places

LEMMA FirstSlot == 1 \in Slots
  BY GeometryAssumption DEF Slots

(* A sector head holding a frame is always found. *)
LEMMA HeadVisible ==
    ASSUME NEW fl, NEW p \in Places, p[2] = 1, Committed(fl[p])
    PROVE  p \in Visible(fl)
  BY PlaceFacts DEF Visible

LEMMA ScanOrder ==
    ASSUME NEW p \in Places, NEW q \in Places
    PROVE  /\ ~(ScannedBefore(p, q) /\ ScannedBefore(q, p))
           /\ p = q \/ ScannedBefore(p, q) \/ ScannedBefore(q, p)
           /\ \A r \in Places : ScannedBefore(p, q) /\ ScannedBefore(q, r)
                                 => ScannedBefore(p, r)
  BY PlaceFacts DEF ScannedBefore, Sectors, Slots

(* Programming one slot, without erasing anything, hides no frame. *)
LEMMA WriteCell ==
    ASSUME NEW fl \in [Places -> Cells], NEW w \in Places, NEW c, NEW gl,
           gl = [fl EXCEPT ![w] = c],
           c.st = "erased" => fl[w].st = "erased"
    PROVE  /\ gl[w] = c
           /\ \A p \in Places : p # w => gl[p] = fl[p]
           /\ \A p \in Places : p # w /\ p \in Visible(fl) => p \in Visible(gl)
           /\ w \in Visible(fl) /\ Committed(c) => w \in Visible(gl)
  <1>1. gl[w] = c /\ \A p \in Places : p # w => gl[p] = fl[p]
    OBVIOUS
  <1>2. \A p \in Places : fl[p].st # "erased" => gl[p].st # "erased"
    BY <1>1
  <1>3. ASSUME NEW p \in Places, p \in Visible(fl), Committed(gl[p])
        PROVE  p \in Visible(gl)
    <2>1. ASSUME NEW k \in 1 .. p[2] - 1
          PROVE  gl[<<p[1], k>>].st # "erased"
      <3>1. <<p[1], k>> \in Places
        <4>1. p[1] \in Sectors /\ p[2] \in 1 .. NSlots
          BY PlaceFacts DEF Slots
        <4>2. k \in Slots
          BY <4>1, GeometryAssumption DEF Slots
        <4> QED
          BY <4>1, <4>2, PlaceFacts
      <3> QED
        BY <1>2, <1>3, <3>1 DEF Visible
    <2> QED
      BY <1>3, <2>1 DEF Visible
  <1>4. ASSUME NEW p \in Places, p # w, p \in Visible(fl)
        PROVE  p \in Visible(gl)
    BY <1>1, <1>3, <1>4 DEF Visible
  <1>5. w \in Visible(fl) /\ Committed(c) => w \in Visible(gl)
    BY <1>1, <1>3
  <1> QED
    BY <1>1, <1>4, <1>5

(* Writing something else than a frame disturbs no frame elsewhere. *)
LEMMA NoFrameWritten ==
    ASSUME NEW fl \in [Places -> Cells], NEW w \in Places, NEW c, NEW gl,
           gl = [fl EXCEPT ![w] = c],
           c.st = "erased" => fl[w].st = "erased",
           Committed(c) => c = fl[w]
    PROVE  /\ \A p \in Places : Committed(gl[p]) => gl[p] = fl[p]
           /\ NoneCommitted(fl) => NoneCommitted(gl)
           /\ CopiesOnly(fl) => CopiesOnly(gl)
           /\ \A L \in Places : L # w /\ Newest(fl, L) => Newest(gl, L)
  <1>1. \A p \in Places : Committed(gl[p]) => gl[p] = fl[p]
    BY WriteCell
  <1>2. NoneCommitted(fl) => NoneCommitted(gl)
    BY <1>1 DEF NoneCommitted
  <1>3. CopiesOnly(fl) => CopiesOnly(gl)
    BY <1>1 DEF CopiesOnly
  <1>4. ASSUME NEW L \in Places, L # w, Newest(fl, L)
        PROVE  Newest(gl, L)
    <2>1. gl[L] = fl[L] /\ L \in Visible(gl) /\ gl[L].st = "full"
      BY <1>4, WriteCell DEF Newest
    <2>2. \A p \in Places : Committed(gl[p]) /\ p \in Visible(fl) => p \in Visible(gl)
      BY <1>1, WriteCell
    <2>3. ASSUME NEW p \in Places, p # L, Committed(gl[p])
          PROVE  /\ gl[p].ver <= gl[L].ver
                 /\ p \notin Visible(gl) => gl[p].ver < gl[L].ver
                 /\ gl[p].st = "bad" => gl[p].ver < gl[L].ver \/ ScannedBefore(L, p)
      BY <1>1, <1>4, <2>1, <2>2, <2>3 DEF Newest
    <2> QED
      BY <2>1, <2>3, Zenon DEF Newest
  <1> QED
    BY <1>1, <1>2, <1>3, <1>4

(* A complete frame that outranks all others, in a place a scan reaches. *)
LEMMA FrameWritten ==
    ASSUME NEW gl \in [Places -> Cells], NEW w \in Places,
           gl[w].st = "full",
           w \in Visible(gl),
           \A p \in Places : p # w /\ Committed(gl[p]) =>
                /\ gl[p].ver <= gl[w].ver
                /\ gl[p].ver = gl[w].ver => gl[p].st = "full" /\ p \in Visible(gl)
    PROVE  Newest(gl, w)
  <1>1. ASSUME NEW p \in Places, p # w, Committed(gl[p])
        PROVE  /\ gl[p].ver <= gl[w].ver
               /\ p \notin Visible(gl) => gl[p].ver < gl[w].ver
               /\ gl[p].st = "bad" => gl[p].ver < gl[w].ver \/ ScannedBefore(w, p)
    <2>1. gl[p].ver \in Nat /\ gl[w].ver \in Nat
      BY DEF Cells
    <2> QED
      BY <1>1, <2>1
  <1> QED
    BY <1>1, Zenon DEF Newest

(* Of the frames a scan may settle on, each is the newest. *)
LEMMA LatestIsNewest ==
    ASSUME NEW fl \in [Places -> Cells], NEW L \in Places, Newest(fl, L),
           NEW p \in Places, IsLatest(fl, p)
    PROVE  Newest(fl, p)
  <1>1. CASE p = L
    BY <1>1
  <1>2. CASE p # L
    <2>1. fl[p] \in Cells /\ fl[L] \in Cells /\ fl[p].ver \in Nat /\ fl[L].ver \in Nat
      BY DEF Cells
    <2>2. p \in Visible(fl) /\ L \in Visible(fl) /\ Committed(fl[p])
      BY DEF IsLatest, Newest, Visible
    <2>3. fl[p].ver = fl[L].ver /\ ScannedBefore(p, L)
      BY <1>2, <2>1, <2>2 DEF IsLatest, Newest
    <2>4. fl[p].st = "full"
      BY <1>2, <2>1, <2>2, <2>3, ScanOrder DEF Newest, Committed
    <2>5. ASSUME NEW q \in Places, q # p, Committed(fl[q])
          PROVE  /\ fl[q].ver <= fl[p].ver
                 /\ q \notin Visible(fl) => fl[q].ver < fl[p].ver
                 /\ fl[q].st = "bad" => fl[q].ver < fl[p].ver \/ ScannedBefore(p, q)
      <3>1. CASE q = L
        BY <2>1, <2>2, <2>3, <3>1
      <3>2. CASE q # L
        BY <2>3, <2>5, <3>2, ScanOrder DEF Newest
      <3> QED
        BY <3>1, <3>2
    <2> QED
      BY <2>2, <2>4, <2>5, Zenon DEF Newest
  <1> QED
    BY <1>1, <1>2

(* What an interrupted program operation can commit. *)
LEMMA InterruptedCommit ==
    ASSUME NEW d \in Cells, NEW f \in Cells, NEW u \in Units,
           NEW c \in Interrupted(d, f, u),
           f.st = "full", Committed(d) => u = "head" /\ d.ver # f.ver
    PROVE  /\ c.st = "erased" => d.st = "erased"
           /\ Committed(c) => \/ c = d
                              \/ u = "commit" /\ d.st = "body" /\ c = [d EXCEPT !.st = f.st]
  <1> USE DEF Cells, Committed, Stages, Units
  <1>1. CASE c = d
    BY <1>1
  <1>2. ASSUME Accepts(d, f, u), c = Programmed(d, f, u)
        PROVE  /\ c.st = "erased" => d.st = "erased"
               /\ Committed(c) => \/ c = d
                                  \/ u = "commit" /\ d.st = "body" /\ c = [d EXCEPT !.st = f.st]
    <2>1. CASE u = "head"
      BY <1>2, <2>1 DEF Accepts, Programmed
    <2>2. CASE u = "body"
      BY <1>2, <2>2 DEF Accepts, Programmed
    <2>3. CASE u = "commit"
      BY <1>2, <2>3 DEF Accepts, Programmed
    <2> QED
      BY <2>1, <2>2, <2>3
  <1>3. CASE c = Spoiled(d, u)
    BY <1>3 DEF Spoiled, Frag, Erased
  <1>4. CASE c = Frag(f.ver) /\ d.st = "erased"
    BY <1>4 DEF Frag, Erased
  <1> QED
    BY <1>1, <1>2, <1>3, <1>4 DEF Interrupted

(* Erasing, wholly or in part, a sector that holds no frame as new as L.    *)
LEMMA SectorErased ==
    ASSUME NEW fl \in [Places -> Cells], NEW gl, NEW s \in Sectors,
           \A p \in Places : p[1] # s => gl[p] = fl[p],
           \A p \in Places : Committed(gl[p]) =>
                Committed(fl[p]) /\ gl[p].ver = fl[p].ver,
           NEW L \in Places, L[1] # s, Newest(fl, L),
           \A p \in Places : p[1] = s /\ Committed(fl[p]) /\ fl[p].ver = fl[L].ver =>
                p = <<s, 1>> /\ ScannedBefore(L, p)
    PROVE  Newest(gl, L)
  <1>1. gl[L] = fl[L]
    OBVIOUS
  <1>2. \A p \in Places : p[1] # s => (p \in Visible(fl) <=> p \in Visible(gl))
    <2>1. SUFFICES ASSUME NEW p \in Places, p[1] # s
                   PROVE  p \in Visible(fl) <=> p \in Visible(gl)
      OBVIOUS
    <2>2. \A k \in 1 .. p[2] - 1 : gl[<<p[1], k>>] = fl[<<p[1], k>>]
      <3>1. SUFFICES ASSUME NEW k \in 1 .. p[2] - 1
                     PROVE  gl[<<p[1], k>>] = fl[<<p[1], k>>]
        OBVIOUS
      <3>2. p[1] \in Sectors /\ p[2] \in 1 .. NSlots
        BY PlaceFacts DEF Slots
      <3>3. k \in Slots
        BY <3>2, GeometryAssumption DEF Slots
      <3> QED
        BY <2>1, <3>2, <3>3, PlaceFacts
    <2>3. gl[p] = fl[p]
      BY <2>1
    <2> QED
      BY <2>2, <2>3 DEF Visible
  <1>3. L \in Visible(gl) /\ gl[L].st = "full"
    BY <1>1, <1>2 DEF Newest
  <1>4. ASSUME NEW p \in Places, p # L, Committed(gl[p])
        PROVE  /\ gl[p].ver <= gl[L].ver
               /\ p \notin Visible(gl) => gl[p].ver < gl[L].ver
               /\ gl[p].st = "bad" => gl[p].ver < gl[L].ver \/ ScannedBefore(L, p)
    <2>1. CASE p[1] # s
      BY <1>1, <1>2, <1>4, <2>1 DEF Newest
    <2>2. CASE p[1] = s
      <3>1. Committed(fl[p]) /\ gl[p].ver = fl[p].ver
        BY <1>4
      <3>2. fl[p].ver <= fl[L].ver /\ fl[p].ver \in Nat /\ fl[L].ver \in Nat
        BY <1>4, <3>1 DEF Newest, Cells
      <3>3. CASE fl[p].ver < fl[L].ver
        BY <1>1, <3>1, <3>2, <3>3
      <3>4. CASE fl[p].ver = fl[L].ver
        <4>1. p = <<s, 1>> /\ ScannedBefore(L, p)
          BY <2>2, <3>1, <3>4
        <4>2. p \in Visible(gl)
          BY <1>4, <4>1, PlaceFacts, HeadVisible
        <4> QED
          BY <1>1, <3>1, <3>2, <3>4, <4>1, <4>2
      <3> QED
        BY <3>2, <3>3, <3>4
    <2> QED
      BY <2>1, <2>2
  <1> QED
    BY <1>3, <1>4, Zenon DEF Newest

LEMMA FewerFrames ==
    ASSUME NEW fl, NEW gl,
           \A p \in Places : Committed(gl[p]) =>
                Committed(fl[p]) /\ gl[p].ver = fl[p].ver
    PROVE  /\ NoneCommitted(fl) => NoneCommitted(gl)
           /\ CopiesOnly(fl) => CopiesOnly(gl)
  BY DEF NoneCommitted, CopiesOnly

LEMMA NoneVisible ==
    ASSUME NEW fl
    PROVE  /\ NoneCommitted(fl) => Visible(fl) = {}
           /\ \A L : Newest(fl, L) => Visible(fl) # {}
  BY DEF NoneCommitted, Visible, Newest
-----------------------------------------------------------------------------
(* The invariant is kept by every action.                                   *)

LEMMA OffSettled == LogInv => Settled(flash)
  BY DEF LogInv

LEMMA Versions ==
    ASSUME Typing, LogInv, Running
    PROVE  \A p \in Places : Committed(flash[p]) => flash[p].ver <= latestVer
  <1>1. CASE Unused
    BY <1>1 DEF Unused, NoneCommitted
  <1>2. CASE InUse
    BY <1>2 DEF InUse, Newest, Typing, TypeOK, Cells
  <1> QED
    BY <1>1, <1>2 DEF LogInv

LEMMA LogInvInit == Init => LogInv
  BY GeometryAssumption
  DEF Init, LogInv, Settled, CopiesOnly, NoneCommitted, Cleared, Running, Committed, Erased

LEMMA BootFoundStep ==
    ASSUME Conditions, Typing, LogInv, BootFound
    PROVE  LogInv'
  <1>1. PICK p \in Places : /\ IsLatest(flash, p)
                            /\ latest' = p /\ latestVer' = flash[p].ver
                            /\ active' = p[1] /\ offset' = SlotAfter(p)
    BY DEF BootFound
  <1>2. pc = "off" /\ pc' = "idle" /\ flash' = flash
    BY DEF BootFound
  <1>3. flash \in [Places -> Cells]
    BY DEF Typing, TypeOK
  <1>4. PICK L \in Places : Newest(flash, L)
    BY <1>1, <1>2, NoneVisible DEF LogInv, Settled, IsLatest
  <1>5. Newest(flash, p)
    BY <1>1, <1>3, <1>4, LatestIsNewest
  <1>6. TargetOutranked'
    <2>1. SUFFICES ASSUME p[2] + 1 > NSlots,
                          NEW q \in Places, q # p, Committed(flash[q]), flash[q].ver = flash[p].ver
                   PROVE  q = <<(p[1] + 1) % NSectors, 1>> /\ ScannedBefore(p, q)
      BY <1>1, <1>2, Zenon DEF TargetOutranked, Target, SlotAfter
    <2>2. p[2] # 1
      BY <2>1, PlaceFacts, GeometryAssumption DEF Conditions, Slots
    <2>3. Committed(flash[p])
      BY <1>5 DEF Newest, Visible
    <2>4. q = NextHead(p) \/ p = NextHead(q)
      BY <2>1, <2>3 DEF LogInv, Settled, CopiesOnly
    <2>5. q = NextHead(p) /\ q[2] = 1
      BY <2>2, <2>4 DEF NextHead
    <2>6. q \in Visible(flash)
      BY <2>1, <2>5, HeadVisible
    <2>7. ScannedBefore(p, q)
      <3>1. flash[q].ver \in Nat /\ flash[p].ver \in Nat
        BY <1>3 DEF Cells
      <3> QED
        BY <1>1, <2>1, <2>6, <3>1 DEF IsLatest
    <2> QED
      BY <2>5, <2>7 DEF NextHead
  <1>7. InUse'
    BY <1>1, <1>2, <1>5, <1>6 DEF InUse, SlotAfter
  <1> QED
    BY <1>2, <1>7 DEF LogInv, Running

LEMMA BootFirstUseStep ==
    ASSUME Conditions, Typing, LogInv, BootFirstUse
    PROVE  LogInv'
  <1>1. NoneCommitted(flash)
    BY NoneVisible DEF LogInv, Settled, BootFirstUse
  <1>2. Cleared /\ Cleared'
    BY DEF LogInv, BootFirstUse, Cleared, ram
  <1>3. pc' \in {"idle", "initErase"} /\ flash' = flash
    BY DEF BootFirstUse
  <1>4. NoneCommitted(flash') /\ Settled(flash')
    BY <1>1, <1>3 DEF LogInv
  <1> QED
    BY <1>2, <1>3, <1>4 DEF LogInv, Unused, Running

LEMMA InitEraseStep ==
    ASSUME Conditions, Typing, LogInv, InitErase
    PROVE  LogInv'
  <1>1. flash' = EraseOf(flash, 0) /\ pc = "initErase" /\ pc' = "idle"
    BY DEF InitErase, Conditions, Typing, TypeOK
  <1>2. NoneCommitted(flash) /\ Cleared /\ Cleared'
    BY <1>1 DEF LogInv, InitErase, Cleared, ram
  <1>3. NoneCommitted(flash')
    BY <1>1, <1>2 DEF NoneCommitted, EraseOf, Committed, Erased
  <1>4. Settled(flash')
    BY <1>3 DEF Settled, NoneCommitted, CopiesOnly
  <1> QED
    BY <1>1, <1>2, <1>3, <1>4 DEF LogInv, Unused, Running

LEMMA SaveStep ==
    ASSUME Conditions, Typing, LogInv, NEW v \in Values, Save(v)
    PROVE  LogInv'
  <1>1. /\ pc = "idle" /\ flash' = flash /\ latest' = latest /\ latestVer' = latestVer
        /\ active' = active /\ offset' = offset /\ unit' = "head"
        /\ pc' = IF offset > NSlots THEN "gc" ELSE "write"
    BY DEF Save
  <1>2. Unused \/ InUse
    BY <1>1 DEF LogInv, Running
  <1>3. InUse => InUse'
    BY <1>1 DEF InUse, TargetOutranked, Target
  <1>4. offset \in 1 .. NSlots + 1
    BY DEF Typing, TypeOK
  <1>5. Unused => Unused' /\ offset <= NSlots
    BY <1>1, GeometryAssumption DEF Unused, Cleared
  <1>6. Settled(flash')
    BY <1>1 DEF LogInv
  <1>7. CASE offset > NSlots
    BY <1>1, <1>2, <1>3, <1>4, <1>5, <1>6, <1>7, GeometryAssumption DEF LogInv, Running
  <1>8. CASE offset <= NSlots
    <2>1. WriteProgress'
      BY <1>1, <1>4, <1>8, GeometryAssumption DEF WriteProgress, Slots
    <2> QED
      BY <1>1, <1>2, <1>3, <1>4, <1>5, <1>6, <1>8, <2>1, GeometryAssumption DEF LogInv, Running
  <1> QED
    BY <1>4, <1>7, <1>8, GeometryAssumption

LEMMA LoadStep ==
    ASSUME Conditions, Typing, LogInv, Load
    PROVE  LogInv'
  <1>1. /\ pc = "idle" /\ pc' = "idle" /\ flash' = flash /\ latest' = latest
        /\ latestVer' = latestVer /\ active' = active /\ offset' = offset
    BY DEF Load
  <1>2. (Unused => Unused') /\ (InUse => InUse')
    BY <1>1 DEF Unused, Cleared, InUse, TargetOutranked, Target
  <1> QED
    BY <1>1, <1>2 DEF LogInv, Running

(* The collection target is never the sector of the latest frame. *)
LEMMA TargetElsewhere ==
    active \in Sectors => Target \in Sectors /\ Target # active
  BY GeometryAssumption DEF Target, Sectors

LEMMA InUseFacts ==
    ASSUME Typing, InUse
    PROVE  /\ latest \in Places /\ latest # NoFrame /\ flash[latest] \in Cells
           /\ flash[latest].st = "full" /\ flash[latest].ver = latestVer
           /\ active = latest[1] /\ ~NothingToCopy
  BY FrameAssumption
  DEF InUse, Newest, Typing, TypeOK, NothingToCopy, Places, Sectors, Slots

(* Emptying the collection target, wholly or in part. *)
LEMMA TargetErased ==
    ASSUME Typing, InUse, offset > NSlots, NEW gl,
           \A p \in Places : p[1] # Target => gl[p] = flash[p],
           \A p \in Places : Committed(gl[p]) =>
                Committed(flash[p]) /\ gl[p].ver = flash[p].ver
    PROVE  Newest(gl, latest) /\ gl[latest] = flash[latest]
  <1>1. Target \in Sectors /\ latest[1] # Target /\ latest \in Places
    BY TargetElsewhere DEF InUse, Typing, TypeOK
  <1>2. \A p \in Places : p[1] = Target /\ Committed(flash[p]) /\ flash[p].ver = flash[latest].ver =>
                p = <<Target, 1>> /\ ScannedBefore(latest, p)
    BY <1>1 DEF InUse, TargetOutranked
  <1>3. flash \in [Places -> Cells] /\ Newest(flash, latest)
    BY DEF Typing, TypeOK, InUse
  <1>4. Newest(gl, latest)
    BY <1>1, <1>2, <1>3, SectorErased
  <1> QED
    BY <1>1, <1>4

LEMMA GcEraseStep ==
    ASSUME Conditions, Typing, LogInv, GcErase
    PROVE  LogInv'
  <1>1. pc = "gc" /\ pc' = "gcCopy" /\ UNCHANGED ram
    BY DEF GcErase, Conditions, Typing, TypeOK
  <1>2. InUse /\ offset > NSlots /\ unit = "head"
    BY <1>1 DEF LogInv
  <1>3. active \in Sectors /\ Target \in Sectors /\ <<Target, 1>> \in Places
    BY TargetElsewhere, FirstSlot, PlaceFacts DEF Typing, TypeOK
  <1>4. \/ flash' = flash /\ LooksEmpty(Target)
        \/ flash' = EraseOf(flash, Target)
    BY <1>1, Zenon DEF GcErase
  <1>5. /\ \A p \in Places : p[1] # Target => flash'[p] = flash[p]
        /\ \A p \in Places : Committed(flash'[p]) =>
                Committed(flash[p]) /\ flash'[p] = flash[p]
        /\ flash'[<<Target, 1>>].st = "erased"
    <2>1. CASE flash' = flash /\ LooksEmpty(Target)
      BY <2>1, <1>3, GeometryAssumption DEF LooksEmpty
    <2>2. CASE flash' = EraseOf(flash, Target)
      BY <2>2, <1>3, PlaceFacts DEF EraseOf, Erased, Committed
    <2> QED
      BY <1>4, <2>1, <2>2
  <1>6. Newest(flash', latest) /\ flash'[latest] = flash[latest]
    BY <1>2, <1>5, TargetErased
  <1>7. Target' = Target /\ latest' = latest /\ latestVer' = latestVer /\ active' = active
        /\ offset' = offset /\ unit' = "head"
    BY <1>1, <1>2 DEF Target, ram
  <1>8. TargetOutranked'
    BY <1>2, <1>5, <1>7 DEF InUse, TargetOutranked
  <1>9. InUse'
    BY <1>2, <1>6, <1>7, <1>8 DEF InUse
  <1>10. CopyProgress'
    BY <1>2, <1>5, <1>7, <1>9 DEF CopyProgress
  <1>11. Settled(flash')
    <2>1. CopiesOnly(flash')
      BY <1>5, FewerFrames DEF LogInv, Settled
    <2> QED
      BY <1>2, <1>6, <2>1 DEF Settled, InUse
  <1> QED
    BY <1>1, <1>9, <1>10, <1>11 DEF LogInv, Running

(* What one more unit of the copy, complete or torn, leaves behind. *)
LEMMA CopyOutcome ==
    ASSUME Conditions, Typing, LogInv, pc = "gcCopy",
           NEW c \in Interrupted(flash[<<Target, 1>>], flash[latest], unit), NEW gl,
           gl = [flash EXCEPT ![<<Target, 1>>] = c]
    PROVE  /\ CopiesOnly(gl)
           /\ Committed(c) => /\ unit = "commit" /\ Newest(gl, <<Target, 1>>)
                              /\ c.ver = latestVer /\ c.st = "full"
           /\ ~Committed(c) => /\ Newest(gl, latest) /\ gl[latest] = flash[latest]
                               /\ \A p \in Places : Committed(gl[p]) => gl[p] = flash[p]
  <1> DEFINE w == <<Target, 1>>
             d == flash[w]
             f == flash[latest]
  <1>1. CopyProgress /\ InUse /\ offset > NSlots
    BY DEF LogInv, CopyProgress
  <1>2. /\ Target \in Sectors /\ w \in Places /\ w[1] = Target /\ w[2] = 1 /\ w # latest
        /\ unit \in Units /\ flash \in [Places -> Cells] /\ d \in Cells
    BY <1>1, InUseFacts, TargetElsewhere, FirstSlot, PlaceFacts DEF Typing, TypeOK
  <1>3. f \in Cells /\ f.st = "full" /\ f.ver = latestVer /\ latest \in Places
    BY <1>1, InUseFacts
  <1>4. /\ ~Committed(d)
        /\ unit = "commit" => d.ver = latestVer
    BY <1>1, <1>2 DEF CopyProgress, Committed, Units
  <1>5. c \in Cells
    BY <1>2, <1>3, InterruptedType
  <1>0. gl = [flash EXCEPT ![w] = c] /\ CopiesOnly(flash) /\ Newest(flash, latest)
    BY <1>1 DEF InUse, LogInv, Settled
  <1>6. /\ c.st = "erased" => d.st = "erased"
        /\ Committed(c) => unit = "commit" /\ d.st = "body" /\ c = [d EXCEPT !.st = f.st]
    <2>1. /\ c.st = "erased" => d.st = "erased"
          /\ Committed(c) => \/ c = d
                             \/ unit = "commit" /\ d.st = "body" /\ c = [d EXCEPT !.st = f.st]
      BY <1>2, <1>3, <1>4, InterruptedCommit
    <2> QED
      BY <1>4, <2>1
  <1>7. /\ gl[w] = c
        /\ \A p \in Places : p # w => gl[p] = flash[p]
    BY <1>0, <1>2, <1>6, WriteCell
  <1> HIDE DEF w
  <1>8. CASE ~Committed(c)
    <2>1. CopiesOnly(gl) /\ Newest(gl, latest)
      BY <1>0, <1>2, <1>3, <1>6, <1>8, NoFrameWritten
    <2>2. gl[latest] = flash[latest]
      BY <1>2, <1>3, <1>7
    <2>3. \A p \in Places : Committed(gl[p]) => gl[p] = flash[p]
      BY <1>7, <1>8
    <2> QED
      BY <1>8, <2>1, <2>2, <2>3
  <1>9. CASE Committed(c)
    <2>1. unit = "commit" /\ c.st = "full" /\ c.ver = latestVer
      BY <1>2, <1>3, <1>4, <1>6, <1>9 DEF Cells
    <2>2. w \in Visible(gl)
      BY <1>2, <1>7, <1>9, HeadVisible
    <2>3. ASSUME NEW p \in Places, p # w, Committed(flash[p])
          PROVE  /\ flash[p].ver <= c.ver
                 /\ flash[p].ver = c.ver => p = latest
      <3>1. flash[p].ver <= latestVer
        BY <2>3, Versions DEF Running
      <3>2. flash[p].ver = latestVer => p = latest
        BY <1>1, <2>3 DEF InUse, TargetOutranked, w
      <3> QED
        BY <2>1, <3>1, <3>2
    <2>4. latest \in Visible(flash)
      BY <1>1 DEF InUse, Newest
    <2>5. Newest(gl, w)
      <3>1. gl \in [Places -> Cells]
        BY <1>0, <1>2, <1>5
      <3>2. latest \in Visible(gl)
        BY <1>0, <1>2, <1>3, <1>6, <2>4, WriteCell
      <3>3. \A p \in Places : p # w /\ Committed(gl[p]) =>
                /\ gl[p].ver <= gl[w].ver
                /\ gl[p].ver = gl[w].ver => gl[p].st = "full" /\ p \in Visible(gl)
        BY <1>2, <1>3, <1>7, <2>3, <3>2
      <3> QED
        BY <1>2, <1>7, <2>1, <2>2, <3>1, <3>3, FrameWritten
    <2>6. CopiesOnly(gl)
      <3>1. w = NextHead(latest)
        BY <1>1 DEF InUse, NextHead, Target, w
      <3>2. ASSUME NEW p \in Places, NEW q \in Places, p # q,
                   Committed(gl[p]), Committed(gl[q]), gl[p].ver = gl[q].ver
            PROVE  p = NextHead(q) \/ q = NextHead(p)
        <4>1. CASE p # w /\ q # w
          BY <1>7, <3>2, <4>1 DEF LogInv, Settled, CopiesOnly
        <4>2. CASE p = w
          BY <1>7, <2>3, <3>1, <3>2, <4>2
        <4>3. CASE q = w
          BY <1>7, <2>3, <3>1, <3>2, <4>3
        <4> QED
          BY <4>1, <4>2, <4>3
      <3> QED
        BY <3>2, Zenon DEF CopiesOnly
    <2> QED
      BY <1>9, <2>1, <2>5, <2>6 DEF w
  <1> QED
    BY <1>8, <1>9 DEF w

LEMMA GcNoCopyStep ==
    ASSUME Conditions, Typing, LogInv, GcNoCopy
    PROVE  FALSE
  BY InUseFacts DEF GcNoCopy, LogInv, CopyProgress

LEMMA GcCopyUnitStep ==
    ASSUME Conditions, Typing, LogInv, GcCopyUnit
    PROVE  LogInv'
  <1> DEFINE w == <<Target, 1>>
             d == flash[w]
             f == flash[latest]
             c == Programmed(d, f, unit)
  <1>1. pc = "gcCopy" /\ CopyProgress /\ InUse /\ offset > NSlots
    BY DEF GcCopyUnit, LogInv, CopyProgress
  <1>2. /\ f \in Cells /\ f.st = "full" /\ f.ver = latestVer
        /\ unit \in Units /\ w \in Places /\ d \in Cells /\ flash \in [Places -> Cells]
    BY <1>1, InUseFacts, TargetElsewhere, FirstSlot, PlaceFacts DEF Typing, TypeOK
  <1>3. Accepts(d, f, unit)
    BY <1>1, <1>2 DEF CopyProgress, Accepts, Units
  <1>4. /\ flash' = [flash EXCEPT ![w] = c]
        /\ unit' = NextUnit[unit] /\ latestVer' = latestVer
        /\ IF unit = "commit"
           THEN latest' = w /\ GcSwitch(2)
           ELSE UNCHANGED <<latest, active, offset, pc, ret>>
    BY <1>3 DEF GcCopyUnit, Conditions, Typing, TypeOK
  <1>5. c \in Interrupted(d, f, unit)
    BY <1>3 DEF Interrupted
  <1>6. /\ CopiesOnly(flash')
        /\ Committed(c) => /\ unit = "commit" /\ Newest(flash', w)
                           /\ c.ver = latestVer /\ c.st = "full"
        /\ ~Committed(c) => /\ Newest(flash', latest) /\ flash'[latest] = flash[latest]
                            /\ \A p \in Places : Committed(flash'[p]) => flash'[p] = flash[p]
    BY <1>1, <1>4, <1>5, CopyOutcome
  <1>7. flash'[w] = c
    BY <1>2, <1>4
  <1>8. CASE unit = "commit"
    <2>1. d.st = "body" /\ Committed(c)
      BY <1>1, <1>2, <1>8 DEF CopyProgress, Programmed, Committed, Cells
    <2>2. /\ latest' = w /\ active' = Target /\ offset' = 2 /\ pc' = "write" /\ unit' = "head"
      BY <1>4, <1>8, GeometryAssumption DEF GcSwitch, Conditions, NextUnit
    <2>3. w[1] = Target /\ w[2] = 1
      OBVIOUS
    <2>4. TargetOutranked'
      BY <2>2, GeometryAssumption DEF TargetOutranked, Conditions
    <2> HIDE DEF c, w
    <2>5. InUse'
      BY <1>2, <1>4, <1>6, <1>7, <2>1, <2>2, <2>3, <2>4 DEF InUse
    <2>6. WriteProgress'
      BY <2>2, GeometryAssumption DEF WriteProgress, Conditions, Slots
    <2>7. Settled(flash')
      BY <1>2, <1>6, <2>1 DEF Settled
    <2> QED
      BY <2>2, <2>5, <2>6, <2>7 DEF LogInv, Running
  <1>9. CASE unit # "commit"
    <2>1. /\ UNCHANGED <<latest, active, offset>> /\ pc' = "gcCopy"
          /\ Target' = Target
      BY <1>1, <1>4, <1>9 DEF Target
    <2>2. ~Committed(c)
      BY <1>6, <1>9
    <2>3. c \in Cells
      BY <1>2, ProgrammedType
    <2>4. unit = "head" => unit' = "body" /\ c.st = "head" /\ c.ver = latestVer
      BY <1>1, <1>2, <1>4 DEF CopyProgress, Programmed, NextUnit
    <2>5. unit = "body" => unit' = "commit" /\ c.st = "body" /\ c.ver = latestVer /\ c.val = f.val
      BY <1>1, <1>2, <1>4 DEF CopyProgress, Programmed, NextUnit, Cells
    <2>6. unit \in {"head", "body"}
      BY <1>2, <1>9 DEF Units
    <2> HIDE DEF c
    <2>7. TargetOutranked'
      BY <1>1, <1>4, <1>6, <2>1, <2>2 DEF InUse, TargetOutranked
    <2>8. InUse'
      BY <1>1, <1>4, <1>6, <2>1, <2>2, <2>7 DEF InUse
    <2>9. CopyProgress'
      BY <1>1, <1>4, <1>6, <1>7, <2>1, <2>2, <2>4, <2>5, <2>6, <2>8 DEF CopyProgress
    <2>10. Settled(flash')
      BY <1>1, <1>6, <2>2 DEF Settled, InUse
    <2> QED
      BY <2>1, <2>8, <2>9, <2>10 DEF LogInv, Running
  <1> QED
    BY <1>8, <1>9

(* What one more unit of a new frame, complete or torn, leaves behind. *)
LEMMA WriteOutcome ==
    ASSUME Conditions, Typing, LogInv, pc = "write",
           NEW w \in Places, w = <<active, offset>>,
           NEW c \in Interrupted(flash[w], NewFrame, unit), NEW gl,
           gl = [flash EXCEPT ![w] = c]
    PROVE  /\ Settled(gl)
           /\ Committed(c) /\ c # flash[w] =>
                Newest(gl, w) /\ c.ver = latestVer + 1 /\ c.st = "full"
           /\ Committed(c) => c = flash[w] \/ unit = "commit"
           /\ ~Committed(c) \/ c = flash[w] =>
                /\ Unused => NoneCommitted(gl)
                /\ InUse => Newest(gl, latest) /\ gl[latest] = flash[latest]
  <1> DEFINE d == flash[w]
             f == NewFrame
  <1>1. WriteProgress /\ (Unused \/ InUse)
    BY DEF LogInv, Running
  <1>2. /\ unit \in Units /\ flash \in [Places -> Cells] /\ d \in Cells
        /\ latestVer \in Nat /\ offset \in Nat
    BY DEF Typing, TypeOK, Units
  <1>3. f \in Cells /\ f.st = "full" /\ f.ver = latestVer + 1
    BY NewFrameType DEF NewFrame, Typing, TypeOK
  <1>4. \A p \in Places : Committed(flash[p]) => flash[p].ver <= latestVer
    BY Versions DEF Running
  <1>5. Committed(d) => unit = "head" /\ d.ver # f.ver
    BY <1>1, <1>2, <1>3, <1>4 DEF WriteProgress, Committed, Units, Cells
  <1>6. /\ c.st = "erased" => d.st = "erased"
        /\ Committed(c) => \/ c = d
                           \/ unit = "commit" /\ d.st = "body" /\ c = [d EXCEPT !.st = f.st]
    BY <1>2, <1>3, <1>5, InterruptedCommit
  <1>7. c \in Cells
    BY <1>2, <1>3, InterruptedType
  <1>8. /\ gl[w] = c
        /\ \A p \in Places : p # w => gl[p] = flash[p]
        /\ \A p \in Places : p # w /\ p \in Visible(flash) => p \in Visible(gl)
    <2>1. gl = [flash EXCEPT ![w] = c] /\ (c.st = "erased" => flash[w].st = "erased")
      BY <1>6
    <2>2. flash \in [Places -> Cells]
      BY <1>2
    <2>3. gl[w] = c /\ \A p \in Places : p # w => gl[p] = flash[p]
      BY <2>1, <2>2
    <2>4. ASSUME NEW p \in Places, p # w, p \in Visible(flash)
          PROVE  p \in Visible(gl)
      BY <2>1, <2>2, <2>4, WriteCell
    <2> QED
      BY <2>3, <2>4
  <1>9. InUse => latest \in Places /\ latest # w /\ latest \in Visible(flash)
    BY <1>2, PlaceFacts DEF InUse, Newest, Slots
  <1>10. CASE Committed(c) => c = d
    <2>1. /\ NoneCommitted(flash) => NoneCommitted(gl)
          /\ CopiesOnly(gl)
          /\ \A L \in Places : L # w /\ Newest(flash, L) => Newest(gl, L)
      BY <1>2, <1>6, <1>10, NoFrameWritten DEF LogInv, Settled
    <2>2. Unused => NoneCommitted(gl)
      BY <2>1 DEF Unused
    <2>3. InUse => Newest(gl, latest) /\ gl[latest] = flash[latest]
      BY <1>8, <1>9, <2>1 DEF InUse
    <2>4. Settled(gl)
      BY <1>1, <1>9, <2>1, <2>2, <2>3 DEF Settled
    <2> QED
      BY <1>6, <1>10, <2>2, <2>3, <2>4
  <1>11. CASE Committed(c) /\ c # d
    <2>1. unit = "commit" /\ c.st = "full" /\ c.ver = latestVer + 1
      BY <1>1, <1>2, <1>3, <1>6, <1>11 DEF WriteProgress, Cells
    <2>2. \A p \in Places : p # w /\ Committed(gl[p]) => gl[p].ver <= latestVer /\ gl[p].ver \in Nat
      BY <1>2, <1>4, <1>8 DEF Cells
    <2>3. w \in Visible(gl)
      <3>1. ASSUME NEW k \in 1 .. w[2] - 1
            PROVE  gl[<<w[1], k>>].st # "erased"
        <4>1. InUse /\ active = latest[1] /\ offset = latest[2] + 1
          BY <1>1, <1>2, <3>1 DEF Unused, Cleared, InUse
        <4>2. latest[2] \in 1 .. NSlots /\ latest \in Visible(gl) /\ Committed(gl[latest])
          BY <1>8, <1>9, <4>1, PlaceFacts DEF Visible, Slots
        <4>3. k = latest[2] \/ k \in 1 .. latest[2] - 1
          BY <3>1, <4>1, <4>2, GeometryAssumption
        <4>4. k = latest[2] => gl[<<w[1], k>>].st # "erased"
          <5>1. latest = <<latest[1], latest[2]>>
            BY <1>9, <4>1, PlaceFacts
          <5> QED
            BY <4>1, <4>2, <5>1 DEF Committed
        <4>5. k \in 1 .. latest[2] - 1 => gl[<<w[1], k>>].st # "erased"
          BY <4>1, <4>2 DEF Visible
        <4> QED
          BY <4>3, <4>4, <4>5
      <3> QED
        BY <1>8, <1>11, <3>1 DEF Visible
    <2>4. gl \in [Places -> Cells]
      BY <1>2, <1>7
    <2>5. \A p \in Places : p # w /\ Committed(gl[p]) =>
                /\ gl[p].ver <= gl[w].ver
                /\ gl[p].ver = gl[w].ver => gl[p].st = "full" /\ p \in Visible(gl)
      BY <1>2, <1>8, <2>1, <2>2
    <2>6. Newest(gl, w)
      BY <1>8, <2>1, <2>3, <2>4, <2>5, FrameWritten
    <2>7. CopiesOnly(gl)
      <3>1. CopiesOnly(flash)
        BY DEF LogInv, Settled
      <3>2. ASSUME NEW p \in Places, NEW q \in Places, p # q,
                   Committed(gl[p]), Committed(gl[q]), gl[p].ver = gl[q].ver
            PROVE  p = NextHead(q) \/ q = NextHead(p)
        <4>1. p # w /\ q # w
          BY <1>2, <1>8, <2>1, <2>2, <3>2
        <4> QED
          BY <1>8, <3>1, <3>2, <4>1 DEF CopiesOnly
      <3> QED
        BY <3>2, Zenon DEF CopiesOnly
    <2> QED
      BY <1>11, <2>1, <2>6, <2>7 DEF Settled
  <1> QED
    BY <1>10, <1>11

LEMMA WriteUnitStep ==
    ASSUME Conditions, Typing, LogInv, WriteUnit
    PROVE  LogInv'
  <1> DEFINE w == <<active, offset>>
             d == flash[w]
             c == flash'[w]
  <1>1. pc = "write" /\ WriteProgress /\ (Unused \/ InUse)
    BY DEF WriteUnit, LogInv, Running
  <1>2. /\ w \in Places /\ w[1] = active /\ w[2] = offset
        /\ unit \in Units /\ flash \in [Places -> Cells] /\ d \in Cells
        /\ latestVer \in Nat /\ offset \in Nat
    BY <1>1, PlaceFacts DEF WriteProgress, Typing, TypeOK
  <1>3. NewFrame \in Cells /\ NewFrame.st = "full" /\ NewFrame.ver = latestVer + 1
        /\ NewFrame.val = kv
    BY NewFrameType DEF NewFrame, Typing, TypeOK
  <1>4. active' = active /\ kv' = kv
    BY DEF WriteUnit
  <1>5. \/ /\ Accepts(d, NewFrame, unit)
           /\ flash' = [flash EXCEPT ![w] = Programmed(d, NewFrame, unit)]
           /\ unit' = NextUnit[unit]
           /\ IF unit = "commit"
              THEN /\ latest' = w
                   /\ latestVer' = latestVer + 1
                   /\ offset' = offset + 1
                   /\ pc' = "idle" /\ ret' = "SAVED"
              ELSE UNCHANGED <<latest, latestVer, offset, pc, ret>>
        \/ /\ ~Accepts(d, NewFrame, unit)
           /\ flash' = [flash EXCEPT ![w] = Spoiled(d, unit)]
           /\ pc' = "idle"
           /\ UNCHANGED <<unit, latest, latestVer, offset, faults>>
    BY DEF WriteUnit, Conditions, Typing, TypeOK
  <1>6. flash' = [flash EXCEPT ![w] = c] /\ c \in Interrupted(d, NewFrame, unit)
    BY <1>2, <1>5 DEF Interrupted
  <1>7. /\ Settled(flash')
        /\ Committed(c) /\ c # d =>
                Newest(flash', w) /\ c.ver = latestVer + 1 /\ c.st = "full"
        /\ Committed(c) => c = d \/ unit = "commit"
        /\ ~Committed(c) \/ c = d =>
                /\ Unused => NoneCommitted(flash')
                /\ InUse => Newest(flash', latest) /\ flash'[latest] = flash[latest]
    BY <1>1, <1>2, <1>6, WriteOutcome
  <1>8. CASE /\ unit = "commit" /\ Accepts(d, NewFrame, unit)
             /\ c = Programmed(d, NewFrame, unit)
             /\ latest' = w /\ latestVer' = latestVer + 1 /\ offset' = offset + 1
             /\ pc' = "idle"
    <2>1. d.st = "body" /\ c.st = "full"
      BY <1>1, <1>2, <1>3, <1>8 DEF WriteProgress, Programmed, Cells
    <2>2. Newest(flash', w) /\ c.ver = latestVer + 1
      BY <1>7, <2>1 DEF Committed
    <2>3. TargetOutranked'
      <3>1. SUFFICES ASSUME NEW p \in Places, p # w, Committed(flash'[p]),
                            flash'[p].ver = latestVer + 1
                     PROVE  FALSE
        BY <1>8, Zenon DEF TargetOutranked
      <3>2. flash'[p] = flash[p]
        BY <1>2, <1>6, <3>1
      <3>3. flash[p].ver <= latestVer
        BY <1>1, <3>1, <3>2, Versions DEF Running
      <3> QED
        BY <1>2, <3>1, <3>2, <3>3
    <2> HIDE DEF w
    <2>4. InUse'
      BY <1>2, <1>4, <1>8, <2>2, <2>3 DEF InUse
    <2> QED
      BY <1>7, <1>8, <2>4 DEF LogInv, Running
  <1>9. CASE ~Committed(c) \/ c = d
    <2>1. /\ Unused => NoneCommitted(flash')
          /\ InUse => Newest(flash', latest) /\ flash'[latest] = flash[latest]
      BY <1>7, <1>9
    <2>2. ~(unit = "commit" /\ Accepts(d, NewFrame, unit) /\ c = Programmed(d, NewFrame, unit))
      BY <1>1, <1>2, <1>3, <1>9 DEF WriteProgress, Programmed, Committed, Cells
    <2>3. UNCHANGED <<latest, latestVer, active, offset, kv>> /\ pc' \in {"idle", "write"}
      <3>1. Accepts(d, NewFrame, unit) /\ flash' = [flash EXCEPT ![w] = Programmed(d, NewFrame, unit)]
               => c = Programmed(d, NewFrame, unit)
        BY <1>2
      <3> QED
        BY <1>1, <1>4, <1>5, <2>2, <3>1
    <2>4. offset <= NSlots
      BY <1>1 DEF WriteProgress, Slots
    <2>5. InUse => InUse'
      BY <1>2, <2>1, <2>3, <2>4, GeometryAssumption DEF InUse, TargetOutranked
    <2>6. Unused => Unused'
      BY <2>1, <2>3 DEF Unused, Cleared
    <2>7. pc' = "write" => WriteProgress'
      <3>1. SUFFICES ASSUME pc' = "write"
                     PROVE  WriteProgress'
        OBVIOUS
      <3>2. /\ Accepts(d, NewFrame, unit) /\ unit # "commit"
            /\ c = Programmed(d, NewFrame, unit) /\ unit' = NextUnit[unit]
        BY <1>2, <1>5, <2>2, <3>1
      <3>3. Committed(d) => d.ver # latestVer + 1
        BY <1>1, <1>2, Versions DEF Running, Cells
      <3>4. CASE unit = "head"
        <4>1. c.st \in {"head", "body"} /\ c.ver = latestVer + 1
          BY <1>2, <1>3, <3>2, <3>3, <3>4
          DEF Accepts, Programmed, Committed, Cells, Stages
        <4> QED
          BY <1>1, <1>4, <2>3, <3>2, <3>4, <4>1 DEF WriteProgress, NextUnit
      <3>5. CASE unit = "body"
        <4>1. c.st = "body" /\ c.ver = latestVer + 1 /\ c.val = kv
          BY <1>1, <1>2, <1>3, <3>2, <3>5
          DEF WriteProgress, Accepts, Programmed, Cells
        <4> QED
          BY <1>1, <1>4, <2>3, <3>2, <3>5, <4>1 DEF WriteProgress, NextUnit
      <3> QED
        BY <1>2, <3>2, <3>4, <3>5 DEF Units
    <2> QED
      BY <1>1, <1>7, <2>3, <2>5, <2>6, <2>7 DEF LogInv, Running
  <1>10. CASE Committed(c) /\ c # d /\ Accepts(d, NewFrame, unit)
    <2>1. unit = "commit"
      BY <1>7, <1>10
    <2>2. c = Programmed(d, NewFrame, unit)
      BY <1>2, <1>5, <1>10
    <2> QED
      BY <1>5, <1>8, <1>10, <2>1, <2>2
  <1>11. CASE ~Accepts(d, NewFrame, unit)
    <2>1. unit # "commit"
      BY <1>1, <1>11 DEF WriteProgress, Accepts
    <2> QED
      BY <1>7, <1>9, <2>1
  <1> QED
    BY <1>9, <1>10, <1>11

LEMMA TornEraseOutcome ==
    ASSUME Conditions, Typing, LogInv, TornErase
    PROVE  Settled(flash')
  <1>1. flash' \in CutErases(flash, Erasing) /\ flash \in [Places -> Cells]
    BY DEF TornErase, Typing, TypeOK
  <1>2. \A p \in Places : p[1] \notin Erasing => flash'[p] = flash[p]
    BY <1>1, CutEraseFacts
  <1>3. \A p \in Places : Committed(flash'[p]) =>
            Committed(flash[p]) /\ flash'[p].ver = flash[p].ver
    BY <1>1, CutEraseFacts
  <1>4. CopiesOnly(flash')
    BY <1>3, FewerFrames DEF LogInv, Settled
  <1>5. CASE pc = "initErase"
    BY <1>3, <1>4, <1>5, FewerFrames DEF LogInv, Settled
  <1>6. CASE pc = "gc"
    <2>1. InUse /\ offset > NSlots
      BY <1>6 DEF LogInv
    <2>2. Erasing \subseteq {Target}
      BY <1>6 DEF Erasing
    <2>3. Newest(flash', latest)
      BY <1>2, <1>3, <2>1, <2>2, TargetErased
    <2> QED
      BY <1>4, <2>1, <2>3 DEF Settled, InUse
  <1>7. pc \in {"initErase", "gc"}
    BY DEF TornErase, Erasing, LogInv
  <1> QED
    BY <1>5, <1>6, <1>7

LEMMA PowerFailStep ==
    ASSUME Conditions, Typing, LogInv, PowerFail
    PROVE  LogInv'
  <1>1. pc' = "off" /\ Cleared'
    BY DEF PowerFail, RamCleared, Cleared
  <1>2. Settled(flash')
    <2>1. CASE TornWrite
      <3>1. PICK c \in Interrupted(flash[<<active, offset>>], NewFrame, unit) :
              flash' = [flash EXCEPT ![<<active, offset>>] = c]
        BY <2>1, Zenon DEF TornWrite
      <3>2. pc = "write" /\ <<active, offset>> \in Places
        BY <2>1, PlaceFacts DEF TornWrite, Typing, TypeOK
      <3> QED
        BY <3>1, <3>2, WriteOutcome
    <2>2. CASE TornCopy
      <3>1. PICK c \in Interrupted(flash[<<Target, 1>>], flash[latest], unit) :
              flash' = [flash EXCEPT ![<<Target, 1>>] = c]
        BY <2>2, Zenon DEF TornCopy
      <3>2. pc = "gcCopy"
        BY <2>2 DEF TornCopy, Copying
      <3>3. latest \in Places /\ <<Target, 1>> \in Places
        BY <3>2, InUseFacts, TargetElsewhere, FirstSlot, PlaceFacts
        DEF LogInv, CopyProgress, Typing, TypeOK
      <3>4. CopiesOnly(flash') /\ \E L \in Places : Newest(flash', L)
        BY <3>1, <3>2, <3>3, CopyOutcome
      <3> QED
        BY <3>4 DEF Settled
    <2>3. CASE TornErase
      BY <2>3, TornEraseOutcome
    <2>4. CASE NothingTorn
      BY <2>4, OffSettled DEF NothingTorn
    <2> QED
      BY <2>1, <2>2, <2>3, <2>4 DEF PowerFail
  <1> QED
    BY <1>1, <1>2 DEF LogInv, Running

(* The conjunction of Typing and LogInv is inductive. *)
LEMMA LogInvStep ==
    ASSUME Conditions, Typing, LogInv, [Next]_vars
    PROVE  LogInv'
  <1>0. CASE UNCHANGED vars
    BY <1>0
    DEF vars, LogInv, Running, Unused, Cleared, InUse, TargetOutranked, Target,
        CopyProgress, WriteProgress
  <1>1. CASE BootFound
    BY <1>1, BootFoundStep
  <1>2. CASE BootFirstUse
    BY <1>2, BootFirstUseStep
  <1>3. CASE InitErase
    BY <1>3, InitEraseStep
  <1>4. ASSUME NEW v \in Values, Save(v)
        PROVE  LogInv'
    BY <1>4, SaveStep
  <1>5. CASE RefusedCall
    BY <1>5 DEF RefusedCall, LogInv
  <1>6. CASE GcErase
    BY <1>6, GcEraseStep
  <1>7. CASE GcNoCopy
    BY <1>7, GcNoCopyStep
  <1>8. CASE GcCopyUnit
    BY <1>8, GcCopyUnitStep
  <1>9. CASE WriteUnit
    BY <1>9, WriteUnitStep
  <1>10. CASE Load
    BY <1>10, LoadStep
  <1>11. CASE WipeStart \/ WipeSector
    BY <1>11 DEF WipeStart, WipeSector, Conditions, LogInv
  <1>12. CASE PowerFail
    BY <1>12, PowerFailStep
  <1> QED
    BY <1>0, <1>1, <1>2, <1>3, <1>4, <1>5, <1>6, <1>7, <1>8, <1>9, <1>10, <1>11, <1>12
    DEF Next
-----------------------------------------------------------------------------
(* The invariant behind the durability of the log holds in every reachable  *)
(* state.                                                                   *)
THEOREM LogInvariant == Conditions => (Spec => [](Typing /\ LogInv))
  <1> SUFFICES ASSUME Conditions
               PROVE  Spec => [](Typing /\ LogInv)
    OBVIOUS
  <1>1. Init => Typing /\ LogInv
    BY TypingInit, LogInvInit
  <1>2. Typing /\ LogInv /\ [Next]_vars => (Typing /\ LogInv)'
    BY TypingStep, LogInvStep
  <1> QED
    BY <1>1, <1>2, PTL DEF Spec

(* What the running firmware takes for the latest frame is intact and the   *)
(* newest in flash, whatever power failures and collections came before.    *)
THEOREM WarmIsCold == Conditions => (Spec => []WarmEqualsCold)
  <1> SUFFICES ASSUME Conditions
               PROVE  Spec => []WarmEqualsCold
    OBVIOUS
  <1>1. Typing /\ LogInv => WarmEqualsCold
    <2>1. SUFFICES ASSUME Typing, LogInv, Running
                   PROVE  WarmEqualsCold
      BY DEF WarmEqualsCold, Running
    <2>2. CASE Unused
      BY <2>2, NoneVisible DEF Unused, Cleared, WarmEqualsCold
    <2>3. CASE InUse
      <3>1. latest # NoFrame /\ flash[latest].st = "full" /\ flash[latest].ver = latestVer
        BY <2>3, FrameAssumption DEF InUse, Newest, Places, Sectors, Slots
      <3>2. \A p \in Visible(flash) : flash[p].ver <= latestVer
        BY <2>1, Versions DEF Visible
      <3> QED
        BY <3>1, <3>2, Zenon DEF WarmEqualsCold
    <2> QED
      BY <2>1, <2>2, <2>3 DEF LogInv
  <1> QED
    BY <1>1, LogInvariant, PTL

(* No committed frame newer than those a scan reaches sits behind an erased *)
(* slot, at any moment, so a restart never falls back to an older value.    *)
THEOREM NothingHidden == Conditions => (Spec => []NothingNewerHidden)
  <1> SUFFICES ASSUME Conditions
               PROVE  Spec => []NothingNewerHidden
    OBVIOUS
  <1>1. LogInv => NothingNewerHidden
    BY DEF LogInv, Settled, NoneCommitted, Newest, NothingNewerHidden
  <1> QED
    BY <1>1, LogInvariant, PTL

-----------------------------------------------------------------------------
(* Part 3: what a save reports, on any flash, with driver errors and wipes.*)

(* The remembered frame leads: the scan reaches it, and no frame is newer, *)
(* but for one in the slot that is written next, which a failed save may   *)
(* have committed without the firmware knowing.                            *)
NextSlot == <<active, offset>>
Leads(fl) ==
    /\ \/ Cleared
       \/ /\ latest \in Visible(fl) /\ fl[latest].ver = latestVer
          /\ active = latest[1] /\ offset = latest[2] + 1
    /\ \A p \in Places : Committed(fl[p]) =>
          IF p = NextSlot THEN fl[p].ver <= latestVer + 1
          ELSE latest # NoFrame /\ fl[p].ver <= latestVer

(* How far the copy and the new frame are.                                 *)
Copied ==
    LET c == flash[<<Target, 1>>]
    IN  /\ unit = "head" => c.st = "erased"
        /\ unit = "body" => c.st = "head" /\ c.ver = latestVer
        /\ unit = "commit" => c.st = "body" /\ c.ver = latestVer
Written ==
    LET c == flash[NextSlot]
    IN  /\ unit = "body" => c.st \in {"head", "body", "full", "bad"} /\ c.ver = latestVer + 1
        /\ unit = "commit" => c.st \in {"body", "full"} /\ c.ver = latestVer + 1 /\ c.val = kv

(* A session that is sound.                                                *)
Session ==
    /\ pc = "initErase" => NoneCommitted(flash)
    /\ Running => Leads(flash)
    /\ pc = "gcCopy" => Copied
    /\ pc = "write" => Written

(* Any session: a wipe leaves blank sectors behind, nothing is remembered  *)
(* before the scan, garbage is collected when the sector is full.          *)
Passage ==
    /\ pc = "wipe" => \A p \in Places : p[1] < wipePos => flash[p] = Erased
    /\ pc \in {"off", "initErase", "dead"} => Cleared
    /\ pc = "gc" => unit = "head"
    /\ pc \in {"gc", "gcCopy"} => offset > NSlots
    /\ ret = "SAVED" => pc = "idle" /\ SavedWhileSound

(* The invariant.  Of an unsound session it says what the completed scan   *)
(* or wipe needs that makes the next one sound.                            *)
SoundInv ==
    /\ Typing /\ Passage
    /\ sound => Session
    /\ ~AllowWipe => sound /\ pc # "wipe" /\ Reached(flash)

(* What the assumptions say of the slots.                                  *)
LEMMA Geometry ==
    /\ NSlots \in Nat /\ NSlots >= 1 /\ 1 \in Slots /\ Slots \subseteq Nat
    /\ \A p \in Places : p # NoFrame
  BY GeometryAssumption, FrameAssumption DEF Slots, Places, Sectors

(* A remembered frame is a frame.                                          *)
LEMMA LeadsFacts ==
    ASSUME Typing, NEW fl \in [Places -> Cells], Leads(fl), latest # NoFrame
    PROVE  /\ latest \in Places /\ latest \in Visible(fl) /\ Committed(fl[latest])
           /\ fl[latest].ver = latestVer /\ fl[latest] \in Cells
           /\ active = latest[1] /\ offset = latest[2] + 1
           /\ latest # NextSlot
  <1>1. latest \in Visible(fl) /\ fl[latest].ver = latestVer
        /\ active = latest[1] /\ offset = latest[2] + 1
    BY DEF Leads, Cleared
  <1>2. latest \in Places /\ Committed(fl[latest])
    BY <1>1 DEF Visible
  <1>3. latest[2] \in Nat
    BY <1>2, PlaceFacts, Geometry
  <1>4. latest # NextSlot
    BY <1>1, <1>3 DEF NextSlot
  <1> QED BY <1>1, <1>2, <1>4

(* A full sector has a frame.                                              *)
LEMMA FullIsUsed ==
    ASSUME Typing, NEW fl, Leads(fl), offset > NSlots
    PROVE  latest # NoFrame /\ NextSlot \notin Places
  <1>1. latest # NoFrame
    <2>1. ~Cleared
      BY Geometry DEF Cleared
    <2> QED BY <2>1, Geometry DEF Leads, Visible
  <1>2. NextSlot \notin Places
    BY Geometry, PlaceFacts DEF NextSlot, Slots, Places, Typing, TypeOK
  <1> QED BY <1>1, <1>2

(* The slot that is written next is behind no blank one.                   *)
LEMMA NextIsVisible ==
    ASSUME Typing, NEW fl \in [Places -> Cells], Leads(fl), NextSlot \in Places,
           Committed(fl[NextSlot])
    PROVE  NextSlot \in Visible(fl)
  <1>1. NextSlot[1] = active /\ NextSlot[2] = offset /\ offset \in Nat
    BY Geometry DEF NextSlot, Typing, TypeOK
  <1>2. ASSUME NEW k \in 1 .. offset - 1
        PROVE  fl[<<active, k>>].st # "erased"
    <2>1. latest # NoFrame
      <3>1. ~Cleared
        BY <1>1, <1>2 DEF Cleared
      <3> QED BY <3>1, Geometry DEF Leads, Visible
    <2>2. /\ latest \in Visible(fl) /\ Committed(fl[latest]) /\ latest \in Places
          /\ active = latest[1] /\ offset = latest[2] + 1
      BY <2>1, LeadsFacts
    <2>3. latest = <<latest[1], latest[2]>> /\ latest[2] \in Nat
      BY <2>2, PlaceFacts, Geometry
    <2>4. CASE k = latest[2]
      BY <2>2, <2>3, <2>4 DEF Committed
    <2>5. CASE k # latest[2]
      <3>1. k \in 1 .. latest[2] - 1
        BY <1>2, <2>2, <2>3, <2>5
      <3> QED BY <2>2, <3>1 DEF Visible
    <2> QED BY <2>4, <2>5
  <1> QED BY <1>1, <1>2 DEF Visible

(* So the scan reaches the newest frame, whatever the firmware knows.      *)
LEMMA LeadsReach ==
    ASSUME Typing, NEW fl \in [Places -> Cells], Leads(fl)
    PROVE  Reached(fl)
  <1> SUFFICES ASSUME NEW p \in Places, Committed(fl[p])
               PROVE  \E q \in Visible(fl) : fl[p].ver <= fl[q].ver
    BY DEF Reached
  <1>1. CASE p = NextSlot
    <2>1. fl[p].ver \in Nat
      BY DEF Cells
    <2> QED BY <1>1, <2>1, NextIsVisible
  <1>2. CASE p # NextSlot
    <2>1. latest # NoFrame /\ fl[p].ver <= latestVer
      BY <1>2 DEF Leads
    <2> QED BY <2>1, LeadsFacts
  <1> QED BY <1>1, <1>2

(* What an interrupted program operation leaves is no newer than what it   *)
(* was, and a frame only if it was one or was being committed.             *)
LEMMA InterruptedKeeps ==
    ASSUME NEW d \in Cells, NEW f \in Cells, NEW u \in Units, Committed(f),
           NEW c \in Interrupted(d, f, u)
    PROVE  /\ c \in Cells
           /\ c.st = "erased" => d.st = "erased"
           /\ Committed(c) => c.ver = d.ver /\ (Committed(d) \/ u = "commit")
  <1>1. c \in Cells
    BY InterruptedType
  <1> USE DEF Cells, Committed, Stages, Units
  <1>2. CASE c = d
    BY <1>1, <1>2
  <1>3. CASE Accepts(d, f, u) /\ c = Programmed(d, f, u)
    <2>1. CASE u = "head"
      BY <1>1, <1>3, <2>1 DEF Programmed
    <2>2. CASE u = "body"
      BY <1>1, <1>3, <2>2 DEF Programmed
    <2>3. CASE u = "commit"
      <3>1. c = [d EXCEPT !.st = f.st] /\ d.st \in {"body", "full"}
        BY <1>3, <2>3 DEF Programmed, Accepts
      <3> QED BY <1>1, <2>3, <3>1
    <2> QED BY <2>1, <2>2, <2>3
  <1>4. CASE c = Spoiled(d, u)
    BY <1>1, <1>4 DEF Spoiled, Frag, Erased
  <1>5. CASE c = Frag(f.ver)
    BY <1>1, <1>5 DEF Frag, Erased
  <1> QED BY <1>2, <1>3, <1>4, <1>5 DEF Interrupted

(* The remembered frame goes on leading when a cell elsewhere changes.     *)
LEMMA CellLeads ==
    ASSUME Typing, NEW fl \in [Places -> Cells], Leads(fl), NEW w \in Places, w # latest,
           NEW c, NEW gl, gl = [fl EXCEPT ![w] = c], c \in Cells,
           c.st = "erased" => fl[w].st = "erased",
           Committed(c) => IF w = NextSlot THEN c.ver <= latestVer + 1
                           ELSE latest # NoFrame /\ c.ver <= latestVer
    PROVE  Leads(gl) /\ gl \in [Places -> Cells] /\ gl[w] = c
  <1>1. /\ gl[w] = c /\ gl \in [Places -> Cells]
        /\ \A p \in Places : p # w => gl[p] = fl[p]
        /\ \A p \in Places : p # w /\ p \in Visible(fl) => p \in Visible(gl)
    BY WriteCell
  <1>2. \A p \in Places : Committed(gl[p]) =>
           IF p = NextSlot THEN gl[p].ver <= latestVer + 1
           ELSE latest # NoFrame /\ gl[p].ver <= latestVer
    BY <1>1 DEF Leads
  <1>3. \/ Cleared
        \/ /\ latest \in Visible(gl) /\ gl[latest].ver = latestVer
           /\ active = latest[1] /\ offset = latest[2] + 1
    BY <1>1 DEF Leads, Visible
  <1> QED BY <1>1, <1>2, <1>3 DEF Leads

(* A save writes beside the remembered frame: it leads whatever the unit   *)
(* leaves.                                                                 *)
LEMMA WriteLeads ==
    ASSUME Typing, Session, pc = "write", NEW c \in Interrupted(flash[NextSlot], NewFrame, unit),
           NEW gl, gl = [flash EXCEPT ![NextSlot] = c]
    PROVE  /\ Leads(gl) /\ gl \in [Places -> Cells] /\ gl[NextSlot] = c
           /\ NextSlot \in Places /\ flash[NextSlot] \in Cells /\ NewFrame \in Cells
  <1>1. /\ flash \in [Places -> Cells] /\ NewFrame \in Cells /\ unit \in Units
        /\ Leads(flash) /\ NextSlot \in Places /\ latestVer \in Nat
    BY NewFrameType, PlaceFacts DEF Typing, TypeOK, Session, Running, NextSlot
  <1>2. flash[NextSlot] \in Cells /\ Committed(NewFrame)
    BY <1>1 DEF NewFrame, Committed
  <1>3. /\ c \in Cells /\ (c.st = "erased" => flash[NextSlot].st = "erased")
        /\ Committed(c) => /\ c.ver = flash[NextSlot].ver
                           /\ Committed(flash[NextSlot]) \/ unit = "commit"
    BY <1>1, <1>2, InterruptedKeeps
  <1>4. Committed(c) => c.ver <= latestVer + 1
    <2>1. Committed(flash[NextSlot]) => flash[NextSlot].ver <= latestVer + 1
      BY <1>1 DEF Leads
    <2>2. unit = "commit" => flash[NextSlot].ver = latestVer + 1
      BY DEF Session, Written
    <2> QED BY <1>1, <1>3, <2>1, <2>2
  <1>5. NextSlot # latest
    <2>1. CASE latest = NoFrame
      BY <1>1, <2>1, Geometry
    <2>2. CASE latest # NoFrame
      BY <1>1, <2>2, LeadsFacts
    <2> QED BY <2>1, <2>2
  <1> QED BY <1>1, <1>2, <1>3, <1>4, <1>5, CellLeads

(* So it does while garbage collection copies it.                          *)
LEMMA CopyLeads ==
    ASSUME Typing, Passage, Session, pc = "gcCopy",
           NEW c \in Interrupted(flash[<<Target, 1>>], flash[latest], unit),
           NEW gl, gl = [flash EXCEPT ![<<Target, 1>>] = c]
    PROVE  /\ Leads(gl) /\ gl \in [Places -> Cells] /\ gl[<<Target, 1>>] = c
           /\ <<Target, 1>> \in Places /\ Target \in Sectors /\ flash[<<Target, 1>>] \in Cells
           /\ latest \in Places /\ flash[latest] \in Cells /\ Committed(flash[latest])
           /\ flash[latest].ver = latestVer /\ latest # NoFrame
  <1>1. /\ flash \in [Places -> Cells] /\ unit \in Units /\ Leads(flash) /\ latestVer \in Nat
        /\ active \in Sectors /\ offset > NSlots
    BY DEF Typing, TypeOK, Session, Running, Passage
  <1>2. latest # NoFrame /\ NextSlot \notin Places
    BY <1>1, FullIsUsed
  <1>3. /\ latest \in Places /\ Committed(flash[latest]) /\ flash[latest] \in Cells
        /\ flash[latest].ver = latestVer /\ active = latest[1]
    BY <1>1, <1>2, LeadsFacts
  <1>4. /\ Target \in Sectors /\ <<Target, 1>> \in Places /\ <<Target, 1>> # latest
        /\ flash[<<Target, 1>>] \in Cells
    BY <1>1, <1>3, TargetElsewhere, FirstSlot, PlaceFacts
  <1>5. /\ c \in Cells /\ (c.st = "erased" => flash[<<Target, 1>>].st = "erased")
        /\ Committed(c) => /\ c.ver = flash[<<Target, 1>>].ver
                           /\ Committed(flash[<<Target, 1>>]) \/ unit = "commit"
    BY <1>1, <1>3, <1>4, InterruptedKeeps
  <1>6. Committed(c) => c.ver <= latestVer
    <2>1. Committed(flash[<<Target, 1>>]) => flash[<<Target, 1>>].ver <= latestVer
      BY <1>1, <1>2, <1>4 DEF Leads
    <2>2. unit = "commit" => flash[<<Target, 1>>].ver = latestVer
      BY DEF Session, Copied
    <2> QED BY <1>1, <1>5, <2>1, <2>2
  <1>7. <<Target, 1>> # NextSlot
    BY <1>2, <1>4
  <1>8. Leads(gl) /\ gl \in [Places -> Cells] /\ gl[<<Target, 1>>] = c
    <2> DEFINE w == <<Target, 1>>
    <2>1. /\ w \in Places /\ w # latest /\ gl = [flash EXCEPT ![w] = c] /\ c \in Cells
          /\ c.st = "erased" => flash[w].st = "erased"
          /\ Committed(c) => IF w = NextSlot THEN c.ver <= latestVer + 1
                             ELSE latest # NoFrame /\ c.ver <= latestVer
      BY <1>2, <1>4, <1>5, <1>6, <1>7
    <2> HIDE DEF w
    <2>2. Leads(gl) /\ gl \in [Places -> Cells] /\ gl[w] = c
      BY <1>1, <2>1, CellLeads
    <2> QED BY <2>2 DEF w
  <1> QED BY <1>2, <1>3, <1>4, <1>8

(* Nor does it matter what an erase of the next sector leaves there.       *)
LEMMA EraseLeads ==
    ASSUME Typing, Leads(flash), offset > NSlots, NEW gl \in [Places -> Cells],
           \A p \in Places : p[1] # Target => gl[p] = flash[p],
           \A p \in Places : p[1] = Target /\ Committed(gl[p]) =>
                Committed(flash[p]) /\ gl[p].ver = flash[p].ver
    PROVE  Leads(gl)
  <1>1. flash \in [Places -> Cells] /\ active \in Sectors
    BY DEF Typing, TypeOK
  <1>2. latest # NoFrame /\ NextSlot \notin Places
    BY FullIsUsed
  <1>3. /\ latest \in Places /\ latest \in Visible(flash) /\ flash[latest].ver = latestVer
        /\ active = latest[1] /\ offset = latest[2] + 1 /\ Committed(flash[latest])
    BY <1>1, <1>2, LeadsFacts
  <1>4. \A k \in Slots : gl[<<active, k>>] = flash[<<active, k>>]
    BY <1>1, TargetElsewhere, PlaceFacts
  <1>5. gl[latest] = flash[latest]
    BY <1>1, <1>3, TargetElsewhere
  <1>6. latest \in Visible(gl)
    <2>1. ASSUME NEW k \in 1 .. latest[2] - 1
          PROVE  gl[<<latest[1], k>>].st # "erased"
      <3>1. latest[2] \in 1 .. NSlots /\ NSlots \in Nat
        BY <1>3, PlaceFacts, Geometry DEF Slots
      <3>2. k \in Slots
        BY <2>1, <3>1 DEF Slots
      <3> QED BY <1>3, <1>4, <2>1, <3>2 DEF Visible
    <2> QED BY <1>3, <1>5, <2>1 DEF Visible
  <1>7. \A p \in Places : Committed(gl[p]) => gl[p].ver <= latestVer
    BY <1>2 DEF Leads
  <1> QED BY <1>2, <1>3, <1>5, <1>6, <1>7 DEF Leads

(* One frame outranks all others that are reached: a restart loads it.     *)
LEMMA OutranksAll ==
    ASSUME NEW fl \in [Places -> Cells], NEW w \in Visible(fl),
           \A q \in Visible(fl) : q # w => fl[q].ver < fl[w].ver
    PROVE  (CHOOSE p \in Places : IsLatest(fl, p)) = w
  <1>1. w \in Places /\ \A q \in Visible(fl) : q \in Places /\ fl[q].ver \in Nat
    BY DEF Visible, Cells
  <1>2. IsLatest(fl, w)
    BY <1>1 DEF IsLatest
  <1>3. ASSUME NEW p \in Places, IsLatest(fl, p)
        PROVE  p = w
    <2>1. p \in Visible(fl) /\ (fl[w].ver < fl[p].ver \/ fl[w].ver = fl[p].ver)
      BY <1>3, Zenon DEF IsLatest
    <2> QED BY <1>1, <2>1
  <1> QED BY <1>1, <1>2, <1>3

(* The cells have changed, or not, the state in RAM has not.               *)
LEMMA LeadsStay ==
    ASSUME Leads(flash'), UNCHANGED <<latest, latestVer, active, offset>>
    PROVE  Leads(flash)'
  BY DEF Leads, Cleared, NextSlot

(* A scan reaches the newest frame as long as the remembered one leads.    *)
LEMMA ReachedStays ==
    ASSUME Typing, Typing', Leads(flash')
    PROVE  Reached(flash)'
  <1>1. flash' \in [Places -> Cells]
    BY DEF Typing, TypeOK
  <1> QED BY <1>1, LeadsReach

(* Where there is no frame there is none to miss.                          *)
LEMMA NoneReached ==
    ASSUME NEW fl, NoneCommitted(fl)
    PROVE  Reached(fl)
  BY DEF NoneCommitted, Reached

(* What is left of SoundInv when the types are shown.                      *)
SoundRest ==
    /\ Passage
    /\ sound => Session
    /\ ~AllowWipe => sound /\ pc # "wipe" /\ Reached(flash)

(* At power-on.                                                            *)
LEMMA SoundInitInv == Init => SoundInv
  <1> SUFFICES ASSUME Init PROVE SoundInv
    OBVIOUS
  <1>1. NoneCommitted(flash)
    BY DEF Init, NoneCommitted, Committed, Erased
  <1>2. Passage /\ Session
    BY DEF Init, Passage, Session, Running, Cleared
  <1>3. Reached(flash)
    BY <1>1, NoneReached
  <1> QED BY <1>2, <1>3, TypingInit DEF SoundInv, Init

(* ring_storage_init finds a frame: it leads if the scan has missed none.  *)
LEMMA SoundBootFound ==
    ASSUME SoundInv, BootFound
    PROVE  SoundRest'
  <1>1. PICK p \in Places :
          /\ IsLatest(flash, p)
          /\ latest' = p /\ latestVer' = flash[p].ver /\ active' = p[1] /\ offset' = SlotAfter(p)
    BY DEF BootFound
  <1>2. /\ pc' = "idle" /\ ret' = "INIT_OK" /\ sound' = Reached(flash) /\ flash' = flash
    BY DEF BootFound
  <1>3. p \in Visible(flash) /\ p # NoFrame
    BY <1>1, Geometry DEF IsLatest
  <1>4. ASSUME Reached(flash), NEW q \in Places, Committed(flash[q])
        PROVE  flash[q].ver <= flash[p].ver /\ flash[q].ver <= flash[p].ver + 1
    <2>1. PICK r \in Visible(flash) : flash[q].ver <= flash[r].ver
      BY <1>4 DEF Reached
    <2>2. flash[r].ver < flash[p].ver \/ flash[r].ver = flash[p].ver
      BY <1>1, <2>1, Zenon DEF IsLatest
    <2>3. flash[r].ver \in Nat /\ flash[p].ver \in Nat /\ flash[q].ver \in Nat
      BY <2>1 DEF Visible, Cells, SoundInv, Typing, TypeOK
    <2> QED BY <2>1, <2>2, <2>3
  <1>5. Reached(flash) => Leads(flash)'
    BY <1>1, <1>2, <1>3, <1>4 DEF Leads, SlotAfter
  <1>6. Passage'
    BY <1>2 DEF Passage
  <1>7. sound' => Session'
    BY <1>2, <1>5 DEF Session
  <1>8. ~AllowWipe => sound' /\ pc' # "wipe" /\ Reached(flash)'
    BY <1>2 DEF SoundInv
  <1> QED BY <1>6, <1>7, <1>8 DEF SoundRest

(* It finds none, and starts in sector 0.                                  *)
LEMMA SoundBootFirstUse ==
    ASSUME SoundInv, BootFirstUse
    PROVE  SoundRest'
  <1>1. /\ Visible(flash) = {} /\ pc = "off" /\ pc' \in {"idle", "initErase"}
        /\ sound' = Reached(flash) /\ ret' \in {"INIT_OK", ret}
        /\ UNCHANGED <<flash, latest, latestVer, active, offset>>
    BY DEF BootFirstUse, ram
  <1>2. Cleared /\ ret # "SAVED"
    BY <1>1 DEF SoundInv, Passage
  <1>3. Reached(flash) => NoneCommitted(flash)
    BY <1>1 DEF Reached, NoneCommitted
  <1>4. Reached(flash) => Leads(flash)
    BY <1>2, <1>3 DEF Leads, NoneCommitted
  <1>5. Passage'
    BY <1>1, <1>2 DEF Passage, Cleared
  <1>6. sound' => Session'
    <2>1. NoneCommitted(flash) => NoneCommitted(flash)'
      BY <1>1
    <2>2. Leads(flash) => Leads(flash)'
      BY <1>1, LeadsStay
    <2> QED BY <1>1, <1>3, <1>4, <2>1, <2>2 DEF Session
  <1>7. ~AllowWipe => sound' /\ pc' # "wipe" /\ Reached(flash)'
    BY <1>1 DEF SoundInv
  <1> QED BY <1>5, <1>6, <1>7 DEF SoundRest

(* Which it erases, if it is not empty.                                    *)
LEMMA SoundInitErase ==
    ASSUME SoundInv, InitErase
    PROVE  SoundRest'
  <1>1. /\ pc = "initErase" /\ pc' \in {"idle", "dead"} /\ ret' \in {"INIT_OK", "FLASH_ERASE"}
        /\ UNCHANGED <<latest, latestVer, active, offset, sound>>
        /\ flash' = EraseOf(flash, 0) \/ flash' \in CutErases(flash, {0})
    BY DEF InitErase, ram
  <1>2. Cleared
    BY <1>1 DEF SoundInv, Passage
  <1>3. sound => NoneCommitted(flash')
    <2>1. sound => NoneCommitted(flash)
      BY <1>1 DEF SoundInv, Session
    <2>2. CASE flash' = EraseOf(flash, 0)
      BY <2>1, <2>2 DEF NoneCommitted, EraseOf, Committed, Erased
    <2>3. CASE flash' \in CutErases(flash, {0})
      <3>1. flash \in [Places -> Cells]
        BY DEF SoundInv, Typing, TypeOK
      <3> QED BY <2>1, <2>3, <3>1, CutEraseFacts DEF NoneCommitted
    <2> QED BY <1>1, <2>2, <2>3
  <1>4. sound => Leads(flash')
    BY <1>2, <1>3 DEF Leads, NoneCommitted
  <1>5. Passage'
    BY <1>1, <1>2 DEF Passage, Cleared
  <1>6. sound' => Session'
    BY <1>1, <1>4, LeadsStay DEF Session
  <1>7. ~AllowWipe => sound' /\ pc' # "wipe" /\ Reached(flash)'
    BY <1>1, <1>3, NoneReached DEF SoundInv
  <1> QED BY <1>5, <1>6, <1>7 DEF SoundRest

(* A save is called.                                                       *)
LEMMA SoundSave ==
    ASSUME SoundInv, NEW v \in Values, Save(v)
    PROVE  SoundRest'
  <1>1. /\ pc = "idle" /\ unit' = "head" /\ ret' = "none"
        /\ pc' = IF offset > NSlots THEN "gc" ELSE "write"
        /\ UNCHANGED <<flash, latest, latestVer, active, offset, sound>>
    BY DEF Save
  <1>2. Passage'
    BY <1>1 DEF Passage
  <1>3. sound' => Session'
    <2>1. Leads(flash) => Leads(flash)'
      BY <1>1, LeadsStay
    <2> QED BY <1>1, <2>1 DEF SoundInv, Session, Running, Written
  <1>4. ~AllowWipe => sound' /\ pc' # "wipe" /\ Reached(flash)'
    BY <1>1 DEF SoundInv
  <1> QED BY <1>2, <1>3, <1>4 DEF SoundRest

(* A load reports what it finds.                                           *)
LEMMA SoundLoad ==
    ASSUME SoundInv, Load
    PROVE  SoundRest'
  <1>1. /\ pc = "idle" /\ pc' = pc /\ ret' = LoadResult
        /\ UNCHANGED <<flash, latest, latestVer, active, offset, sound>>
    BY DEF Load
  <1>2. ret' # "SAVED"
    BY <1>1 DEF LoadResult
  <1>3. Passage'
    BY <1>1, <1>2 DEF Passage
  <1>4. sound' => Session'
    <2>1. Leads(flash) => Leads(flash)'
      BY <1>1, LeadsStay
    <2> QED BY <1>1, <2>1 DEF SoundInv, Session, Running
  <1>5. ~AllowWipe => sound' /\ pc' # "wipe" /\ Reached(flash)'
    BY <1>1 DEF SoundInv
  <1> QED BY <1>3, <1>4, <1>5 DEF SoundRest

(* A call on a driver that is not initialized.                             *)
LEMMA SoundRefusedCall ==
    ASSUME SoundInv, RefusedCall
    PROVE  SoundRest'
  BY DEF RefusedCall, ram, SoundInv, SoundRest, Passage, Session, Running, Cleared

(* Garbage collection makes the next sector empty, or fails to.            *)
LEMMA SoundGcErase ==
    ASSUME SoundInv, Typing', GcErase
    PROVE  SoundRest'
  <1>1. /\ pc = "gc" /\ pc' \in {"gcCopy", "idle"} /\ ret' \in {ret, "GC_FAILED"}
        /\ UNCHANGED <<latest, latestVer, active, offset, unit, sound>>
        /\ \/ flash' \in {flash, EraseOf(flash, Target)}
           \/ flash' \in CutErases(flash, {Target}) /\ pc' = "idle"
        /\ pc' = "gcCopy" => flash' = EraseOf(flash, Target) \/ LooksEmpty(Target)
    BY DEF GcErase, ram
  <1>2. offset > NSlots /\ unit = "head" /\ ret # "SAVED"
    BY <1>1 DEF SoundInv, Passage
  <1>3. pc' = "gcCopy" => flash'[<<Target, 1>>].st = "erased"
    <2>1. <<Target, 1>> \in Places /\ <<Target, 1>>[1] = Target
      BY TargetType, FirstSlot, PlaceFacts DEF SoundInv, Typing, TypeOK
    <2>2. LooksEmpty(Target) => flash[<<Target, 1>>].st = "erased"
      BY GeometryAssumption DEF LooksEmpty
    <2>3. flash' = EraseOf(flash, Target) => flash'[<<Target, 1>>].st = "erased"
      BY <2>1 DEF EraseOf, Erased
    <2>4. CASE flash' = EraseOf(flash, Target)
      BY <2>3, <2>4
    <2>5. CASE flash' = flash /\ LooksEmpty(Target)
      BY <2>2, <2>5
    <2> QED BY <1>1, <2>4, <2>5
  <1>4. sound => Leads(flash')
    <2>1. CASE flash' = flash
      BY <1>1, <2>1 DEF SoundInv, Session, Running
    <2>2. CASE flash' = EraseOf(flash, Target)
      <3>1. /\ \A p \in Places : p[1] # Target => flash'[p] = flash[p]
            /\ \A p \in Places : p[1] = Target => ~Committed(flash'[p])
        BY <2>2 DEF EraseOf, Erased, Committed
      <3>2. flash' \in [Places -> Cells] /\ Typing
        BY DEF Typing, TypeOK, SoundInv
      <3>3. sound => Leads(flash)
        BY <1>1 DEF SoundInv, Session, Running
      <3> QED BY <1>2, <3>1, <3>2, <3>3, EraseLeads
    <2>3. CASE flash' \in CutErases(flash, {Target})
      <3>1. flash \in [Places -> Cells] /\ Typing
        BY DEF Typing, TypeOK, SoundInv
      <3>2. /\ flash' \in [Places -> Cells]
            /\ \A p \in Places : p[1] # Target => flash'[p] = flash[p]
            /\ \A p \in Places : Committed(flash'[p]) =>
                 Committed(flash[p]) /\ flash'[p].ver = flash[p].ver
        BY <2>3, <3>1, CutEraseFacts
      <3>3. sound => Leads(flash)
        BY <1>1 DEF SoundInv, Session, Running
      <3> QED BY <1>2, <3>1, <3>2, <3>3, EraseLeads
    <2> QED BY <1>1, <2>1, <2>2, <2>3
  <1>5. Passage'
    BY <1>1, <1>2 DEF Passage
  <1>6. sound' => Session'
    <2>1. sound => Leads(flash)'
      BY <1>1, <1>4, LeadsStay
    <2>2. Target' = Target
      BY <1>1 DEF Target
    <2>3. pc' = "gcCopy" => Copied'
      BY <1>1, <1>2, <1>3, <2>2 DEF Copied
    <2> QED BY <1>1, <2>1, <2>3 DEF Session
  <1>7. ~AllowWipe => sound' /\ pc' # "wipe" /\ Reached(flash)'
    BY <1>1, <1>4, ReachedStays DEF SoundInv
  <1> QED BY <1>5, <1>6, <1>7 DEF SoundRest

(* In a sound session there is something to copy.                          *)
LEMMA SoundGcNoCopy ==
    ASSUME SoundInv, GcNoCopy
    PROVE  SoundRest'
  <1>1. /\ pc = "gcCopy" /\ NothingToCopy /\ pc' \in {"idle", "write"}
        /\ ret' \in {ret, "BUFFER_TOO_SMALL"} /\ UNCHANGED sound
    BY DEF GcNoCopy, GcSwitch
  <1>2. ret # "SAVED" /\ offset > NSlots
    BY <1>1 DEF SoundInv, Passage
  <1>3. ~sound
    <2> SUFFICES ASSUME sound PROVE FALSE
      OBVIOUS
    <2>1. Typing /\ Leads(flash) /\ flash \in [Places -> Cells]
      BY <1>1 DEF SoundInv, Session, Running, Typing, TypeOK
    <2>2. latest # NoFrame
      BY <1>2, <2>1, FullIsUsed
    <2>3. Committed(flash[latest])
      BY <2>1, <2>2, LeadsFacts
    <2> QED BY <1>1, <2>2, <2>3 DEF NothingToCopy, Committed
  <1>4. Passage'
    BY <1>1, <1>2 DEF Passage
  <1> QED BY <1>1, <1>3, <1>4 DEF SoundInv, SoundRest

(* A wipe begins.                                                          *)
LEMMA SoundWipeStart ==
    ASSUME SoundInv, WipeStart
    PROVE  SoundRest'
  <1>1. AllowWipe /\ pc = "idle" /\ pc' = "wipe" /\ wipePos' = 0 /\ ret' = "none"
        /\ UNCHANGED <<flash, sound>>
    BY DEF WipeStart
  <1>2. \A p \in Places : ~(p[1] < 0)
    BY PlaceFacts, GeometryAssumption DEF Sectors
  <1>3. Passage'
    BY <1>1, <1>2 DEF Passage
  <1>4. sound' => Session'
    BY <1>1 DEF Session, Running
  <1> QED BY <1>1, <1>3, <1>4 DEF SoundRest

(* A wipe goes on, ends or fails.                                          *)
LEMMA SoundWipeSector ==
    ASSUME SoundInv, WipeSector
    PROVE  SoundRest'
  <1>1. pc = "wipe" /\ ret # "SAVED" /\ AllowWipe /\ wipePos \in Sectors
        /\ \A p \in Places : p[1] < wipePos => flash[p] = Erased
    BY DEF WipeSector, SoundInv, Passage, Typing, TypeOK
  <1>2. CASE flash' = EraseOf(flash, wipePos) /\ wipePos # NSectors - 1
             /\ wipePos' = wipePos + 1 /\ UNCHANGED <<latest, latestVer, active, offset, pc, ret, sound>>
    <2>1. \A p \in Places : p[1] < wipePos' => flash'[p] = Erased
      <3>1. \A p \in Places : p[1] < wipePos' => p[1] < wipePos \/ p[1] = wipePos
        BY <1>1, <1>2, PlaceFacts, GeometryAssumption DEF Sectors
      <3> QED BY <1>1, <1>2, <3>1 DEF EraseOf
    <2>2. Passage'
      BY <1>1, <1>2, <2>1 DEF Passage
    <2>3. sound' => Session'
      BY <1>1, <1>2 DEF Session, Running
    <2> QED BY <1>1, <2>2, <2>3 DEF SoundRest
  <1>3. CASE flash' = EraseOf(flash, wipePos) /\ wipePos = NSectors - 1 /\ Cleared'
             /\ pc' = "idle" /\ ret' = "WIPED"
    <2>1. \A p \in Places : flash'[p] = Erased
      <3>1. \A p \in Places : p[1] < wipePos \/ p[1] = wipePos
        BY <1>1, <1>3, PlaceFacts, GeometryAssumption DEF Sectors
      <3> QED BY <1>1, <1>3, <3>1 DEF EraseOf
    <2>2. \A p \in Places : ~Committed(flash'[p])
      BY <2>1 DEF Committed, Erased
    <2>3. Leads(flash)'
      BY <1>3, <2>2 DEF Leads
    <2>4. Passage'
      BY <1>3 DEF Passage
    <2>5. Session'
      BY <1>3, <2>3 DEF Session
    <2> QED BY <1>1, <2>4, <2>5 DEF SoundRest
  <1>4. CASE pc' = "idle" /\ ret' = "FLASH_ERASE" /\ sound' = FALSE
    BY <1>1, <1>4 DEF SoundRest, Passage
  <1> QED BY <1>2, <1>3, <1>4 DEF WipeSector, Cleared

(* A unit of the copy: written, refused, or half written by a driver that  *)
(* fails.                                                                  *)
LEMMA SoundGcCopyUnit ==
    ASSUME SoundInv, Typing', GcCopyUnit
    PROVE  SoundRest'
  <1> DEFINE t == <<Target, 1>>
             f == flash[latest]
  <1>1. /\ pc = "gcCopy" /\ pc' \in {"gcCopy", "idle", "write"}
        /\ ret' \in {ret, "BUFFER_TOO_SMALL", "GC_FAILED"}
        /\ UNCHANGED <<latestVer, kv, wipePos, sound>>
    BY DEF GcCopyUnit, GcSwitch
  <1>2. PICK c \in Interrupted(flash[t], f, unit) : flash' = [flash EXCEPT ![t] = c]
    <2>1. CASE Accepts(flash[t], f, unit) /\ flash' = [flash EXCEPT ![t] = Programmed(@, f, unit)]
      <3>1. Programmed(flash[t], f, unit) \in Interrupted(flash[t], f, unit)
        BY <2>1 DEF Interrupted
      <3> QED BY <2>1, <3>1
    <2>2. CASE ~Accepts(flash[t], f, unit) /\ flash' = [flash EXCEPT ![t] = Spoiled(@, unit)]
      <3>1. Spoiled(flash[t], unit) \in Interrupted(flash[t], f, unit)
        BY <2>2 DEF Interrupted
      <3> QED BY <2>2, <3>1
    <2>3. CASE \E c \in Interrupted(flash[t], f, unit) : flash' = [flash EXCEPT ![t] = c]
      BY <2>3
    <2> QED BY <2>1, <2>2, <2>3, Zenon DEF GcCopyUnit
  <1>3. ret # "SAVED" /\ offset > NSlots /\ Typing /\ Passage
    BY <1>1 DEF SoundInv, Passage
  <1>4. sound => Session
    BY DEF SoundInv
  <1>5. ASSUME sound
        PROVE  /\ Leads(flash') /\ flash'[t] = c /\ t \in Places /\ flash[t] \in Cells
               /\ Target \in Sectors /\ f \in Cells /\ Committed(f) /\ f.ver = latestVer
               /\ unit \in Units /\ flash' \in [Places -> Cells]
    <2>1. unit \in Units
      BY DEF SoundInv, Typing, TypeOK
    <2> QED BY <1>1, <1>2, <1>3, <1>4, <1>5, <2>1, CopyLeads
  <1>6. CASE pc' = "idle" /\ UNCHANGED <<latest, active, offset>>
    <2>1. Passage'
      BY <1>1, <1>3, <1>6 DEF Passage
    <2>2. sound' => Session'
      BY <1>1, <1>5, <1>6, LeadsStay DEF Session
    <2>3. ~AllowWipe => sound' /\ pc' # "wipe" /\ Reached(flash)'
      BY <1>1, <1>5, <1>6, ReachedStays DEF SoundInv
    <2> QED BY <2>1, <2>2, <2>3 DEF SoundRest
  <1>7. ASSUME Accepts(flash[t], f, unit), flash' = [flash EXCEPT ![t] = Programmed(@, f, unit)],
               unit' = NextUnit[unit], unit # "commit",
               UNCHANGED <<latest, active, offset, pc, ret>>
        PROVE  SoundRest'
    <2>1. Passage'
      BY <1>1, <1>3, <1>7 DEF Passage
    <2>2. ASSUME sound
          PROVE  Copied'
      <3>1. flash'[t] = Programmed(flash[t], f, unit) /\ flash[t] \in Cells /\ unit \in {"head", "body"}
        BY <1>5, <1>7, <2>2 DEF Units
      <3>2. Target' = Target /\ Copied
        BY <1>1, <1>4, <1>7, <2>2 DEF Target, Session
      <3>3. CASE unit = "head"
        <4>1. flash'[t].st = "head" /\ flash'[t].ver = latestVer /\ unit' = "body"
          BY <1>5, <1>7, <2>2, <3>1, <3>2, <3>3 DEF Programmed, Copied, NextUnit
        <4> QED BY <1>1, <3>2, <4>1 DEF Copied
      <3>4. CASE unit = "body"
        <4>1. flash'[t].st = "body" /\ flash'[t].ver = latestVer /\ unit' = "commit"
          BY <1>5, <1>7, <2>2, <3>1, <3>2, <3>4 DEF Programmed, Copied, NextUnit, Cells
        <4> QED BY <1>1, <3>2, <4>1 DEF Copied
      <3> QED BY <3>1, <3>3, <3>4
    <2>3. sound' => Session'
      BY <1>1, <1>5, <1>7, <2>2, LeadsStay DEF Session
    <2>4. ~AllowWipe => sound' /\ pc' # "wipe" /\ Reached(flash)'
      BY <1>1, <1>3, <1>5, <1>7, ReachedStays DEF SoundInv
    <2> QED BY <2>1, <2>3, <2>4 DEF SoundRest
  <1>8. ASSUME Accepts(flash[t], f, unit), flash' = [flash EXCEPT ![t] = Programmed(@, f, unit)],
               unit' = NextUnit[unit], unit = "commit", latest' = t, GcSwitch(2)
        PROVE  SoundRest'
    <2>1. active' = Target /\ offset' = 2 /\ pc' \in {"idle", "write"} /\ unit' = "head"
      BY <1>8 DEF GcSwitch, NextUnit
    <2>2. Passage'
      BY <1>1, <1>3, <2>1 DEF Passage
    <2>3. ASSUME sound
          PROVE  Leads(flash)'
      <3>1. flash'[t] = [flash[t] EXCEPT !.st = f.st] /\ flash[t].ver = latestVer
        BY <1>1, <1>4, <1>5, <1>8, <2>3 DEF Programmed, Session, Copied
      <3>2. Committed(flash'[t]) /\ flash'[t].ver = latestVer
        BY <1>5, <2>3, <3>1 DEF Committed, Cells
      <3>3. t \in Places /\ t[1] = Target /\ t[2] = 1
        BY <1>5, <2>3
      <3>4. t \in Visible(flash')
        <4> HIDE DEF t
        <4> QED BY <3>2, <3>3, HeadVisible
      <3>5. NextSlot \notin Places
        BY <1>1, <1>3, <1>4, <2>3, FullIsUsed DEF Session, Running
      <3>6. \A p \in Places : Committed(flash'[p]) => flash'[p].ver <= latestVer
        BY <1>5, <2>3, <3>5 DEF Leads
      <3>7. latest' # NoFrame
        BY <1>8, <3>3, Geometry
      <3>8. latestVer \in Nat /\ \A p \in Places : flash'[p].ver \in Nat
        BY <1>3, <1>5, <2>3 DEF Typing, TypeOK, Cells
      <3>9. \A p \in Places : Committed(flash'[p]) =>
              flash'[p].ver <= latestVer' /\ flash'[p].ver <= latestVer' + 1
        BY <1>1, <3>6, <3>8
      <3>10. latest' \in Visible(flash)' /\ flash'[latest'].ver = latestVer' /\ active' = latest'[1]
            /\ offset' = latest'[2] + 1
        BY <1>1, <1>8, <2>1, <3>2, <3>3, <3>4
      <3> QED BY <3>7, <3>9, <3>10 DEF Leads
    <2>4. sound' => Session'
      BY <1>1, <2>1, <2>3 DEF Session, Written
    <2>5. ~AllowWipe => sound' /\ pc' # "wipe" /\ Reached(flash)'
      BY <1>1, <1>3, <1>5, ReachedStays DEF SoundInv
    <2> QED BY <2>2, <2>4, <2>5 DEF SoundRest
  <1> HIDE DEF t, f
  <1> QED BY <1>6, <1>7, <1>8 DEF GcCopyUnit, t, f

(* A unit of the new frame, the same; the commit makes it the remembered   *)
(* one.                                                                    *)
LEMMA SoundWriteUnit ==
    ASSUME SoundInv, Typing', WriteUnit
    PROVE  SoundRest'
  <1> DEFINE t == NextSlot
  <1>1. /\ pc = "write" /\ pc' \in {"idle", "write"} /\ UNCHANGED <<active, kv, wipePos, sound>>
    BY DEF WriteUnit
  <1>2. PICK c \in Interrupted(flash[t], NewFrame, unit) : flash' = [flash EXCEPT ![t] = c]
    <2>1. CASE Accepts(flash[t], NewFrame, unit)
               /\ flash' = [flash EXCEPT ![t] = Programmed(@, NewFrame, unit)]
      <3>1. Programmed(flash[t], NewFrame, unit) \in Interrupted(flash[t], NewFrame, unit)
        BY <2>1 DEF Interrupted
      <3> QED BY <2>1, <3>1
    <2>2. CASE ~Accepts(flash[t], NewFrame, unit) /\ flash' = [flash EXCEPT ![t] = Spoiled(@, unit)]
      <3>1. Spoiled(flash[t], unit) \in Interrupted(flash[t], NewFrame, unit)
        BY <2>2 DEF Interrupted
      <3> QED BY <2>2, <3>1
    <2>3. CASE \E c \in Interrupted(flash[t], NewFrame, unit) : flash' = [flash EXCEPT ![t] = c]
      BY <2>3
    <2> QED BY <2>1, <2>2, <2>3, Zenon DEF WriteUnit, NextSlot
  <1>3. ret # "SAVED" /\ Typing /\ Passage
    BY <1>1 DEF SoundInv, Passage
  <1>4. sound => Session
    BY DEF SoundInv
  <1>5. ASSUME sound
        PROVE  /\ Leads(flash') /\ flash'[t] = c /\ t \in Places /\ flash[t] \in Cells
               /\ unit \in Units /\ NewFrame \in Cells /\ flash' \in [Places -> Cells]
    <2>1. unit \in Units
      BY DEF SoundInv, Typing, TypeOK
    <2> QED BY <1>1, <1>2, <1>3, <1>4, <1>5, <2>1, WriteLeads
  <1>6. CASE pc' = "idle" /\ ret' = "FLASH_WRITE" /\ UNCHANGED <<latest, latestVer, offset>>
    <2>1. Passage'
      BY <1>1, <1>3, <1>6 DEF Passage
    <2>2. sound' => Session'
      BY <1>1, <1>5, <1>6, LeadsStay DEF Session
    <2>3. ~AllowWipe => sound' /\ pc' # "wipe" /\ Reached(flash)'
      BY <1>1, <1>3, <1>5, <1>6, ReachedStays DEF SoundInv
    <2> QED BY <2>1, <2>2, <2>3 DEF SoundRest
  <1>7. ASSUME Accepts(flash[t], NewFrame, unit),
               flash' = [flash EXCEPT ![t] = Programmed(@, NewFrame, unit)],
               unit' = NextUnit[unit], unit # "commit",
               UNCHANGED <<latest, latestVer, offset, pc, ret>>
        PROVE  SoundRest'
    <2>1. Passage'
      BY <1>1, <1>3, <1>7 DEF Passage
    <2>2. ASSUME sound
          PROVE  Written'
      <3>1. /\ flash'[t] = Programmed(flash[t], NewFrame, unit) /\ flash[t] \in Cells
            /\ unit \in {"head", "body"} /\ NewFrame \in Cells
        BY <1>5, <1>7, <2>2 DEF Units
      <3>2. NextSlot' = NextSlot /\ Written /\ NewFrame.ver = latestVer + 1 /\ NewFrame.val = kv
        BY <1>1, <1>4, <1>7, <2>2 DEF NextSlot, Session, NewFrame
      <3>3. CASE unit = "head"
        <4>1. /\ flash'[t].st \in {"head", "body", "full", "bad"}
              /\ flash'[t].ver = latestVer + 1 /\ unit' = "body"
          BY <1>7, <3>1, <3>2, <3>3 DEF Programmed, Accepts, NextUnit, Cells, Stages
        <4> QED BY <1>1, <1>7, <3>2, <4>1 DEF Written
      <3>4. CASE unit = "body"
        <4>1. /\ flash'[t].st \in {"body", "full"} /\ flash'[t].val = kv
              /\ flash'[t].ver = latestVer + 1 /\ unit' = "commit"
          <5>1. /\ flash[t].st = "head" \/ (flash[t].st \in {"body", "full"} /\ flash[t].val = kv)
                /\ flash[t].ver = latestVer + 1
            BY <1>1, <1>7, <3>2, <3>4 DEF Accepts, Written
          <5>2. flash'[t] = IF flash[t].st = "head"
                              THEN [flash[t] EXCEPT !.st = "body", !.val = kv] ELSE flash[t]
            BY <3>1, <3>2, <3>4 DEF Programmed
          <5>3. unit' = "commit"
            BY <1>7, <3>4 DEF NextUnit
          <5> QED BY <3>1, <5>1, <5>2, <5>3 DEF Cells
        <4> QED BY <1>1, <1>7, <3>2, <4>1 DEF Written
      <3> QED BY <3>1, <3>3, <3>4
    <2>3. sound' => Session'
      BY <1>1, <1>5, <1>7, <2>2, LeadsStay DEF Session
    <2>4. ~AllowWipe => sound' /\ pc' # "wipe" /\ Reached(flash)'
      BY <1>1, <1>3, <1>5, <1>7, ReachedStays DEF SoundInv
    <2> QED BY <2>1, <2>3, <2>4 DEF SoundRest
  <1>8. ASSUME Accepts(flash[t], NewFrame, unit),
               flash' = [flash EXCEPT ![t] = Programmed(@, NewFrame, unit)], unit = "commit",
               latest' = t, latestVer' = latestVer + 1, offset' = offset + 1,
               pc' = "idle", ret' = "SAVED"
        PROVE  SoundRest'
    <2>1. ASSUME sound
          PROVE  Leads(flash)' /\ Recovered' = kv'
      <3>1. /\ flash'[t] = [flash[t] EXCEPT !.st = "full"]
            /\ flash[t].ver = latestVer + 1 /\ flash[t].val = kv
        BY <1>1, <1>4, <1>5, <1>8, <2>1 DEF Programmed, NewFrame, Session, Written
      <3>2. flash'[t].st = "full" /\ flash'[t].ver = latestVer + 1 /\ flash'[t].val = kv
        BY <1>5, <2>1, <3>1 DEF Cells
      <3>3. t \in Places /\ t[1] = active /\ t[2] = offset /\ Committed(flash'[t])
        BY <1>5, <2>1, <3>2 DEF NextSlot, Committed
      <3>4. t \in Visible(flash')
        BY <1>3, <1>5, <2>1, <3>3, NextIsVisible
      <3>5. latestVer \in Nat /\ \A p \in Places : flash'[p].ver \in Nat
        BY <1>3, <1>5, <2>1 DEF Typing, TypeOK, Cells
      <3>6. \A p \in Places : Committed(flash'[p]) =>
              /\ p # t => flash'[p].ver <= latestVer
              /\ flash'[p].ver <= latestVer + 1 /\ flash'[p].ver <= latestVer + 1 + 1
        BY <1>5, <2>1, <3>5 DEF Leads
      <3>7. \A q \in Visible(flash') : q # t => flash'[q].ver < flash'[t].ver
        BY <3>2, <3>5, <3>6 DEF Visible
      <3>8. latest' # NoFrame
        BY <1>8, <3>3, Geometry
      <3>9. Leads(flash)'
        <4>1. latest' \in Visible(flash)' /\ flash'[latest'].ver = latestVer' /\ active' = latest'[1]
              /\ offset' = latest'[2] + 1
          BY <1>1, <1>8, <3>2, <3>3, <3>4
        <4>2. \A p \in Places : Committed(flash'[p]) =>
                 flash'[p].ver <= latestVer' /\ flash'[p].ver <= latestVer' + 1
          BY <1>8, <3>6
        <4> QED BY <3>8, <4>1, <4>2 DEF Leads
      <3>10. PICK w : w = t
        OBVIOUS
      <3>11. (CHOOSE p \in Places : IsLatest(flash', p)) = w
        <4>1. w \in Visible(flash') /\ (\A q \in Visible(flash') : q # w => flash'[q].ver < flash'[w].ver)
          BY <3>4, <3>7, <3>10
        <4> QED BY <1>5, <2>1, <4>1, OutranksAll
      <3>12. Recovered' = flash'[w].val
        BY <3>2, <3>4, <3>10, <3>11 DEF Recovered
      <3> QED BY <1>1, <3>2, <3>9, <3>10, <3>12
    <2>2. Passage'
      BY <1>1, <1>8, <2>1 DEF Passage, SavedWhileSound, SavedIsRecovered
    <2>3. sound' => Session'
      BY <1>1, <1>8, <2>1 DEF Session
    <2>4. ~AllowWipe => sound' /\ pc' # "wipe" /\ Reached(flash)'
      BY <1>1, <1>3, <1>5, ReachedStays DEF SoundInv
    <2> QED BY <2>2, <2>3, <2>4 DEF SoundRest
  <1> QED BY <1>6, <1>7, <1>8 DEF WriteUnit, NextSlot

(* Power fails: only in a wipe may the newest frame end up out of reach.   *)
LEMMA SoundPowerFail ==
    ASSUME SoundInv, Typing', PowerFail
    PROVE  SoundRest'
  <1>1. /\ pc # "off" /\ pc' = "off" /\ ret' = "none" /\ RamCleared /\ sound' = sound
        /\ TornWrite \/ TornCopy \/ TornErase \/ NothingTorn
    BY DEF PowerFail
  <1>2. Passage'
    BY <1>1 DEF Passage, RamCleared, Cleared
  <1>3. Session'
    BY <1>1 DEF Session, Running
  <1>4. ASSUME ~AllowWipe
        PROVE  Reached(flash)'
    <2>1. Typing /\ Passage /\ Session /\ sound /\ pc # "wipe" /\ Reached(flash)
      BY <1>4 DEF SoundInv
    <2>2. flash \in [Places -> Cells] /\ flash' \in [Places -> Cells]
      BY <2>1 DEF Typing, TypeOK
    <2>3. CASE TornWrite
      <3>1. PICK c \in Interrupted(flash[NextSlot], NewFrame, unit) :
              pc = "write" /\ flash' = [flash EXCEPT ![NextSlot] = c]
        BY <2>3 DEF TornWrite, NextSlot
      <3>2. PICK gl : gl = flash'
        OBVIOUS
      <3>3. gl = [flash EXCEPT ![NextSlot] = c]
        BY <3>1, <3>2
      <3>4. Leads(gl) /\ gl \in [Places -> Cells]
        BY <2>1, <3>1, <3>3, WriteLeads
      <3>5. Reached(gl)
        BY <2>1, <3>4, LeadsReach
      <3> QED BY <3>2, <3>5 DEF Reached, Visible
    <2>4. CASE TornCopy
      <3>1. PICK c \in Interrupted(flash[<<Target, 1>>], flash[latest], unit) :
              pc = "gcCopy" /\ flash' = [flash EXCEPT ![<<Target, 1>>] = c]
        BY <2>4 DEF TornCopy, Copying
      <3>2. PICK gl : gl = flash'
        OBVIOUS
      <3>3. gl = [flash EXCEPT ![<<Target, 1>>] = c]
        BY <3>1, <3>2
      <3>4. Leads(gl) /\ gl \in [Places -> Cells]
        BY <2>1, <3>1, <3>3, CopyLeads
      <3>5. Reached(gl)
        BY <2>1, <3>4, LeadsReach
      <3> QED BY <3>2, <3>5 DEF Reached, Visible
    <2>5. CASE TornErase
      <3>1. flash' \in CutErases(flash, Erasing) /\ Erasing # {}
        BY <2>5 DEF TornErase
      <3>2. Erasing # {}
        BY <3>1
      <3>3. PICK gl : gl = flash'
        OBVIOUS
      <3>4. \A p \in Places : p[1] \notin Erasing => gl[p] = flash[p]
        BY <2>2, <3>1, <3>3, CutEraseFacts
      <3>5. \A p \in Places : Committed(gl[p]) => Committed(flash[p]) /\ gl[p].ver = flash[p].ver
        BY <2>2, <3>1, <3>3, CutEraseFacts
      <3>6. CASE pc = "initErase"
        <4>1. NoneCommitted(gl)
          BY <2>1, <3>5, <3>6 DEF Session, NoneCommitted
        <4>2. Reached(gl)
          BY <4>1, NoneReached
        <4> QED BY <3>3, <4>2 DEF Reached, Visible
      <3>7. CASE pc = "gc"
        <4>1. Leads(flash) /\ offset > NSlots
          BY <2>1, <3>7 DEF Passage, Session, Running
        <4>2. Erasing = {Target}
          BY <3>2, <3>7 DEF Erasing
        <4>3. gl \in [Places -> Cells]
          BY <2>2, <3>3
        <4>4. Leads(gl)
          BY <2>1, <3>4, <3>5, <4>1, <4>2, <4>3, EraseLeads
        <4>5. Reached(gl)
          BY <2>1, <4>3, <4>4, LeadsReach
        <4> QED BY <3>3, <4>5 DEF Reached, Visible
      <3> QED BY <2>1, <3>2, <3>6, <3>7 DEF Erasing
    <2>6. CASE NothingTorn
      BY <2>1, <2>6 DEF NothingTorn, Reached, Visible
    <2> QED BY <1>1, <2>3, <2>4, <2>5, <2>6
  <1> QED BY <1>1, <1>2, <1>3, <1>4 DEF SoundRest, SoundInv

(* Every step keeps the invariant.                                         *)
LEMMA SoundNext == SoundInv /\ [Next]_vars => SoundInv'
  <1> SUFFICES ASSUME SoundInv, [Next]_vars
               PROVE  SoundInv'
    OBVIOUS
  <1>1. Typing /\ Typing'
    BY TypingStep DEF SoundInv
  <1>2. SoundRest'
    <2>1. CASE UNCHANGED vars
      BY <2>1 DEF vars, SoundInv, SoundRest, Passage, Session, Running, Cleared, Leads, NextSlot,
                  Copied, Written, Reached, NoneCommitted, Visible, Target, SavedWhileSound,
                  SavedIsRecovered, Recovered
    <2>2. CASE BootFound
      BY <2>2, SoundBootFound
    <2>3. CASE BootFirstUse
      BY <2>3, SoundBootFirstUse
    <2>4. CASE InitErase
      BY <2>4, SoundInitErase
    <2>5. ASSUME NEW v \in Values, Save(v)
          PROVE  SoundRest'
      BY <2>5, SoundSave
    <2>6. CASE RefusedCall
      BY <2>6, SoundRefusedCall
    <2>7. CASE GcErase
      BY <1>1, <2>7, SoundGcErase
    <2>8. CASE GcNoCopy
      BY <2>8, SoundGcNoCopy
    <2>9. CASE GcCopyUnit
      BY <1>1, <2>9, SoundGcCopyUnit
    <2>10. CASE WriteUnit
      BY <1>1, <2>10, SoundWriteUnit
    <2>11. CASE Load
      BY <2>11, SoundLoad
    <2>12. CASE WipeStart
      BY <2>12, SoundWipeStart
    <2>13. CASE WipeSector
      BY <2>13, SoundWipeSector
    <2>14. CASE PowerFail
      BY <1>1, <2>14, SoundPowerFail
    <2> QED
      BY <2>1, <2>2, <2>3, <2>4, <2>5, <2>6, <2>7, <2>8, <2>9, <2>10, <2>11, <2>12, <2>13, <2>14
      DEF Next
  <1> QED BY <1>1, <1>2 DEF SoundInv, SoundRest

(* The invariant of Part 3, with nothing assumed about the geometry beyond  *)
(* what the driver itself asks for: flash faults, wipes and power failures  *)
(* in any order are allowed.                                               *)
THEOREM SoundInvariant == Spec => []SoundInv
  BY SoundInitInv, SoundNext, PTL DEF Spec

(* What the invariant says of saves.                                       *)
LEMMA SoundInvSaved == SoundInv => SavedWhileSound /\ (~AllowWipe => sound)
  BY DEF SoundInv, Passage, SavedWhileSound, SavedIsRecovered

(* ring_storage_save: whenever it has answered OK, a restart at that moment *)
(* would load exactly what was saved, unless since the last completed scan  *)
(* or wipe a wipe has failed, or that scan had missed a newer frame, which  *)
(* only a wipe cut by a power failure can leave: for any geometry, flash,   *)
(* sampling of the emptiness probe, faults, wipes and power failures.       *)
THEOREM SavedInSoundSession == Spec => []SavedWhileSound
  BY SoundInvariant, SoundInvSaved, PTL

(* Every session of a firmware that never calls ring_storage_wipe is sound, *)
(* whatever the flash driver reports and whenever the power fails, and so   *)
(* every answered save is found again.                                      *)
THEOREM SavedIsAlwaysFound == ~AllowWipe => (Spec => [](sound /\ SavedIsRecovered))
  <1> SUFFICES ASSUME ~AllowWipe PROVE Spec => [](sound /\ SavedIsRecovered)
    OBVIOUS
  <1>1. SoundInv => sound /\ SavedIsRecovered
    BY SoundInvSaved DEF SavedWhileSound
  <1> QED BY <1>1, SoundInvariant, PTL

-----------------------------------------------------------------------------
(* Part 4: the refinement.  What a scan finds.                             *)

(* Among any places there is one that is scanned first. *)
LEMMA FirstScanned ==
    ASSUME NEW S, S \subseteq Places, S # {}
    PROVE  \E p \in S : \A q \in S : q = p \/ ScannedBefore(p, q)
  <1> DEFINE R == OpToRel(<, Nat)
             Lex == LexPairOrdering(R, R, Nat, Nat)
  <1>1. IsWellFoundedOn(Lex, Nat \X Nat)
    BY NatLessThanWellFounded, WFLexPairOrdering
  <1>2. S \subseteq Nat \X Nat
    BY GeometryAssumption DEF Places, Sectors, Slots
  <1>3. PICK p \in S : \A q \in S : ~(<<q, p>> \in Lex)
    <2> HIDE DEF Lex
    <2> QED
      BY <1>1, <1>2, WFMin
  <1>4. ASSUME NEW q \in S
        PROVE  q = p \/ ScannedBefore(p, q)
    <2>1. ~(q[1] < p[1]) /\ ~(q[1] = p[1] /\ q[2] < p[2])
      <3>1. \A a, b \in Nat : a < b => <<a, b>> \in R
        BY DEF OpToRel
      <3>2. p \in Nat \X Nat /\ q \in Nat \X Nat
        BY <1>2
      <3> HIDE DEF R
      <3>3. ~(<<q[1], p[1]>> \in R) /\ ~(q[1] = p[1] /\ <<q[2], p[2]>> \in R)
        BY <1>3, <3>2 DEF LexPairOrdering
      <3> QED
        BY <3>1, <3>2, <3>3
    <2> QED
      BY <2>1, <1>2, PlaceFacts DEF ScannedBefore
  <1> QED
    BY <1>4

(* Frames of one version hold one value. *)
ValuesAgree(fl) ==
    \A p, q \in Places :
        Committed(fl[p]) /\ Committed(fl[q]) /\ fl[p].ver = fl[q].ver => fl[p].val = fl[q].val

(* What Recovered is, of any flash. *)
ValueIn(fl) ==
    IF Visible(fl) = {} THEN NoValue
    ELSE LET c == fl[CHOOSE p \in Places : IsLatest(fl, p)]
         IN  IF c.st = "full" THEN c.val ELSE NoValue

(* The scan ends at a frame as new as the newest, so with its value. *)
LEMMA NewestIsFound ==
    ASSUME NEW fl \in [Places -> Cells], ValuesAgree(fl), NEW L \in Places, Newest(fl, L)
    PROVE  ValueIn(fl) = fl[L].val
  <1> DEFINE S == {p \in Visible(fl) : fl[p].ver = fl[L].ver}
  <1>1. L \in S /\ S \subseteq Places
    BY DEF Newest, Visible
  <1>2. PICK p \in S : \A q \in S : q = p \/ ScannedBefore(p, q)
    <2> HIDE DEF S
    <2> QED
      BY <1>1, FirstScanned
  <1>3. p \in Places /\ p \in Visible(fl) /\ fl[p].ver = fl[L].ver
    BY <1>1, <1>2
  <1>4. \A q \in Visible(fl) : fl[q].ver \in Nat /\ fl[q].ver <= fl[L].ver
    BY DEF Newest, Visible, Cells
  <1>5. IsLatest(fl, p)
    BY <1>2, <1>3, <1>4 DEF IsLatest, Cells
  <1>6. PICK l \in Places : l = (CHOOSE q \in Places : IsLatest(fl, q)) /\ IsLatest(fl, l)
    BY <1>3, <1>5
  <1>7. Newest(fl, l)
    BY <1>6, LatestIsNewest
  <1>8. fl[l].ver = fl[L].ver
    <2>1. fl[l].ver \in Nat /\ fl[l].ver <= fl[L].ver /\ fl[p].ver \in Nat
      BY <1>3, <1>4, <1>6 DEF IsLatest
    <2>2. fl[p].ver < fl[l].ver \/ fl[p].ver = fl[l].ver
      BY <1>3, <1>6, Zenon DEF IsLatest
    <2> QED
      BY <1>3, <2>1, <2>2
  <1>9. fl[l].val = fl[L].val
    BY <1>7, <1>8 DEF ValuesAgree, Newest, Visible
  <1> QED
    BY <1>6, <1>7, <1>9, NoneVisible DEF ValueIn, Newest

LEMMA NothingIsFound ==
    ASSUME NEW fl, NoneCommitted(fl)
    PROVE  ValueIn(fl) = NoValue
  BY NoneVisible DEF ValueIn

LEMMA RecoveredIs == Recovered = ValueIn(flash)
  BY DEF Recovered, ValueIn
-----------------------------------------------------------------------------
(* Frames of one version go on holding one value.                           *)

Saving == pc \in {"gc", "gcCopy", "write"}

(* What the refinement needs besides the invariant of the log.              *)
RefInv ==
    /\ Typing
    /\ LogInv
    /\ ValuesAgree(flash)
    /\ Saving => kv \in Values /\ ret # "SAVED"
    /\ SavedIsRecovered

(* What is stored now.                                                      *)
LEMMA StoredValue ==
    ASSUME RefInv
    PROVE  /\ InUse => ValueIn(flash) = flash[latest].val
           /\ Unused => ValueIn(flash) = NoValue
  <1>1. flash \in [Places -> Cells] /\ ValuesAgree(flash)
    BY DEF RefInv, Typing, TypeOK
  <1>2. InUse => ValueIn(flash) = flash[latest].val
    BY <1>1, NewestIsFound DEF InUse
  <1>3. Unused => ValueIn(flash) = NoValue
    BY NothingIsFound DEF Unused
  <1> QED
    BY <1>2, <1>3

(* Losing frames, or writing one that is as new as no other, or that agrees *)
(* with the newest one.                                                     *)
LEMMA FewerAgree ==
    ASSUME NEW fl, NEW gl, ValuesAgree(fl),
           \A p \in Places : Committed(gl[p]) =>
                /\ Committed(fl[p])
                /\ gl[p].ver = fl[p].ver /\ gl[p].val = fl[p].val
    PROVE  ValuesAgree(gl)
  BY DEF ValuesAgree

LEMMA OneMoreAgrees ==
    ASSUME NEW fl, NEW gl, ValuesAgree(fl), NEW w \in Places,
           \A p \in Places : p # w => gl[p] = fl[p],
           Committed(gl[w]) =>
                \A p \in Places : p # w /\ Committed(fl[p]) /\ fl[p].ver = gl[w].ver
                                   => fl[p].val = gl[w].val
    PROVE  ValuesAgree(gl)
  <1>1. SUFFICES ASSUME NEW p \in Places, NEW q \in Places,
                        Committed(gl[p]), Committed(gl[q]), gl[p].ver = gl[q].ver
                 PROVE  gl[p].val = gl[q].val
    BY DEF ValuesAgree
  <1>2. CASE p # w /\ q # w
    BY <1>1, <1>2 DEF ValuesAgree
  <1>3. CASE p = w /\ q # w
    BY <1>1, <1>3
  <1>4. CASE p # w /\ q = w
    BY <1>1, <1>4
  <1> QED
    BY <1>2, <1>3, <1>4

(* The copy, complete or torn: frames agree, and the same value is found.   *)
LEMMA CopyKeepsValue ==
    ASSUME Conditions, RefInv, pc = "gcCopy",
           NEW c \in Interrupted(flash[<<Target, 1>>], flash[latest], unit), NEW gl,
           gl = [flash EXCEPT ![<<Target, 1>>] = c]
    PROVE  ValuesAgree(gl) /\ ValueIn(gl) = ValueIn(flash)
  <1> DEFINE w == <<Target, 1>>
             d == flash[w]
             f == flash[latest]
  <1>1. CopyProgress /\ InUse
    BY DEF RefInv, LogInv, CopyProgress
  <1>2. /\ Target \in Sectors /\ w \in Places
        /\ unit \in Units /\ flash \in [Places -> Cells] /\ d \in Cells
    BY <1>1, InUseFacts, TargetElsewhere, FirstSlot, PlaceFacts DEF RefInv, Typing, TypeOK
  <1>3. f \in Cells /\ f.st = "full" /\ f.ver = latestVer /\ latest \in Places /\ Committed(f)
    BY <1>1, InUseFacts DEF RefInv, Committed
  <1>4. /\ CopiesOnly(gl)
        /\ Committed(c) => /\ unit = "commit" /\ Newest(gl, w)
                           /\ c.ver = latestVer /\ c.st = "full"
        /\ ~Committed(c) => /\ Newest(gl, latest) /\ gl[latest] = flash[latest]
                            /\ \A p \in Places : Committed(gl[p]) => gl[p] = flash[p]
    BY CopyOutcome DEF RefInv
  <1>5. Committed(c) => c.val = f.val
    <2>1. SUFFICES ASSUME Committed(c) PROVE c.val = f.val
      OBVIOUS
    <2>2. unit = "commit" /\ d.st = "body" /\ d.val = f.val
      BY <1>1, <1>4, <2>1 DEF CopyProgress
    <2>3. c = d \/ c = [d EXCEPT !.st = f.st]
      BY <1>2, <1>3, <2>1, <2>2, InterruptedCommit DEF Committed
    <2> QED
      BY <1>2, <2>2, <2>3 DEF Cells
  <1>6. gl[w] = c /\ (\A p \in Places : p # w => gl[p] = flash[p]) /\ gl \in [Places -> Cells]
    BY <1>2, <1>3, InterruptedType
  <1>7. ValuesAgree(gl)
    <2>1. Committed(gl[w]) =>
             \A p \in Places : p # w /\ Committed(flash[p]) /\ flash[p].ver = gl[w].ver
                               => flash[p].val = gl[w].val
      BY <1>3, <1>4, <1>5, <1>6 DEF RefInv, ValuesAgree
    <2>2. w \in Places /\ ValuesAgree(flash) /\ gl[w] = c
      BY <1>2, <1>6 DEF RefInv
    <2>3. \A p \in Places : p # w => gl[p] = flash[p]
      BY <1>6
    <2> HIDE DEF w
    <2> QED
      BY <2>1, <2>2, <2>3, OneMoreAgrees, Zenon
  <1>8. ValueIn(flash) = f.val
    BY <1>1, StoredValue
  <1>9. CASE Committed(c)
    <2> HIDE DEF w
    <2>1. ValueIn(gl) = gl[w].val
      BY <1>2, <1>4, <1>6, <1>7, <1>9, NewestIsFound
    <2> QED
      BY <1>5, <1>6, <1>7, <1>8, <1>9, <2>1
  <1>10. CASE ~Committed(c)
    <2>1. ValueIn(gl) = gl[latest].val
      BY <1>3, <1>4, <1>6, <1>7, <1>10, NewestIsFound
    <2> QED
      BY <1>4, <1>7, <1>8, <1>10, <2>1
  <1> QED
    BY <1>7, <1>9, <1>10

(* One more unit of a new frame: the old value is found or the new one, the *)
(* new one exactly when the frame is committed.                             *)
LEMMA WriteReplaces ==
    ASSUME Conditions, RefInv, pc = "write",
           NEW w \in Places, w = <<active, offset>>,
           NEW c \in Interrupted(flash[w], NewFrame, unit), NEW gl,
           gl = [flash EXCEPT ![w] = c]
    PROVE  /\ ValuesAgree(gl)
           /\ Committed(c) /\ c # flash[w] => ValueIn(gl) = kv
           /\ ~Committed(c) \/ c = flash[w] => ValueIn(gl) = ValueIn(flash)
  <1> DEFINE d == flash[w]
  <1>1. WriteProgress /\ (Unused \/ InUse) /\ Typing /\ LogInv /\ ValuesAgree(flash)
    BY DEF RefInv, LogInv, Running
  <1>2. unit \in Units /\ flash \in [Places -> Cells] /\ d \in Cells /\ latestVer \in Nat
    BY <1>1 DEF Typing, TypeOK
  <1>3. NewFrame \in Cells /\ NewFrame.st = "full" /\ NewFrame.ver = latestVer + 1
    BY <1>1, NewFrameType DEF NewFrame, Typing, TypeOK
  <1>4. \A p \in Places : Committed(flash[p]) => flash[p].ver <= latestVer /\ flash[p].ver \in Nat
    BY <1>1, <1>2, Versions DEF Running, Cells
  <1>5. /\ Committed(c) /\ c # d => Newest(gl, w) /\ c.ver = latestVer + 1 /\ c.st = "full"
        /\ Committed(c) => c = d \/ unit = "commit"
        /\ ~Committed(c) \/ c = d =>
                /\ Unused => NoneCommitted(gl)
                /\ InUse => Newest(gl, latest) /\ gl[latest] = flash[latest]
    BY <1>1, WriteOutcome
  <1>6. Committed(c) /\ c # d => c.val = kv
    <2>1. SUFFICES ASSUME Committed(c), c # d PROVE c.val = kv
      OBVIOUS
    <2>2. unit = "commit" /\ d.st = "body" /\ d.val = kv
      BY <1>1, <1>5, <2>1 DEF WriteProgress
    <2>3. c = [d EXCEPT !.st = NewFrame.st]
      BY <1>2, <1>3, <2>1, <2>2, InterruptedCommit DEF Committed
    <2> QED
      BY <1>2, <2>2, <2>3 DEF Cells
  <1>7. gl[w] = c /\ (\A p \in Places : p # w => gl[p] = flash[p]) /\ gl \in [Places -> Cells]
    BY <1>2, <1>3, InterruptedType
  <1>8. CASE Committed(c) /\ c # d
    <2>1. ValuesAgree(gl)
      <3>1. \A p \in Places : Committed(flash[p]) => flash[p].ver # c.ver
        BY <1>2, <1>4, <1>5, <1>8
      <3> QED
        BY <1>1, <1>7, <3>1, OneMoreAgrees
    <2>2. ValueIn(gl) = gl[w].val
      BY <1>5, <1>7, <1>8, <2>1, NewestIsFound
    <2> QED
      BY <1>6, <1>7, <1>8, <2>1, <2>2
  <1>9. CASE ~Committed(c) \/ c = d
    <2>1. ValuesAgree(gl)
      BY <1>1, <1>7, <1>9, FewerAgree
    <2>2. InUse => ValueIn(gl) = ValueIn(flash)
      <3>1. SUFFICES ASSUME InUse PROVE ValueIn(gl) = ValueIn(flash)
        OBVIOUS
      <3>2. latest \in Places /\ Newest(gl, latest) /\ gl[latest] = flash[latest]
        BY <1>5, <1>9, <3>1 DEF InUse
      <3> QED
        BY <1>7, <2>1, <3>1, <3>2, NewestIsFound, StoredValue
    <2>3. Unused => ValueIn(gl) = ValueIn(flash)
      BY <1>5, <1>9, StoredValue, NothingIsFound
    <2> QED
      BY <1>1, <1>9, <2>1, <2>2, <2>3
  <1> QED
    BY <1>8, <1>9

(* Frames that a scan does not need are lost: the value stays.              *)
LEMMA ErasureKeepsValue ==
    ASSUME RefInv, NEW gl \in [Places -> Cells],
           \A p \in Places : Committed(gl[p]) =>
                /\ Committed(flash[p])
                /\ gl[p].ver = flash[p].ver /\ gl[p].val = flash[p].val,
           \/ NoneCommitted(flash)
           \/ InUse /\ offset > NSlots /\ \A p \in Places : p[1] # Target => gl[p] = flash[p]
    PROVE  ValuesAgree(gl) /\ ValueIn(gl) = ValueIn(flash)
  <1>1. ValuesAgree(gl)
    BY FewerAgree DEF RefInv
  <1>2. CASE NoneCommitted(flash)
    BY <1>1, <1>2, NothingIsFound DEF NoneCommitted
  <1>3. CASE InUse /\ offset > NSlots /\ \A p \in Places : p[1] # Target => gl[p] = flash[p]
    <2>1. Newest(gl, latest) /\ gl[latest] = flash[latest]
      BY <1>3, TargetErased DEF RefInv
    <2>2. latest \in Places
      BY <1>3 DEF InUse
    <2>3. ValueIn(gl) = gl[latest].val
      BY <1>1, <2>1, <2>2, NewestIsFound
    <2> QED
      BY <1>1, <1>3, <2>1, <2>3, StoredValue
  <1> QED
    BY <1>2, <1>3

LEMMA InitEraseKeeps ==
    ASSUME Conditions, RefInv, InitErase
    PROVE  ValuesAgree(flash') /\ ValueIn(flash') = ValueIn(flash)
  <1>1. NoneCommitted(flash)
    BY DEF InitErase, RefInv, LogInv
  <1>2. flash' = EraseOf(flash, 0)
    BY DEF InitErase, Conditions, RefInv, Typing, TypeOK
  <1>3. NoneCommitted(flash')
    BY <1>1, <1>2 DEF NoneCommitted, EraseOf, Committed, Erased
  <1> QED
    BY <1>1, <1>3, NothingIsFound DEF ValuesAgree, NoneCommitted

LEMMA GcEraseKeeps ==
    ASSUME Conditions, RefInv, GcErase
    PROVE  ValuesAgree(flash') /\ ValueIn(flash') = ValueIn(flash)
  <1>1. InUse /\ offset > NSlots /\ flash \in [Places -> Cells]
    BY DEF GcErase, RefInv, LogInv, Typing, TypeOK
  <1>2. flash' = flash \/ flash' = EraseOf(flash, Target)
    <2>1. ~(faults < MaxFaults)
      BY DEF Conditions, RefInv, Typing, TypeOK
    <2> QED BY <2>1, Zenon DEF GcErase
  <1>3. CASE flash' = flash
    BY <1>3 DEF RefInv
  <1>4. CASE flash' = EraseOf(flash, Target)
    <2>1. /\ \A p \in Places : p[1] # Target => flash'[p] = flash[p]
          /\ \A p \in Places : Committed(flash'[p]) =>
                Committed(flash[p]) /\ flash'[p] = flash[p]
      BY <1>4, PlaceFacts DEF EraseOf, Erased, Committed
    <2>2. flash' \in [Places -> Cells]
      BY <1>1, <1>4, EraseType
    <2> QED
      BY <1>1, <2>1, <2>2, ErasureKeepsValue
  <1> QED
    BY <1>2, <1>3, <1>4

LEMMA GcCopyKeeps ==
    ASSUME Conditions, RefInv, GcCopyUnit
    PROVE  ValuesAgree(flash') /\ ValueIn(flash') = ValueIn(flash)
  <1> DEFINE w == <<Target, 1>>
  <1>1. pc = "gcCopy" /\ faults >= MaxFaults
    BY DEF GcCopyUnit, Conditions, RefInv, Typing, TypeOK
  <1>2. \/ /\ Accepts(flash[w], flash[latest], unit)
           /\ flash' = [flash EXCEPT ![w] = Programmed(flash[w], flash[latest], unit)]
        \/ /\ ~Accepts(flash[w], flash[latest], unit)
           /\ flash' = [flash EXCEPT ![w] = Spoiled(flash[w], unit)]
    <2>1. w \in Places /\ flash \in [Places -> Cells]
      BY TargetType, FirstSlot, PlaceFacts DEF RefInv, Typing, TypeOK
    <2> QED
      BY <1>1, <2>1 DEF GcCopyUnit, Conditions, RefInv, Typing, TypeOK
  <1>3. PICK c \in Interrupted(flash[w], flash[latest], unit) : flash' = [flash EXCEPT ![w] = c]
    BY <1>2 DEF Interrupted
  <1> QED
    BY <1>1, <1>3, CopyKeepsValue

(* The last unit of a frame replaces the stored value, no other does.       *)
LEMMA WriteUnitReplaces ==
    ASSUME Conditions, RefInv, WriteUnit
    PROVE  /\ ValuesAgree(flash')
           /\ \/ pc' = "idle" /\ ret' = "SAVED" /\ ValueIn(flash') = kv
              \/ pc' = "write" /\ ret' = ret /\ ValueIn(flash') = ValueIn(flash)
              \/ pc' = "idle" /\ ret' = "FLASH_WRITE" /\ ValueIn(flash') = ValueIn(flash)
  <1> DEFINE w == <<active, offset>>
             d == flash[w]
             c == flash'[w]
  <1>1. pc = "write" /\ WriteProgress
    BY DEF WriteUnit, RefInv, LogInv
  <1>2. /\ w \in Places /\ unit \in Units /\ flash \in [Places -> Cells] /\ d \in Cells
        /\ latestVer \in Nat
    BY <1>1, PlaceFacts DEF WriteProgress, RefInv, Typing, TypeOK
  <1>3. NewFrame \in Cells /\ NewFrame.st = "full" /\ NewFrame.ver = latestVer + 1
    BY NewFrameType DEF NewFrame, RefInv, Typing, TypeOK
  <1>4. \/ /\ Accepts(d, NewFrame, unit)
           /\ flash' = [flash EXCEPT ![w] = Programmed(d, NewFrame, unit)]
           /\ IF unit = "commit" THEN pc' = "idle" /\ ret' = "SAVED" ELSE UNCHANGED <<pc, ret>>
        \/ /\ ~Accepts(d, NewFrame, unit)
           /\ flash' = [flash EXCEPT ![w] = Spoiled(d, unit)]
           /\ pc' = "idle" /\ ret' = "FLASH_WRITE"
    BY DEF WriteUnit, Conditions, RefInv, Typing, TypeOK
  <1>5. flash' = [flash EXCEPT ![w] = c] /\ c \in Interrupted(d, NewFrame, unit)
    BY <1>2, <1>4 DEF Interrupted
  <1>6. /\ ValuesAgree(flash')
        /\ Committed(c) /\ c # d => ValueIn(flash') = kv
        /\ ~Committed(c) \/ c = d => ValueIn(flash') = ValueIn(flash)
    BY <1>1, <1>2, <1>5, WriteReplaces
  <1>7. Committed(c) => c = d \/ unit = "commit"
    BY <1>1, <1>2, <1>5, WriteOutcome DEF RefInv
  <1>8. CASE unit = "commit"
    <2>1. d.st = "body" /\ Accepts(d, NewFrame, unit)
      BY <1>1, <1>8 DEF WriteProgress, Accepts
    <2>2. c.st = "full"
      BY <1>2, <1>3, <1>4, <1>8, <2>1 DEF Programmed, Cells
    <2> QED
      BY <1>4, <1>6, <1>8, <2>1, <2>2 DEF Committed
  <1>9. CASE unit # "commit"
    BY <1>1, <1>4, <1>6, <1>7, <1>9
  <1> QED
    BY <1>8, <1>9

(* A power failure: the old value, or, while a frame is being written, the  *)
(* new one.                                                                 *)
LEMMA TornEraseKeeps ==
    ASSUME Conditions, RefInv, TornErase
    PROVE  ValuesAgree(flash') /\ ValueIn(flash') = ValueIn(flash)
  <1>1. flash' \in CutErases(flash, Erasing) /\ flash \in [Places -> Cells]
    BY DEF TornErase, RefInv, Typing, TypeOK
  <1>2. \A p \in Places : p[1] \notin Erasing => flash'[p] = flash[p]
    BY <1>1, CutEraseFacts
  <1>3. \A p \in Places : Committed(flash'[p]) =>
            /\ Committed(flash[p])
            /\ flash'[p].ver = flash[p].ver /\ flash'[p].val = flash[p].val
    BY <1>1, CutEraseFacts
  <1>4. flash' \in [Places -> Cells]
    BY <1>1, CutEraseFacts
  <1>5. CASE pc = "initErase"
    <2>1. NoneCommitted(flash)
      BY <1>5 DEF RefInv, LogInv
    <2> QED
      BY <1>3, <1>4, <2>1, ErasureKeepsValue
  <1>6. CASE pc = "gc"
    <2>1. InUse /\ offset > NSlots
      BY <1>6 DEF RefInv, LogInv
    <2>2. Erasing \subseteq {Target}
      BY <1>6 DEF Erasing
    <2>3. \A p \in Places : p[1] # Target => flash'[p] = flash[p]
      BY <1>2, <2>2
    <2> QED
      BY <1>3, <1>4, <2>1, <2>3, ErasureKeepsValue
  <1>7. pc \in {"initErase", "gc"}
    BY DEF TornErase, Erasing, RefInv, LogInv
  <1> QED
    BY <1>5, <1>6, <1>7

LEMMA PowerFailKeeps ==
    ASSUME Conditions, RefInv, PowerFail
    PROVE  /\ ValuesAgree(flash')
           /\ \/ ValueIn(flash') = ValueIn(flash)
              \/ pc = "write" /\ ValueIn(flash') = kv
  <1>1. CASE TornWrite
    <2>1. PICK c \in Interrupted(flash[<<active, offset>>], NewFrame, unit) :
            flash' = [flash EXCEPT ![<<active, offset>>] = c]
      BY <1>1, Zenon DEF TornWrite
    <2>2. pc = "write" /\ <<active, offset>> \in Places
      BY <1>1, PlaceFacts DEF TornWrite, RefInv, Typing, TypeOK
    <2> QED
      BY <2>1, <2>2, WriteReplaces
  <1>2. CASE TornCopy
    <2>1. PICK c \in Interrupted(flash[<<Target, 1>>], flash[latest], unit) :
            flash' = [flash EXCEPT ![<<Target, 1>>] = c]
      BY <1>2, Zenon DEF TornCopy
    <2>2. pc = "gcCopy"
      BY <1>2 DEF TornCopy, Copying
    <2> QED
      BY <2>1, <2>2, CopyKeepsValue
  <1>3. CASE TornErase
    BY <1>3, TornEraseKeeps
  <1>4. CASE NothingTorn
    BY <1>4 DEF NothingTorn, RefInv
  <1> QED
    BY <1>1, <1>2, <1>3, <1>4 DEF PowerFail
-----------------------------------------------------------------------------
(* Every step of the log is a step of the abstract value, or none.          *)

(* The variables of DurableValue, see Durable.                              *)
Pend == IF pc \in {"gc", "gcCopy", "write"} THEN kv ELSE NoValue
Ok == ret = "SAVED"
Reg == ValueIn(flash)

LEMMA PendIsValue ==
    ASSUME RefInv
    PROVE  IF Saving THEN Pend = kv /\ Pend # NoValue ELSE Pend = NoValue
  BY ValueAssumption DEF RefInv, Saving, Pend

(* The four actions of DurableValue on these variables.                     *)
Calls == Pend = NoValue /\ Pend' \in Values /\ Ok' = FALSE /\ Reg' = Reg
TakesEffect ==
    /\ Pend # NoValue /\ Reg' = Pend
    /\ \/ UNCHANGED <<Pend, Ok>>
       \/ Pend' = NoValue /\ Ok' \in BOOLEAN
Returns ==
    /\ Pend # NoValue /\ Pend' = NoValue /\ Reg' = Reg
    /\ Ok' => Reg = Pend
    /\ Ok' \in BOOLEAN
Others == Pend = NoValue /\ Ok' = FALSE /\ Reg' = Reg /\ Pend' = Pend
Stutters == Reg' = Reg /\ Pend' = Pend /\ Ok' = Ok

AbstractStep == Calls \/ TakesEffect \/ Returns \/ Others \/ Stutters

LEMMA QuietStep ==
    ASSUME RefInv, ~Saving, ~Saving', ret' # "SAVED", flash' = flash
    PROVE  ValuesAgree(flash') /\ AbstractStep
  BY DEF RefInv, Saving, Pend, Ok, Reg, AbstractStep, Others

LEMMA StepIsAbstract ==
    ASSUME Conditions, RefInv, [Next]_vars
    PROVE  ValuesAgree(flash') /\ AbstractStep
  <1>0. CASE UNCHANGED vars
    BY <1>0 DEF vars, RefInv, AbstractStep, Stutters, Pend, Ok, Reg
  <1>1. CASE BootFound
    BY <1>1, QuietStep DEF BootFound, Saving
  <1>2. CASE BootFirstUse
    <2>1. CASE pc' = "idle"
      BY <1>2, <2>1, QuietStep DEF BootFirstUse, Saving
    <2>2. CASE pc' = "initErase"
      BY <1>2, <2>2 DEF BootFirstUse, ram, RefInv, AbstractStep, Stutters, Pend, Ok, Reg
    <2> QED
      BY <1>2, <2>1, <2>2 DEF BootFirstUse
  <1>3. CASE InitErase
    <2>1. pc = "initErase" /\ pc' \in {"idle", "dead"} /\ ret' # "SAVED"
      BY <1>3 DEF InitErase
    <2> QED
      BY <1>3, <2>1, InitEraseKeeps DEF AbstractStep, Others, Pend, Ok, Reg
  <1>4. ASSUME NEW v \in Values, Save(v)
        PROVE  ValuesAgree(flash') /\ AbstractStep
    <2>1. pc = "idle" /\ pc' \in {"gc", "write"} /\ kv' = v /\ ret' = "none" /\ flash' = flash
      BY <1>4 DEF Save
    <2> QED
      BY <2>1 DEF RefInv, AbstractStep, Calls, Pend, Ok, Reg
  <1>5. CASE RefusedCall
    BY <1>5 DEF RefusedCall, RefInv, LogInv
  <1>6. CASE GcErase
    <2>1. /\ pc = "gc" /\ kv' = kv
          /\ pc' = "gcCopy" /\ ret' = ret
      BY <1>6 DEF GcErase, Conditions, RefInv, Typing, TypeOK, ram
    <2> QED
      BY <1>6, <2>1, GcEraseKeeps DEF AbstractStep, Stutters, Pend, Ok, Reg
  <1>7. CASE GcNoCopy
    BY <1>7, GcNoCopyStep DEF RefInv
  <1>8. CASE GcCopyUnit
    <2>1. /\ pc = "gcCopy" /\ kv' = kv
          /\ \/ pc' \in {"gcCopy", "write"} /\ ret' = ret
             \/ pc' = "idle" /\ ret' # "SAVED"
      BY <1>8 DEF GcCopyUnit, GcSwitch
    <2>2. CASE pc' \in {"gcCopy", "write"} /\ ret' = ret
      BY <1>8, <2>1, <2>2, GcCopyKeeps DEF AbstractStep, Stutters, Pend, Ok, Reg
    <2>3. CASE pc' = "idle" /\ ret' # "SAVED"
      BY <1>8, <2>1, <2>3, GcCopyKeeps, PendIsValue
      DEF AbstractStep, Returns, Saving, Pend, Ok, Reg
    <2> QED
      BY <2>1, <2>2, <2>3
  <1>9. CASE WriteUnit
    <2>1. pc = "write" /\ kv' = kv
      BY <1>9 DEF WriteUnit
    <2>2. Saving /\ Pend = kv /\ Pend # NoValue
      BY <2>1, PendIsValue DEF Saving
    <2>3. CASE pc' = "idle" /\ ret' = "SAVED" /\ ValueIn(flash') = kv
      BY <1>9, <2>2, <2>3, WriteUnitReplaces DEF AbstractStep, TakesEffect, Pend, Ok, Reg
    <2>4. CASE pc' = "write" /\ ret' = ret /\ ValueIn(flash') = ValueIn(flash)
      BY <1>9, <2>1, <2>4, WriteUnitReplaces DEF AbstractStep, Stutters, Pend, Ok, Reg
    <2>5. CASE pc' = "idle" /\ ret' = "FLASH_WRITE" /\ ValueIn(flash') = ValueIn(flash)
      BY <1>9, <2>2, <2>5, WriteUnitReplaces DEF AbstractStep, Returns, Pend, Ok, Reg
    <2> QED
      BY <1>9, <2>3, <2>4, <2>5, WriteUnitReplaces
  <1>10. CASE Load
    BY <1>10, QuietStep DEF Load, LoadResult, Saving
  <1>11. CASE WipeStart \/ WipeSector
    BY <1>11 DEF WipeStart, WipeSector, Conditions, RefInv, LogInv
  <1>12. CASE PowerFail
    <2>1. pc' = "off" /\ ret' = "none"
      BY <1>12 DEF PowerFail
    <2>2. CASE ValueIn(flash') = ValueIn(flash)
      <3>1. CASE Saving
        BY <1>12, <2>1, <2>2, <3>1, PowerFailKeeps, PendIsValue
        DEF AbstractStep, Returns, Pend, Ok, Reg
      <3>2. CASE ~Saving
        BY <1>12, <2>1, <2>2, <3>2, PowerFailKeeps, PendIsValue
        DEF AbstractStep, Others, Pend, Ok, Reg
      <3> QED
        BY <3>1, <3>2
    <2>3. CASE pc = "write" /\ ValueIn(flash') = kv
      BY <1>12, <2>1, <2>3, PowerFailKeeps, PendIsValue
      DEF AbstractStep, TakesEffect, Saving, Pend, Ok, Reg
    <2> QED
      BY <1>12, <2>2, <2>3, PowerFailKeeps
  <1> QED
    BY <1>0, <1>1, <1>2, <1>3, <1>4, <1>5, <1>6, <1>7, <1>8, <1>9, <1>10, <1>11, <1>12
    DEF Next

LEMMA SavingHasValue ==
    ASSUME RefInv, [Next]_vars
    PROVE  Saving' => kv' \in Values /\ ret' # "SAVED"
  BY DEF RefInv, Saving, Next, vars, ram, BootFound, BootFirstUse, InitErase, Save, RefusedCall,
         GcErase, GcNoCopy, GcCopyUnit, GcSwitch, WriteUnit, Load, WipeStart, WipeSector, PowerFail

LEMMA SavedStep ==
    ASSUME Conditions, RefInv, [Next]_vars
    PROVE  ret' = "SAVED" => ValueIn(flash') = kv'
  <1>1. ret = "SAVED" => ValueIn(flash) = kv
    BY RecoveredIs DEF RefInv, SavedIsRecovered
  <1>2. CASE WriteUnit
    BY <1>2, WriteUnitReplaces DEF WriteUnit, RefInv, Saving
  <1>3. CASE UNCHANGED <<flash, kv, ret>>
    BY <1>1, <1>3
  <1>4. CASE ret' # "SAVED"
    BY <1>4
  <1>5. WriteUnit \/ UNCHANGED <<flash, kv, ret>> \/ ret' # "SAVED"
    BY DEF RefInv, Conditions, LogInv, Saving, Next, vars, ram, BootFound, BootFirstUse, InitErase,
           Save, RefusedCall, GcErase, GcNoCopy, GcCopyUnit, GcSwitch, Load, LoadResult, WipeStart,
           WipeSector, PowerFail
  <1> QED
    BY <1>2, <1>3, <1>4, <1>5

LEMMA RefInvStep == Conditions /\ RefInv /\ [Next]_vars => RefInv'
  <1> SUFFICES ASSUME Conditions, RefInv, [Next]_vars PROVE RefInv'
    OBVIOUS
  <1>1. Typing' /\ LogInv'
    BY TypingStep, LogInvStep DEF RefInv
  <1>2. Recovered' = ValueIn(flash')
    BY DEF Recovered, ValueIn
  <1>3. SavedIsRecovered'
    BY <1>2, SavedStep DEF SavedIsRecovered
  <1> QED
    BY <1>1, <1>3, StepIsAbstract, SavingHasValue DEF RefInv

LEMMA RefInvInit == Init => RefInv
  <1> SUFFICES ASSUME Init PROVE RefInv
    OBVIOUS
  <1>1. Typing /\ LogInv
    BY TypingInit, LogInvInit
  <1>2. ValuesAgree(flash)
    BY DEF Init, ValuesAgree, Committed, Erased
  <1> QED
    BY <1>1, <1>2 DEF Init, RefInv, Saving, SavedIsRecovered

(* The invariant of the log, one value to a version, and a saved value that *)
(* a scan finds, hold in every reachable state.                             *)
THEOREM RefInvariant == Conditions => (Spec => []RefInv)
  <1> SUFFICES ASSUME Conditions PROVE Spec => []RefInv
    OBVIOUS
  <1> QED
    BY RefInvInit, RefInvStep, PTL DEF Spec

(* A version number names one value, whatever collections have copied and   *)
(* power failures have cut.                                                 *)
THEOREM VersionsNameValues == Conditions => (Spec => []VersionNamesValue)
  <1> SUFFICES ASSUME Conditions PROVE Spec => []VersionNamesValue
    OBVIOUS
  <1>1. RefInv => VersionNamesValue
    BY DEF RefInv, ValuesAgree, VersionNamesValue, Visible
  <1> QED
    BY <1>1, RefInvariant, PTL

(* What a save has reported as stored is what a restart at this moment      *)
(* would load.                                                              *)
THEOREM SavedIsFound == Conditions => (Spec => []SavedIsRecovered)
  <1> SUFFICES ASSUME Conditions PROVE Spec => []SavedIsRecovered
    OBVIOUS
  <1>1. RefInv => SavedIsRecovered
    BY DEF RefInv
  <1> QED
    BY <1>1, RefInvariant, PTL

LEMMA AbstractInit == Init => Durable!Init
  <1> SUFFICES ASSUME Init PROVE Durable!Init
    OBVIOUS
  <1>1. NoneCommitted(flash)
    BY DEF Init, NoneCommitted, Committed, Erased
  <1> QED
    BY <1>1, NothingIsFound, RecoveredIs DEF Init, Durable!Init

LEMMA AbstractNext ==
    ASSUME AbstractStep
    PROVE  [Durable!Next]_<<Recovered, Pend, Ok>>
  <1>1. Recovered = Reg /\ Recovered' = Reg'
    BY DEF Recovered, Reg, ValueIn
  <1>2. CASE Calls
    BY <1>1, <1>2 DEF Calls, Pend, Ok, Durable!Next, Durable!SaveCall
  <1>3. CASE TakesEffect
    BY <1>1, <1>3 DEF TakesEffect, Pend, Ok, Durable!Next, Durable!SaveTakesEffect
  <1>4. CASE Returns
    BY <1>1, <1>4 DEF Returns, Pend, Ok, Durable!Next, Durable!SaveReturns
  <1>5. CASE Others
    BY <1>1, <1>5 DEF Others, Pend, Ok, Durable!Next, Durable!OtherCall
  <1>6. CASE Stutters
    BY <1>1, <1>6 DEF Stutters
  <1> QED
    BY <1>2, <1>3, <1>4, <1>5, <1>6 DEF AbstractStep

(* A save replaces the stored value at one instant between its call and its *)
(* return or not at all, one that returned OK has replaced it, and nothing  *)
(* else ever changes it: garbage collection, restarts and power failures    *)
(* anywhere included.                                                       *)
THEOREM SavesAreDurable == Conditions => (Spec => SaveIsDurable)
  <1> SUFFICES ASSUME Conditions PROVE Spec => SaveIsDurable
    OBVIOUS
  <1>1. RefInv /\ [Next]_vars => [Durable!Next]_<<Recovered, Pend, Ok>>
    BY StepIsAbstract, AbstractNext
  <1> QED
    BY <1>1, AbstractInit, RefInvariant, PTL DEF Spec, SaveIsDurable, Durable!Spec, Pend, Ok
=============================================================================
