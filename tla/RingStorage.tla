---------------------------- MODULE RingStorage ----------------------------
(***************************************************************************)
(* The key-value log that keeps boot metadata, parameters and error logs   *)
(* in flash: public_layer/.../ring_storage/ring_storage.c over the         *)
(* hal_flash drivers.                                                      *)
(*                                                                         *)
(* An area of NSectors erase units holds frames of one size (every user    *)
(* registers its keys once, before the first save), NSlots to a sector.    *)
(* A frame is programmed front to back in three units: its header, its     *)
(* data, and the footer whose last word is the commit magic.  Power may    *)
(* fail between any two units, inside one, or inside a sector erase.       *)
(*                                                                         *)
(* Versions are natural numbers here; MaxVersion bounds the saves a run    *)
(* explores.  Flash endurance keeps real versions far from the 32-bit wrap.*)
(***************************************************************************)
EXTENDS Naturals, FiniteSets

CONSTANTS
    NSectors,     \* area_size / sector_size
    NSlots,       \* frames that fit in one sector
    Values,       \* values a caller saves
    NoValue,      \* "nothing loaded or stored yet"
    NoFrame,      \* latest_frame_addr = 0
    Sampled,      \* slots under the three probes of rs_is_sector_empty
    Reprogram,    \* TRUE: STM32F4 (words may be programmed again with the same
                  \* content); FALSE: F1, G0, G4 (a word must be erased first)
    AllowWipe,    \* does the user of the area call ring_storage_wipe
    MaxVersion,   \* bound on the versions a run explores
    MaxFaults     \* bound on errors reported by the flash driver itself

ASSUME GeometryAssumption ==
    /\ NSectors \in Nat /\ NSectors >= 2      \* checked by ring_storage_init
    /\ NSlots \in Nat /\ NSlots >= 1
    /\ Sampled \subseteq 1 .. NSlots /\ 1 \in Sampled
ASSUME ValueAssumption == NoValue \notin Values
ASSUME FrameAssumption == NoFrame \notin (0 .. NSectors - 1) \X (1 .. NSlots)
ASSUME BoundAssumption ==
    /\ MaxVersion \in Nat
    /\ MaxFaults \in Nat
    /\ Reprogram \in BOOLEAN
    /\ AllowWipe \in BOOLEAN

Sectors == 0 .. NSectors - 1
Slots == 1 .. NSlots
Places == Sectors \X Slots

(***************************************************************************)
(* What a slot of flash holds.                                             *)
(*   erased  all ones                                                      *)
(*   frag    a header that fails its magic or its CRC: the beginning of    *)
(*           the header of version ver, or, with ver = 0, debris           *)
(*   head    a valid header, no data yet                                   *)
(*   body    header and (part of) the data, commit magic missing           *)
(*   full    a committed frame                                             *)
(*   bad     header and commit magic valid, data CRC wrong                 *)
(***************************************************************************)
Stages == {"erased", "frag", "head", "body", "full", "bad"}
Cells == [st : Stages, ver : Nat, val : Values \cup {NoValue}]
Erased == [st |-> "erased", ver |-> 0, val |-> NoValue]
Frag(v) == [Erased EXCEPT !.st = "frag", !.ver = v]

VARIABLES
    flash,      \* [Places -> Cells], survives a power failure
    pc,         \* where the main loop is inside ring_storage
    unit,       \* next unit of the frame being programmed
    latest,     \* ctx->latest_frame_addr
    latestVer,  \* ctx->latest_version
    active,     \* ctx->active_sector_index
    offset,     \* ctx->write_offset: the slot the next frame goes to
    kv,         \* the registered value in RAM
    ret,        \* what the last call returned
    wipePos,    \* sector ring_storage_wipe erases next
    faults,     \* driver errors so far
    sound       \* ring_storage_init has missed no newer frame, and no wipe failed since

ram == <<unit, latest, latestVer, active, offset, kv, wipePos>>
vars == <<flash, pc, unit, latest, latestVer, active, offset, kv, ret, wipePos, faults, sound>>

Committed(c) == c.st \in {"full", "bad"}

-----------------------------------------------------------------------------
(* Programming one unit of frame f over cell c: hal_flash write drivers.   *)

Units == {"head", "body", "commit"}
NextUnit == [head |-> "body", body |-> "commit", commit |-> "head"]

Accepts(c, f, u) ==
    \/ u = "head"   /\ \/ c.st = "erased"
                       \/ Reprogram /\ c.ver = f.ver
    \/ u = "body"   /\ \/ c.st = "head"
                       \/ Reprogram /\ c.st \in {"body", "full"} /\ c.val = f.val
    \/ u = "commit" /\ c.st \in {"body", "full"}

Programmed(c, f, u) ==
    CASE u = "head"   -> IF c.st \in {"erased", "frag"}
                         THEN [st |-> "head", ver |-> f.ver, val |-> NoValue]
                         ELSE c
      [] u = "body"   -> IF c.st = "head" THEN [c EXCEPT !.st = "body", !.val = f.val] ELSE c
      [] u = "commit" -> [c EXCEPT !.st = f.st]

(* A rejected unit leaves a strict flash alone; on the F4 the old and the  *)
(* new word are ANDed before the read-back finds the mismatch.             *)
Spoiled(c, u) ==
    IF ~Reprogram THEN c
    ELSE IF u = "head" \/ c.st \in {"erased", "frag"} THEN Frag(0)
    ELSE IF Committed(c) THEN [c EXCEPT !.st = "bad"]
    ELSE [c EXCEPT !.st = "body", !.val = NoValue]

(* What an interrupted program operation may leave behind. *)
Interrupted(c, f, u) ==
    {c} \cup (IF Accepts(c, f, u) THEN {Programmed(c, f, u)} ELSE {Spoiled(c, u)})
        \cup (IF u = "head" /\ c.st = "erased" THEN {Frag(f.ver)} ELSE {})

(* What an interrupted erase may leave in one slot. *)
HalfErased(c, how) ==
    CASE how = "kept"   -> c
      [] how = "erased" -> Erased
      [] how = "frag"   -> Frag(0)
      [] how = "bad"    -> IF c.st = "full" THEN [c EXCEPT !.st = "bad"] ELSE c

EraseOf(fl, s) == [p \in Places |-> IF p[1] = s THEN Erased ELSE fl[p]]

(* An erase of the sectors S that ends early: power fails, or the driver    *)
(* reports an error at one of the pages that make up the sector.            *)
CutErases(fl, S) ==
    {[p \in Places |-> IF p[1] \in S THEN HalfErased(fl[p], how[p[2]]) ELSE fl[p]] :
        how \in [Slots -> {"kept", "erased", "frag", "bad"}]}

(* rs_is_sector_empty: only the sampled slots are looked at. *)
LooksEmpty(s) == \A k \in Sampled : flash[<<s, k>>].st = "erased"

-----------------------------------------------------------------------------
(* rs_probe_header and rs_scan_for_latest_frame.  An erased slot ends the  *)
(* scan of its sector, a torn one is stepped over.                         *)

Visible(fl) ==
    {p \in Places : /\ Committed(fl[p])
                    /\ \A k \in 1 .. p[2] - 1 : fl[<<p[1], k>>].st # "erased"}

ScannedBefore(p, q) == p[1] < q[1] \/ (p[1] = q[1] /\ p[2] < q[2])

(* The comparison is strict, so of two copies the one scanned first wins. *)
(* Variant: the first complete frame is kept, whatever its version. *)
FirstFound(fl, p) ==
    p \in Visible(fl) /\ \A q \in Visible(fl) : q = p \/ ScannedBefore(p, q)
IsLatest(fl, p) ==
    /\ p \in Visible(fl)
    /\ \A q \in Visible(fl) :
         \/ fl[q].ver < fl[p].ver
         \/ fl[q].ver = fl[p].ver /\ (q = p \/ ScannedBefore(p, q))

(* No frame is newer than all that the scan reaches.                       *)
Reached(fl) ==
    \A p \in Places : Committed(fl[p]) => \E q \in Visible(fl) : fl[p].ver <= fl[q].ver

(* Variant: the resume offset one frame too far. *)
SlotAfterTooFar(p) == p[2] + 2
SlotAfter(p) == p[2] + 1

RamCleared ==
    /\ unit' = "head"
    /\ latest' = NoFrame
    /\ latestVer' = 0
    /\ active' = 0
    /\ offset' = 1
    /\ kv' = NoValue
    /\ wipePos' = 0

Init ==
    /\ flash = [p \in Places |-> Erased]
    /\ pc = "off" /\ unit = "head"
    /\ latest = NoFrame /\ latestVer = 0 /\ active = 0 /\ offset = 1
    /\ kv = NoValue /\ ret = "none" /\ wipePos = 0 /\ faults = 0 /\ sound = TRUE

(* ring_storage_init finds a frame: resume behind it. *)
BootFound ==
    /\ pc = "off"
    /\ \E p \in Places :
         /\ IsLatest(flash, p)
         /\ latest' = p
         /\ latestVer' = flash[p].ver
         /\ active' = p[1]
         /\ offset' = SlotAfter(p)
    /\ pc' = "idle" /\ ret' = "INIT_OK" /\ sound' = Reached(flash)
    /\ UNCHANGED <<flash, unit, kv, wipePos, faults>>

(* ring_storage_init finds none: sector 0 is used, erased if not empty. *)
BootFirstUse ==
    /\ pc = "off"
    /\ Visible(flash) = {}
    /\ IF LooksEmpty(0)
       THEN pc' = "idle" /\ ret' = "INIT_OK"
       ELSE pc' = "initErase" /\ ret' = ret
    /\ sound' = Reached(flash)
    /\ UNCHANGED <<flash, ram, faults>>

InitErase ==
    /\ pc = "initErase"
    /\ \/ /\ flash' = EraseOf(flash, 0)
          /\ pc' = "idle" /\ ret' = "INIT_OK"
          /\ UNCHANGED faults
       \/ /\ faults < MaxFaults                 \* initialized stays false
          /\ faults' = faults + 1
          /\ pc' = "dead" /\ ret' = "FLASH_ERASE"
          /\ flash' \in CutErases(flash, {0})
    /\ UNCHANGED <<ram, sound>>

-----------------------------------------------------------------------------
(* ring_storage_save: the caller sets the registered value and saves it.   *)

Save(v) ==
    /\ pc = "idle"
    /\ latestVer < MaxVersion
    /\ kv' = v
    /\ unit' = "head"
    /\ pc' = IF offset > NSlots THEN "gc" ELSE "write"
    /\ ret' = "none"
    /\ UNCHANGED <<flash, latest, latestVer, active, offset, wipePos, faults, sound>>

(* Before ring_storage_init succeeds every call is refused. *)
RefusedCall ==
    /\ pc = "dead"
    /\ ret' = "UNINITIALIZED"
    /\ UNCHANGED <<flash, pc, ram, faults, sound>>

(* Variant: garbage collection in place. *)
TargetInPlace == active
Target == (active + 1) % NSectors

(* rs_gc_collect, step 1: make the next sector empty. *)
GcErase ==
    /\ pc = "gc"
    /\ \/ /\ LooksEmpty(Target)
          /\ pc' = "gcCopy"
          /\ UNCHANGED <<flash, ret, faults>>
       \/ /\ ~LooksEmpty(Target)
          /\ flash' = EraseOf(flash, Target)
          /\ pc' = "gcCopy"
          /\ UNCHANGED <<ret, faults>>
       \/ /\ ~LooksEmpty(Target)
          /\ faults < MaxFaults
          /\ faults' = faults + 1
          /\ pc' = "idle" /\ ret' = "GC_FAILED"
          /\ flash' \in CutErases(flash, {Target})
    /\ UNCHANGED <<ram, sound>>

(* Nothing to copy: no frame yet, or (after a wipe that stopped half way)  *)
(* a header of all ones, whose aligned length wraps to zero.               *)
NothingToCopy == latest = NoFrame \/ flash[latest].st = "erased"

GcSwitch(next) ==
    /\ active' = Target
    /\ offset' = next
    /\ IF next > NSlots                         \* the second room check
       THEN pc' = "idle" /\ ret' = "BUFFER_TOO_SMALL"
       ELSE pc' = "write" /\ UNCHANGED ret

GcNoCopy ==
    /\ pc = "gcCopy"
    /\ NothingToCopy
    /\ latest' = IF latest = NoFrame THEN NoFrame ELSE <<Target, 1>>
    /\ GcSwitch(1)
    /\ UNCHANGED <<flash, unit, latestVer, kv, wipePos, faults, sound>>

(* rs_gc_collect, step 2: copy the latest frame, chunk by chunk.           *)
GcCopyUnit ==
    /\ pc = "gcCopy"
    /\ ~NothingToCopy
    /\ LET p == <<Target, 1>>
           f == flash[latest]
       IN  \/ /\ Accepts(flash[p], f, unit)
              /\ flash' = [flash EXCEPT ![p] = Programmed(@, f, unit)]
              /\ unit' = NextUnit[unit]
              /\ IF unit = "commit"
                 THEN latest' = p /\ GcSwitch(2)
                 ELSE UNCHANGED <<latest, active, offset, pc, ret>>
              /\ UNCHANGED faults
           \/ /\ ~Accepts(flash[p], f, unit)
              /\ flash' = [flash EXCEPT ![p] = Spoiled(@, unit)]
              /\ pc' = "idle" /\ ret' = "GC_FAILED"
              /\ UNCHANGED <<unit, latest, active, offset, faults>>
           \/ /\ faults < MaxFaults
              /\ faults' = faults + 1
              /\ \E c \in Interrupted(flash[p], f, unit) :
                   flash' = [flash EXCEPT ![p] = c]
              /\ pc' = "idle" /\ ret' = "GC_FAILED"
              /\ UNCHANGED <<unit, latest, active, offset>>
    /\ UNCHANGED <<latestVer, kv, wipePos, sound>>

(* rs_align_write of the new frame; the state in RAM moves only on success. *)
(* Variant: the version is not advanced. *)
NewFrameSameVersion == [st |-> "full", ver |-> latestVer, val |-> kv]
NewFrame == [st |-> "full", ver |-> latestVer + 1, val |-> kv]

WriteUnit ==
    /\ pc = "write"
    /\ LET p == <<active, offset>>
       IN  \/ /\ Accepts(flash[p], NewFrame, unit)
              /\ flash' = [flash EXCEPT ![p] = Programmed(@, NewFrame, unit)]
              /\ unit' = NextUnit[unit]
              /\ IF unit = "commit"
                 THEN /\ latest' = p
                      /\ latestVer' = latestVer + 1
                      /\ offset' = offset + 1
                      /\ pc' = "idle" /\ ret' = "SAVED"
                 ELSE UNCHANGED <<latest, latestVer, offset, pc, ret>>
              /\ UNCHANGED faults
           \/ /\ ~Accepts(flash[p], NewFrame, unit)
              /\ flash' = [flash EXCEPT ![p] = Spoiled(@, unit)]
              /\ pc' = "idle" /\ ret' = "FLASH_WRITE"
              /\ UNCHANGED <<unit, latest, latestVer, offset, faults>>
           \/ /\ faults < MaxFaults
              /\ faults' = faults + 1
              /\ \E c \in Interrupted(flash[p], NewFrame, unit) :
                   flash' = [flash EXCEPT ![p] = c]
              /\ pc' = "idle" /\ ret' = "FLASH_WRITE"
              /\ UNCHANGED <<unit, latest, latestVer, offset>>
    /\ UNCHANGED <<active, kv, wipePos, sound>>

-----------------------------------------------------------------------------
(* ring_storage_load / rs_load_frame: only the latest frame is tried.      *)
LoadResult ==
    IF latest = NoFrame THEN "NO_VALID_FRAME"
    ELSE IF flash[latest].st = "full" THEN "LOADED"
    ELSE "CRC"

Load ==
    /\ pc = "idle"
    /\ ret' = LoadResult
    /\ kv' = IF LoadResult = "LOADED" THEN flash[latest].val ELSE kv
    /\ UNCHANGED <<flash, pc, unit, latest, latestVer, active, offset, wipePos, faults, sound>>

(* ring_storage_wipe: sector after sector, the state in RAM reset last. *)
WipeStart ==
    /\ AllowWipe
    /\ pc = "idle"
    /\ pc' = "wipe" /\ wipePos' = 0 /\ ret' = "none"
    /\ UNCHANGED <<flash, unit, latest, latestVer, active, offset, kv, faults, sound>>

WipeSector ==
    /\ pc = "wipe"
    /\ \/ /\ flash' = EraseOf(flash, wipePos)
          /\ IF wipePos = NSectors - 1
             THEN /\ latest' = NoFrame /\ latestVer' = 0
                  /\ active' = 0 /\ offset' = 1 /\ wipePos' = 0
                  /\ pc' = "idle" /\ ret' = "WIPED" /\ sound' = TRUE
             ELSE /\ wipePos' = wipePos + 1
                  /\ UNCHANGED <<latest, latestVer, active, offset, pc, ret, sound>>
          /\ UNCHANGED faults
       \/ /\ faults < MaxFaults                 \* early return, RAM state kept
          /\ faults' = faults + 1
          /\ pc' = "idle" /\ ret' = "FLASH_ERASE" /\ wipePos' = 0 /\ sound' = FALSE
          /\ flash' \in CutErases(flash, {wipePos})
          /\ UNCHANGED <<latest, latestVer, active, offset>>
    /\ UNCHANGED <<unit, kv>>

-----------------------------------------------------------------------------
(* Power failure at any moment: RAM is lost, the operation in progress on  *)
(* the flash is left half done.                                            *)

Erasing ==
    CASE pc = "initErase" -> {0}
      [] pc = "gc" /\ ~LooksEmpty(Target) -> {Target}
      [] pc = "wipe" -> {wipePos}
      [] OTHER -> {}

Copying == pc = "gcCopy" /\ ~NothingToCopy

TornWrite ==
    /\ pc = "write"
    /\ \E c \in Interrupted(flash[<<active, offset>>], NewFrame, unit) :
         flash' = [flash EXCEPT ![<<active, offset>>] = c]

TornCopy ==
    /\ Copying
    /\ \E c \in Interrupted(flash[<<Target, 1>>], flash[latest], unit) :
         flash' = [flash EXCEPT ![<<Target, 1>>] = c]

TornErase ==
    /\ Erasing # {}
    /\ flash' \in CutErases(flash, Erasing)

NothingTorn ==
    /\ pc # "write" /\ ~Copying /\ Erasing = {}
    /\ UNCHANGED flash

PowerFail ==
    /\ pc # "off"
    /\ TornWrite \/ TornCopy \/ TornErase \/ NothingTorn
    /\ pc' = "off" /\ ret' = "none"
    /\ RamCleared
    /\ UNCHANGED <<faults, sound>>

Next ==
    \/ BootFound \/ BootFirstUse \/ InitErase
    \/ \E v \in Values : Save(v)
    \/ RefusedCall
    \/ GcErase \/ GcNoCopy \/ GcCopyUnit
    \/ WriteUnit
    \/ Load
    \/ WipeStart \/ WipeSector
    \/ PowerFail

Spec == Init /\ [][Next]_vars
-----------------------------------------------------------------------------
TypeOK ==
    /\ flash \in [Places -> Cells]
    /\ pc \in {"off", "initErase", "dead", "idle", "gc", "gcCopy", "write", "wipe"}
    /\ unit \in Units
    /\ latest \in Places \cup {NoFrame}
    /\ latestVer \in Nat
    /\ active \in Sectors
    /\ offset \in 1 .. NSlots + 1
    /\ kv \in Values \cup {NoValue}
    /\ ret \in {"none", "INIT_OK", "UNINITIALIZED", "SAVED", "LOADED", "WIPED", "CRC",
                "NO_VALID_FRAME", "FLASH_WRITE", "FLASH_ERASE", "GC_FAILED", "BUFFER_TOO_SMALL"}
    /\ wipePos \in Sectors
    /\ faults \in Nat /\ sound \in BOOLEAN

(* What a restart at this moment would load. *)
Recovered ==
    IF Visible(flash) = {} THEN NoValue
    ELSE LET c == flash[CHOOSE p \in Places : IsLatest(flash, p)]
         IN  IF c.st = "full" THEN c.val ELSE NoValue

(* The promise to the user: a save is one atomic, durable replacement of   *)
(* the stored value, whatever unit of whatever frame a power failure cuts  *)
(* and whatever garbage collection was doing.                              *)
Durable == INSTANCE DurableValue WITH
    reg <- Recovered,
    pend <- IF pc \in {"gc", "gcCopy", "write"} THEN kv ELSE NoValue,
    ok <- ret = "SAVED"

SaveIsDurable == Durable!Spec

(* What the running firmware remembers agrees with what a cold start would  *)
(* find: the remembered latest frame is intact and carries the highest      *)
(* version on the flash, so load never returns a superseded value.          *)
WarmEqualsCold ==
    pc \in {"idle", "gc", "gcCopy", "write"} =>
        IF latest = NoFrame
        THEN latestVer = 0 /\ Visible(flash) = {}
        ELSE /\ flash[latest].st = "full"
             /\ flash[latest].ver = latestVer
             /\ \A p \in Visible(flash) : flash[p].ver <= latestVer

(* The scan stops at the first erased slot of a sector: no committed frame  *)
(* newer than the ones it reaches may sit behind one.                       *)
NothingNewerHidden ==
    \A p \in Places :
        Committed(flash[p]) /\ p \notin Visible(flash) =>
            \E q \in Visible(flash) : flash[q].ver > flash[p].ver

(* A version number names one value: copies made by garbage collection and  *)
(* frames written after a restart never reuse a version for other data.     *)
VersionNamesValue ==
    \A p, q \in Visible(flash) :
        flash[p].ver = flash[q].ver => flash[p].val = flash[q].val

(* A save that returned OK is what a restart loads.                        *)
SavedIsRecovered == ret = "SAVED" => Recovered = kv

(* So it is on an area that is wiped, whatever power failures and driver   *)
(* errors came before, but for two cases: an erase that fails inside a     *)
(* wipe, behind sectors already erased, leaves RAM and flash at odds until *)
(* the next start, and a save goes where no scan looks; and an erase that  *)
(* power cuts inside a wipe may leave the newest frame behind a blank slot *)
(* (ring_storage_init passes it by, a save fills the slot, and from then   *)
(* on the old frame is found, not the new one).                            *)
SavedWhileSound == sound => SavedIsRecovered

(* Violated: one torn write ends all saving.  srv_log_flash.c promises that *)
(* a power failure costs at most the record being written; with no flash    *)
(* fault at all, a save after the restart must then succeed.                *)
OnlyTornSaveLost == ret # "FLASH_WRITE"
-----------------------------------------------------------------------------
(* Why WarmEqualsCold holds while no driver fault occurs and the area is    *)
(* never wiped: the inductive invariant behind RingStorageProofs.           *)

Running == pc \in {"idle", "gc", "gcCopy", "write"}
NoneCommitted(fl) == \A p \in Places : ~Committed(fl[p])

(* L is intact, reachable by a scan, and outranks every other frame: hidden *)
(* ones strictly, damaged ones at least by being scanned first.             *)
Newest(fl, L) ==
    /\ L \in Visible(fl)
    /\ fl[L].st = "full"
    /\ \A p \in Places : p # L /\ Committed(fl[p]) =>
         /\ fl[p].ver <= fl[L].ver
         /\ p \notin Visible(fl) => fl[p].ver < fl[L].ver
         /\ fl[p].st = "bad" => fl[p].ver < fl[L].ver \/ ScannedBefore(L, p)

(* Two frames with one version are an original and its copy.                *)
NextHead(p) == <<(p[1] + 1) % NSectors, 1>>
CopiesOnly(fl) ==
    \A p, q \in Places :
        /\ p # q /\ Committed(fl[p]) /\ Committed(fl[q])
        /\ fl[p].ver = fl[q].ver
        => p = NextHead(q) \/ q = NextHead(p)

Settled(fl) == CopiesOnly(fl) /\ (NoneCommitted(fl) \/ \E L \in Places : Newest(fl, L))

Cleared == latest = NoFrame /\ latestVer = 0 /\ active = 0 /\ offset = 1

Unused ==
    /\ Cleared
    /\ pc \in {"idle", "write"}
    /\ NoneCommitted(flash)

(* What garbage collection is about to erase outranks nothing.              *)
TargetOutranked ==
    offset > NSlots =>
        \A p \in Places : p # latest /\ Committed(flash[p]) /\ flash[p].ver = latestVer =>
            p = <<Target, 1>> /\ ScannedBefore(latest, p)

InUse ==
    /\ latest \in Places
    /\ Newest(flash, latest)
    /\ flash[latest].ver = latestVer
    /\ active = latest[1] /\ offset = latest[2] + 1
    /\ TargetOutranked

CopyProgress ==
    LET c == flash[<<Target, 1>>]
    IN  /\ InUse /\ offset > NSlots
        /\ unit = "head" => c.st = "erased"
        /\ unit = "body" => c.st = "head" /\ c.ver = latestVer
        /\ unit = "commit" => c.st = "body" /\ c.ver = latestVer /\ c.val = flash[latest].val

WriteProgress ==
    LET c == flash[<<active, offset>>]
    IN  /\ offset \in Slots
        /\ unit = "body" => c.st \in {"head", "body"} /\ c.ver = latestVer + 1
        /\ unit = "commit" => c.st = "body" /\ c.ver = latestVer + 1 /\ c.val = kv

LogInv ==
    /\ pc \notin {"dead", "wipe"}
    /\ Settled(flash)
    /\ pc \in {"off", "initErase"} => Cleared
    /\ pc = "initErase" => NoneCommitted(flash)
    /\ Running => Unused \/ InUse
    /\ pc = "gc" => InUse /\ offset > NSlots /\ unit = "head"
    /\ pc = "gcCopy" => CopyProgress
    /\ pc = "write" => WriteProgress
=============================================================================
