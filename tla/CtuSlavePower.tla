--------------------------- MODULE CtuSlavePower ---------------------------
(***************************************************************************)
(* The CTU slave board: four supervised outputs, each with its own state   *)
(* machine (srv_pwr_ctrl.c), and the policy that watches the AUX supply    *)
(* (app_fault_policy.c).  power_task.c steps the machines in every tick    *)
(* and the policy in every SlaveDiv-th; between ticks the host requests    *)
(* outputs (0x04) and clears latches (0x05).                               *)
(*                                                                         *)
(* DC24V needs AUX; ISO12V and the low-side switches need DC24V.  All      *)
(* machines of a tick share one sample of the inputs, and of whether DC24V *)
(* is ON, taken before any of them moves.  The machines have no callbacks, *)
(* so fsm.c's second half of a transition does nothing here.               *)
(*                                                                         *)
(* Times are counted in ticks, that of the policy in policy steps.  The    *)
(* ADC is taken as initialised (srv_adc_get_latest then always succeeds);  *)
(* srv_pwr_ctrl_emergency_off has no caller.                               *)
(***************************************************************************)
EXTENDS Naturals

CONSTANTS
    Lsds,         \* the low-side switches
    EnSettle,     \* ticks after switching on that are not judged
    Ready,        \* ticks an output must be good to be ON
    Loss,         \* ticks an ON output may be bad
    Timeout,      \* judged ticks without a good one before the output is latched
    AuxLoss,      \* policy steps AUX may be missing
    SlaveDiv      \* ticks per policy step

Outputs == {"DC24V", "ISO12V"} \cup Lsds

ASSUME SlaveAssumption ==
    /\ {Ready, Loss, AuxLoss, SlaveDiv} \subseteq Nat \ {0} /\ EnSettle \in Nat
    /\ Timeout \in [Outputs -> Nat \ {0}]
    /\ Lsds \cap {"DC24V", "ISO12V"} = {}

RailStates == {"OFF", "ENABLING", "ON", "LATCHED"}

(* One sample: AUX present, and the outputs that show their good state     *)
(* (power-good, or a node that a switch pulls low).                        *)
SlaveInputs == [aux : BOOLEAN, good : SUBSET Outputs]

(* srv_pwr_rail_ctx_t without its index.                                   *)
NoCount == [settle |-> 0, enable |-> 0, stable |-> 0, loss |-> 0]

VARIABLES
    state,     \* state of each output's machine
    count,     \* its counters
    driven,    \* outputs that drv_power drives
    wanted,    \* s_desired_mask
    latch,     \* s_latch_mask
    auxLost,   \* s_aux_lost_ms
    tick,      \* s_sub_tick
    quiet,     \* from now on supplies and outputs are good, the host is silent
    age,       \* ticks since an output was switched on
    gone,      \* policy steps for which AUX has been missing under a DC24V that is ON
    shadowed   \* one of them found an output latched

rails == <<state, count, driven>>
slaveVars == <<rails, wanted, latch, auxLost, tick, quiet, age, gone, shadowed>>

(* srv_pwr_ctrl_init requests the first two outputs.                       *)
SlaveInit ==
    /\ state = [r \in Outputs |-> "OFF"]
    /\ count = [r \in Outputs |-> NoCount]
    /\ driven = {}
    /\ wanted = {"DC24V", "ISO12V"} /\ latch = {}
    /\ auxLost = 0 /\ tick = 0 /\ quiet = FALSE
    /\ age = [r \in Outputs |-> 0] /\ gone = 0 /\ shadowed = FALSE

-----------------------------------------------------------------------------
(* Variant for checking the checks: every output needs both supplies.      *)
PreconditionBoth(r, in, on24) == in.aux /\ on24
(* rail_precondition_ok, with the DC24V state of the sample.               *)
Precondition(r, in, on24) == IF r = "DC24V" THEN in.aux ELSE on24

(* The handlers: where an output goes and its counters.  An output that is *)
(* left alone keeps both.                                                  *)
FromOff(r, in, on24) ==
    IF r \in wanted /\ r \notin latch /\ Precondition(r, in, on24)
    THEN [state |-> "ENABLING", count |-> NoCount]
    ELSE [state |-> "OFF", count |-> count[r]]

(* Variant: the settle window is a tick short.                             *)
SettledEarly(c) == c.settle + 1 >= EnSettle
Settled(c) == c.settle >= EnSettle
Refused(r) == r \notin wanted \/ r \in latch

FromEnabling(r, in, on24) ==
    LET c == count[r]
        stay(d) == [state |-> "ENABLING", count |-> d]
    IN  IF Refused(r) THEN [state |-> "OFF", count |-> NoCount]
        ELSE IF ~Settled(c)
        THEN stay([settle |-> c.settle + 1, enable |-> 0, stable |-> 0, loss |-> c.loss])
        ELSE IF ~Precondition(r, in, on24) THEN stay([c EXCEPT !.stable = 0])
        ELSE IF r \in in.good
        THEN IF c.stable + 1 >= Ready THEN [state |-> "ON", count |-> NoCount]
             ELSE stay([c EXCEPT !.stable = @ + 1])
        ELSE IF c.enable + 1 >= Timeout[r] THEN [state |-> "LATCHED", count |-> NoCount]
             ELSE stay([settle |-> c.settle, enable |-> c.enable + 1, stable |-> 0, loss |-> c.loss])

(* Variant: the tick that is being handled is not counted.                 *)
LostBefore(r) == count[r].loss
LostFor(r) == count[r].loss + 1
FromOn(r, in) ==
    IF Refused(r) THEN [state |-> "OFF", count |-> NoCount]
    ELSE IF r \in in.good THEN [state |-> "ON", count |-> [count[r] EXCEPT !.loss = 0]]
    ELSE IF LostFor(r) >= Loss THEN [state |-> "LATCHED", count |-> NoCount]
    ELSE [state |-> "ON", count |-> [count[r] EXCEPT !.loss = @ + 1]]

Handled(r, in, on24) ==
    CASE state[r] = "OFF"      -> FromOff(r, in, on24)
      [] state[r] = "ENABLING" -> FromEnabling(r, in, on24)
      [] state[r] = "ON"       -> FromOn(r, in)
      [] state[r] = "LATCHED"  -> [state |-> "LATCHED", count |-> count[r]]

(* The pin follows the machine: FromOff sets it, rail_turn_off and         *)
(* rail_do_latch clear it.                                                 *)
Pins(was, st) ==
    {r \in Outputs : \/ was[r] = "OFF" /\ st[r] = "ENABLING"
                     \/ r \in driven /\ ~(was[r] # st[r] /\ st[r] \in {"OFF", "LATCHED"})}

(* srv_pwr_ctrl_step, then, when it is due, app_fault_policy_step: it      *)
(* looks at AUX only while nothing is latched and DC24V is ON.             *)
Stepped(in) ==
    LET on24 == state["DC24V"] = "ON" IN [r \in Outputs |-> Handled(r, in, on24)]

Watching(st, l) == l = {} /\ st["DC24V"] = "ON"

(* srv_pwr_ctrl_latch_outputs on DC24V.                                    *)
Due == tick + 1 >= SlaveDiv
(* Variant: one policy step too many.                                      *)
AuxTripsLate(st, l, in) == Due /\ Watching(st, l) /\ ~in.aux /\ auxLost >= AuxLoss
AuxTrips(st, l, in) == Due /\ Watching(st, l) /\ ~in.aux /\ auxLost + 1 >= AuxLoss

SlaveTick(in) ==
    LET to == Stepped(in)
        st == [r \in Outputs |-> to[r].state]
        l == latch \cup {r \in Outputs : state[r] # "LATCHED" /\ st[r] = "LATCHED"}
        trips == AuxTrips(st, l, in)
    IN  /\ quiet => in.aux /\ in.good = Outputs
        /\ state' = IF trips THEN [st EXCEPT !["DC24V"] = "LATCHED"] ELSE st
        /\ count' = [r \in Outputs |->
                        IF trips /\ r = "DC24V" THEN NoCount ELSE to[r].count]
        /\ driven' = IF trips THEN Pins(state, st) \ {"DC24V"} ELSE Pins(state, st)
        /\ latch' = IF trips THEN l \cup {"DC24V"} ELSE l
        /\ auxLost' = IF ~Due THEN auxLost
                      ELSE IF Watching(st, l) /\ ~in.aux /\ ~trips THEN auxLost + 1 ELSE 0
        /\ tick' = IF Due THEN 0 ELSE tick + 1
        /\ age' = [r \in Outputs |->
                      IF r \notin driven' \/ r \notin driven THEN 0
                      ELSE IF age[r] < EnSettle + Ready THEN age[r] + 1 ELSE age[r]]
        /\ gone' = IF state'["DC24V"] # "ON" \/ (Due /\ in.aux) THEN 0
                   ELSE IF Due /\ gone < AuxLoss THEN gone + 1 ELSE gone
        /\ shadowed' = (gone' > 0 /\ (shadowed \/ (Due /\ l # {})))
        /\ UNCHANGED <<wanted, quiet>>

(* Variant: the latch bits are left to 0x05.                               *)
LatchKept(mask) == latch
(* srv_pwr_ctrl_request_outputs: an output that is not wanted is off and   *)
(* forgotten, its latch too.                                               *)
LatchLeft(mask) == latch \cap mask
Request(mask) ==
    /\ ~quiet
    /\ wanted' = mask
    /\ latch' = LatchLeft(mask)
    /\ state' = [r \in Outputs |-> IF r \in mask THEN state[r] ELSE "OFF"]
    /\ count' = [r \in Outputs |->
                    IF r \notin mask /\ state[r] \in {"ENABLING", "ON"} THEN NoCount
                    ELSE count[r]]
    /\ driven' = driven \ {r \in Outputs \ mask : state[r] \in {"ENABLING", "ON"}}
    /\ age' = [r \in Outputs |-> IF r \in mask THEN age[r] ELSE 0]
    /\ gone' = IF "DC24V" \in mask THEN gone ELSE 0
    /\ shadowed' = (shadowed /\ "DC24V" \in mask)
    /\ UNCHANGED <<auxLost, tick, quiet>>

(* srv_pwr_ctrl_clear_latch: what is still wanted will be tried again.     *)
ClearLatch ==
    /\ ~quiet
    /\ latch' = {}
    /\ state' = [r \in Outputs |-> IF state[r] = "LATCHED" THEN "OFF" ELSE state[r]]
    /\ UNCHANGED <<count, driven, wanted, auxLost, tick, quiet, age, gone, shadowed>>

(* External: trouble ends.                                                 *)
SlaveQuiet ==
    /\ quiet' = TRUE
    /\ UNCHANGED <<rails, wanted, latch, auxLost, tick, age, gone, shadowed>>

SlaveNext ==
    \/ \E in \in SlaveInputs : SlaveTick(in)
    \/ \E mask \in SUBSET Outputs : Request(mask)
    \/ ClearLatch
    \/ SlaveQuiet
SlaveFairness == WF_slaveVars(\E in \in SlaveInputs : SlaveTick(in))
SlaveSpec == SlaveInit /\ [][SlaveNext]_slaveVars /\ SlaveFairness

-----------------------------------------------------------------------------
(* Type invariant of the slave board.                                      *)
Counts ==
    [settle : 0 .. EnSettle, enable : Nat, stable : 0 .. Ready - 1, loss : 0 .. Loss - 1]
SlaveTypeOK ==
    /\ state \in [Outputs -> RailStates]
    /\ count \in [Outputs -> Counts]
    /\ \A r \in Outputs : count[r].enable < Timeout[r]
    /\ {driven, wanted, latch} \subseteq SUBSET Outputs
    /\ auxLost \in 0 .. AuxLoss - 1 /\ tick \in 0 .. SlaveDiv - 1 /\ quiet \in BOOLEAN
    /\ age \in [Outputs -> 0 .. EnSettle + Ready] /\ gone \in 0 .. AuxLoss
    /\ shadowed \in BOOLEAN

(* Four records of the same fact never part, whatever order ticks, the     *)
(* policy and the host's commands come in: the machine is LATCHED exactly  *)
(* when the latch bit that the host reads is set, the pin is driven        *)
(* exactly while the machine is ENABLING or ON, and an output that is not  *)
(* wanted is neither driven nor latched.                                   *)
LatchAgrees == \A r \in Outputs : state[r] = "LATCHED" <=> r \in latch
PinAgrees == \A r \in Outputs : r \in driven <=> state[r] \in {"ENABLING", "ON"}
UnwantedIsOff == \A r \in Outputs \ wanted : state[r] = "OFF"
RecordsAgree == LatchAgrees /\ PinAgrees /\ UnwantedIsOff

(* An output becomes ON only after its own settle window and debounce,     *)
(* counted from when its pin was last switched on, however often it was    *)
(* switched off, latched or cleared before.                                *)
BecomesOn(r) == state[r] # "ON" /\ state'[r] = "ON"
SettlesFirst ==
    [][\A r \in Outputs : BecomesOn(r) => age[r] >= EnSettle + Ready - 1]_slaveVars

(* A lost AUX supply under a running DC24V latches DC24V within its        *)
(* debounce, whatever else happened (app_fault_policy.h:10).               *)
AuxLossLatches == gone < AuxLoss
(* What the code keeps of it: the policy is late only when it has found    *)
(* another output latched since AUX went missing.  (It does not look then, *)
(* l. 56, and starts the debounce over when the latch is gone.)            *)
AuxLossLatchesAlone == gone >= AuxLoss => shadowed

(* When supplies and outputs are good and the host is silent, every wanted *)
(* output comes up, unless it or DC24V under it is latched.                *)
QuietBringsUp ==
    quiet ~> \A r \in wanted : \/ state[r] \in {"ON", "LATCHED"}
                               \/ r # "DC24V" /\ state["DC24V"] # "ON"
=============================================================================
