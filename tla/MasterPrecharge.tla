-------------------------- MODULE MasterPrecharge --------------------------
(***************************************************************************)
(* The E1 master power board: the power-up sequence with the soft start of *)
(* the motor supply (srv_pwr_ctrl.c: two state machines) and the fault     *)
(* policy (app_fault_policy.c).  power_task.c runs in every tick the soft  *)
(* start, the sequence and the policy, in this order.                      *)
(*                                                                         *)
(* The soft start charges the motor supply through a converter whose duty  *)
(* is ramped up, then MOTOR takes over.  An over-current takes it back to  *)
(* its start, a few times.  A trip switches both off and a brake resistor  *)
(* on.                                                                     *)
(*                                                                         *)
(* Times are counted in ticks, voltages in mV.  The fans, the logs, the    *)
(* PWM registers and AUX_EN (on since the start, never switched off) are   *)
(* left out; every tick finds a sample of the ADC.                         *)
(***************************************************************************)
EXTENDS Naturals, Fsm

CONSTANTS
    Samples,       \* what a tick may read, see BoardInputs
    Steady,        \* STEADY_TIME_MS
    Handover,      \* PWR_MOTOR_HANDOVER_TIMEOUT_MS
    Discharge,     \* PWR_MOTOR_RAIL_DBR_LSD_TIME_MS
    EnClear, Phase2, Phase3, Phase4, NoLoadAt, Recover, RetryMax   \* PWR_PRECHARGE_*

(* What a tick reads: the voltages, the over-current of the converter, the *)
(* emergency stop, and whether any other critical condition is there       *)
(* (power-good lost, brake over-current, high-side fault).                 *)
BoardInputs ==
    [bus : Nat, vin : Nat, ocp : BOOLEAN, estop : BOOLEAN, trouble : BOOLEAN]

ASSUME PrechargeAssumption ==
    /\ Samples \subseteq BoardInputs
    /\ {Steady, Handover, Discharge, EnClear, Phase2, Phase3, Phase4, NoLoadAt,
        Recover} \subseteq Nat \ {0}
    /\ RetryMax \in Nat

NoLoadMv == 1000
DischargedMv == 5000

SeqStates == {"IDLE", "AUX", "PRECHARGE", "MOTOR", "DONE"}
Ramps == {"RAMP_TON", "RAMP_FREQ", "RAMP_DUTY"}
PreStates == {"IDLE", "EN_CLEAR", "PREBIAS", "STEADY", "OCP_RECOVER", "FAULT"} \cup Ramps
Faults == {"NONE", "SHORT_CIRCUIT", "NO_LOAD"}
Switches == {"motor", "chg", "brake"}

VARIABLES
    seq,     \* power_ctrl_ctx_t, its machine and the static discharge counter
    pre,     \* precharge_ctx_t and its machine
    on,      \* the switches that are on: MOTOR_EN, MOTOR_CHG_EN, DBR_LSD_EN
    pol,     \* the static variables of app_fault_policy.c
    starts,  \* times the converter was switched on since precharge_begin
    cold,    \* the last PREBIAS chose the full ramp
    braked,  \* ticks for which the brake has been on
    resumed, \* an earlier discharge was left unfinished, its count kept
    seen,    \* what the last tick read: an over-current, a discharged supply
    asked,   \* a power-up has been requested since the start
    serene   \* from now on there is no trouble and nobody presses the button

board == <<seq, pre, on, pol>>
prechargeVars == <<board, starts, cold, braked, resumed, seen, asked, serene>>

PrechargeInit ==
    /\ \E estop \in BOOLEAN :
          seq = [fsm |-> FsmAt("IDLE"), req |-> ~estop, steady |-> 0, handed |-> FALSE,
                 brake |-> FALSE, spent |-> 0]
    /\ pre = [fsm |-> FsmAt("IDLE"), phase |-> 0, retry |-> 0, seed |-> 0,
              fault |-> "NONE", start |-> FALSE, done |-> FALSE]
    /\ on = {} /\ pol = [tripped |-> FALSE, last |-> FALSE]
    /\ starts = 0 /\ cold = FALSE /\ braked = 0 /\ resumed = FALSE
    /\ seen = [ocp |-> FALSE, low |-> FALSE] /\ asked = seq.req /\ serene = FALSE

(* The functions below take and give the parts of the board as one record. *)
Whole == [seq |-> seq, pre |-> pre, on |-> on, pol |-> pol]
PreTo(b, s) == [b EXCEPT !.pre.fsm = FsmGoto(@, s)]
SeqTo(b, s) == [b EXCEPT !.seq.fsm = FsmGoto(@, s)]
UpTo(n, most) == IF n < most THEN n + 1 ELSE n

-----------------------------------------------------------------------------
(* The soft start.                                                         *)

(* precharge_entry_cb.                                                     *)
PreEntered(b) ==
    LET s == b.pre.fsm.state
    IN  [b EXCEPT !.pre.phase = IF s = "RAMP_DUTY" THEN b.pre.seed ELSE 0,
                  !.pre.done = @ \/ s = "STEADY",
                  !.on = CASE s \in {"RAMP_TON", "RAMP_DUTY"} -> @ \cup {"chg"}
                           [] s \in {"RAMP_FREQ", "STEADY"}   -> @
                           [] OTHER                           -> @ \ {"chg"}]

PreIdle(b) ==
    IF b.pre.start
    THEN PreTo([b EXCEPT !.pre.start = FALSE, !.pre.retry = 0, !.pre.fault = "NONE",
                         !.pre.done = FALSE], "EN_CLEAR")
    ELSE PreTo(b, "IDLE")

(* A phase of some ticks: the handlers of EN_CLEAR, RAMP_TON and RAMP_FREQ.*)
PrePhase(b, ticks, next) ==
    LET c == [b EXCEPT !.pre.phase = @ + 1]
    IN  PreTo(c, IF c.pre.phase >= ticks THEN next ELSE b.pre.fsm.state)

(* The pre-bias: the share of the input, in permille, that the motor       *)
(* supply already has.  Without an input it counts as cold.                *)
Permille(in) == IF in.vin = 0 THEN 0 ELSE (in.bus * 1000) \div in.vin
Seed(p) == (((IF p > 900 THEN 900 ELSE p) - 100) * Phase4) \div 800
PreBias(b, in) ==
    LET p == Permille(in)
    IN  IF p < 100 THEN PreTo(b, "RAMP_TON")
        ELSE IF p >= 950 THEN PreTo(b, "STEADY")
        ELSE PreTo([b EXCEPT !.pre.seed = Seed(p)], "RAMP_DUTY")

RampDuty(b, in) ==
    LET c == [b EXCEPT !.pre.phase = @ + 1]
    IN  IF c.pre.phase >= NoLoadAt /\ in.bus < NoLoadMv
        THEN PreTo([c EXCEPT !.pre.fault = "NO_LOAD"], "FAULT")
        ELSE PreTo(c, IF c.pre.phase >= Phase4 THEN "STEADY" ELSE "RAMP_DUTY")

(* Variant for checking the checks: one retry too many.                    *)
RetryOnceMore(b) == b.pre.retry <= RetryMax
RetryLeft(b) == b.pre.retry < RetryMax
(* Variant: the retries are not counted.                                   *)
RetryUncounted(b) == b
Retried(b) == [b EXCEPT !.pre.retry = @ + 1]
OcpRecover(b) ==
    LET c == [b EXCEPT !.pre.phase = @ + 1]
    IN  IF c.pre.phase < Recover THEN PreTo(c, "OCP_RECOVER")
        ELSE IF RetryLeft(b) THEN PreTo(Retried(c), "EN_CLEAR")
        ELSE PreTo([c EXCEPT !.pre.fault = "SHORT_CIRCUIT"], "FAULT")

(* Variants: in every state that is not at rest; where the duty rises.     *)
OcpWatchedAlways(s) == s \notin {"IDLE", "OCP_RECOVER", "FAULT"}
OcpWatchedInDuty(s) == s = "RAMP_DUTY"
(* Where precharge_step looks at the over-current.                         *)
OcpWatched(s) == s = "EN_CLEAR" \/ s \in Ramps

(* precharge_step.                                                         *)
PrechargeStep(b0, in) ==
    LET b1 == IF OcpWatched(b0.pre.fsm.state) /\ in.ocp THEN PreTo(b0, "OCP_RECOVER") ELSE b0
        b == IF FsmEntering(b1.pre.fsm) THEN PreEntered(b1) ELSE b1
        s == b.pre.fsm.state
    IN  CASE s = "IDLE"        -> PreIdle(b)
          [] s = "EN_CLEAR"    -> PrePhase(b, EnClear, "PREBIAS")
          [] s = "PREBIAS"     -> PreBias(b, in)
          [] s = "RAMP_TON"    -> PrePhase(b, Phase2, "RAMP_FREQ")
          [] s = "RAMP_FREQ"   -> PrePhase(b, Phase3, "RAMP_DUTY")
          [] s = "RAMP_DUTY"   -> RampDuty(b, in)
          [] s = "OCP_RECOVER" -> OcpRecover(b)
          [] OTHER             -> PreTo(b, s)

(* Variant: the seed is left.                                              *)
PreResetSeeded(b) ==
    PreTo([b EXCEPT !.pre.start = FALSE, !.pre.retry = 0, !.pre.fault = "NONE",
                    !.pre.done = FALSE, !.on = @ \ {"chg"}], "IDLE")
(* precharge_reset_ctx, precharge_begin.                                   *)
PreReset(b) ==
    PreTo([b EXCEPT !.pre.start = FALSE, !.pre.retry = 0, !.pre.fault = "NONE",
                    !.pre.done = FALSE, !.pre.seed = 0, !.on = @ \ {"chg"}], "IDLE")
PreBegin(b) == [PreReset(b) EXCEPT !.pre.start = TRUE, !.pre.done = FALSE]

-----------------------------------------------------------------------------
(* The power-up sequence.                                                  *)

(* pwr_entry_cb.                                                           *)
SeqEntered(b0) ==
    LET b == [b0 EXCEPT !.seq.steady = 0]
    IN  CASE b.seq.fsm.state = "AUX"       -> [b EXCEPT !.on = @ \ {"brake"}]
          [] b.seq.fsm.state = "PRECHARGE" -> PreBegin(b)
          [] b.seq.fsm.state = "MOTOR"     ->
                [b EXCEPT !.seq.handed = FALSE, !.on = @ \cup {"motor"}]
          [] OTHER                         -> b

(* pwr_state_idle.  The counter is static: only the end of a discharge     *)
(* resets it.                                                              *)
BrakeOff(b) == [b EXCEPT !.seq.brake = FALSE, !.seq.spent = 0, !.on = @ \ {"brake"}]
(* Variant: two ticks short.                                               *)
ExhaustedEarly(b) == b.seq.spent >= Discharge
Exhausted(b) == b.seq.spent > Discharge
Braking(b, in) ==
    IF ~b.seq.brake THEN b
    ELSE IF in.bus < DischargedMv \/ Exhausted(b) THEN BrakeOff(b)
    ELSE [b EXCEPT !.seq.spent = @ + 1]
SeqIdle(b, in) == SeqTo(Braking(b, in), IF b.seq.req THEN "AUX" ELSE "IDLE")

SeqPrecharge(b) ==
    IF b.pre.fault # "NONE" THEN SeqTo([b EXCEPT !.seq.req = FALSE], "IDLE")
    ELSE SeqTo(b, IF b.pre.done THEN "MOTOR" ELSE "PRECHARGE")

(* Variant: without the time limit.                                        *)
HandsOverFull(b, in) == in.vin > 0 /\ in.bus >= (in.vin * 98) \div 100
HandsOver(b, in) ==
    \/ in.vin > 0 /\ in.bus >= (in.vin * 98) \div 100
    \/ b.seq.steady >= Handover
SeqMotor(b, in) ==
    LET c == IF ~b.seq.handed /\ HandsOver(b, in)
             THEN [PreReset(b) EXCEPT !.seq.handed = TRUE] ELSE b
    IN  SeqTo(c, IF c.seq.handed /\ b.seq.steady >= Steady THEN "DONE" ELSE "MOTOR")

(* The rest of srv_pwr_ctrl_step.                                          *)
SeqStep(b0, in) ==
    LET b1 == [b0 EXCEPT !.seq.steady = UpTo(@, Steady + Handover)]
        b == IF FsmEntering(b1.seq.fsm) THEN SeqEntered(b1) ELSE b1
        s == b.seq.fsm.state
    IN  CASE s = "IDLE"      -> SeqIdle(b, in)
          [] s = "AUX"       -> SeqTo(b, IF b.seq.steady >= Steady THEN "PRECHARGE" ELSE "AUX")
          [] s = "PRECHARGE" -> SeqPrecharge(b)
          [] s = "MOTOR"     -> SeqMotor(b, in)
          [] s = "DONE"      -> SeqTo(b, "DONE")

(* Variant: the soft start goes on.                                        *)
EmergencyOffHalf(b) ==
    IF ~b.seq.req THEN b
    ELSE SeqTo([b EXCEPT !.seq.req = FALSE, !.seq.steady = 0, !.seq.brake = TRUE,
                         !.on = (@ \ {"motor"}) \cup {"brake"}], "IDLE")
(* srv_pwr_ctrl_emergency_off: nothing is done for who has not requested.  *)
EmergencyOff(b) ==
    IF ~b.seq.req THEN b
    ELSE PreReset(SeqTo([b EXCEPT !.seq.req = FALSE, !.seq.steady = 0, !.seq.brake = TRUE,
                                  !.on = (@ \ {"motor"}) \cup {"brake"}], "IDLE"))

-----------------------------------------------------------------------------
(* app_fault_policy_step.  While it is tripped and the button is pressed   *)
(* it returns before it takes note of the button.                          *)
PowerFault(b, in) == b.seq.fsm.state = "DONE" /\ (in.trouble \/ in.ocp)
Released(b, in) == b.pol.last /\ ~in.estop
Tripping(b, in) ==
    IF in.estop \/ PowerFault(b, in)
    THEN EmergencyOff([b EXCEPT !.pol.tripped = TRUE]) ELSE b
Acknowledged(b, in) ==
    IF Released(b, in)
    THEN [b EXCEPT !.pol.last = FALSE, !.pol.tripped = FALSE, !.seq.req = TRUE]
    ELSE [b EXCEPT !.pol.last = in.estop]
(* Variant: the button is noted in any case.                               *)
PolicyPassNoting(b, in) ==
    Acknowledged(IF b.pol.tripped /\ in.estop THEN b ELSE Tripping(b, in), in)
PolicyPass(b, in) ==
    IF b.pol.tripped /\ in.estop THEN b ELSE Acknowledged(Tripping(b, in), in)

(* power_timer_cb.                                                         *)
PowerTick(in) ==
    /\ serene => ~in.ocp /\ ~in.estop /\ ~in.trouble /\ in.bus >= NoLoadMv
    /\ seen' = [ocp |-> in.ocp, low |-> in.bus < DischargedMv]
    /\ UNCHANGED serene
    /\ \E charged \in {PrechargeStep(Whole, in)} :
       \E stepped \in {SeqStep(charged, in)} :
       \E b \in {PolicyPass(stepped, in)} :
          seq' = b.seq /\ pre' = b.pre /\ on' = b.on /\ pol' = b.pol
    /\ starts' = IF FsmEntering(seq.fsm) /\ seq.fsm.state = "PRECHARGE" THEN 0
                 ELSE IF "chg" \in on' \ on THEN UpTo(starts, RetryMax + 2) ELSE starts
    /\ cold' = IF pre.fsm.state = "PREBIAS" THEN pre'.fsm.state = "RAMP_TON" ELSE cold
    /\ braked' = IF "brake" \in on \cap on' THEN UpTo(braked, Discharge + 2) ELSE 0
    /\ resumed' = (seq'.spent > 0 /\ (resumed \/ "brake" \in on \ on'))
    /\ asked' = (asked \/ seq'.req)

(* External: trouble ends.                                                 *)
Serene ==
    /\ serene' = TRUE
    /\ UNCHANGED <<board, starts, cold, braked, resumed, seen, asked>>

PrechargeNext == (\E in \in Samples : PowerTick(in)) \/ Serene
(* The main loop runs, and a tick always has some input.                   *)
PrechargeFairness == WF_prechargeVars(\E in \in Samples : PowerTick(in))
PrechargeSpec == PrechargeInit /\ [][PrechargeNext]_prechargeVars /\ PrechargeFairness

-----------------------------------------------------------------------------
(* Type invariant of the board and of the history.                         *)
PrechargeTypeOK ==
    /\ seq.fsm \in [state : SeqStates, last : SeqStates]
    /\ {seq.req, seq.handed, seq.brake} \subseteq BOOLEAN
    /\ seq.steady \in 0 .. Steady + Handover /\ seq.spent \in 0 .. Discharge + 1
    /\ pre.fsm \in [state : PreStates, last : PreStates]
    /\ pre.phase \in Nat /\ pre.retry \in 0 .. RetryMax /\ pre.seed \in 0 .. Phase4
    /\ pre.fault \in Faults /\ {pre.start, pre.done} \subseteq BOOLEAN
    /\ on \subseteq Switches /\ {pol.tripped, pol.last} \subseteq BOOLEAN
    /\ starts \in 0 .. RetryMax + 2 /\ braked \in 0 .. Discharge + 2
    /\ {cold, resumed, seen.ocp, seen.low, asked, serene} \subseteq BOOLEAN

(* A trip leaves no way back to power: nothing is requested, MOTOR is off, *)
(* the converter too (it may still be on for the tick in which its own     *)
(* fault has stopped the sequence: the machine switches it off on its next *)
(* step), and the brake never works against a supply that is switched on.  *)
TrippedIsOff ==
    /\ pol.tripped \/ pol.last =>
          /\ ~seq.req /\ seq.fsm.state = "IDLE" /\ "motor" \notin on
          /\ "chg" \in on => pre.fsm.state = "FAULT"
    /\ "brake" \in on => on = {"brake"}

(* MOTOR is switched on only onto a supply that the converter has charged  *)
(* and still holds, until the sequence itself has handed over.             *)
MotorTakesOver == "motor" \in on => seq.handed \/ pre.fsm.state = "STEADY"

(* A short circuit is given RetryMax further starts per power-up, no more, *)
(* whatever path the soft start takes (warm, cold, from either ramp).      *)
StartsBounded == starts <= RetryMax + 1

(* The converter does not stay on over a tick that reads an over-current,  *)
(* except in STEADY, which the code leaves out of the check.  (The comment *)
(* at srv_pwr_ctrl.c:533 says in any active state.)                        *)
OcpStopsConverter == seen.ocp /\ "chg" \in on => pre.fsm.state = "STEADY"

(* A full ramp starts from its beginning: a cold start has no seed         *)
(* (srv_pwr_ctrl.c:147).                                                   *)
ColdStartsAtZero == cold /\ pre.fsm.state \in Ramps => pre.seed = 0
(* What the code keeps of it: only a retry can meet the seed of an earlier *)
(* warm start of the same power-up.                                        *)
OnlyRetriesAreSeeded == ~ColdStartsAtZero => pre.retry > 0

(* The soft start charges the supply once and for MOTOR, whatever order    *)
(* over-currents, recoveries and the sequence take: all of the above.      *)
SoftStartIsSafe ==
    MotorTakesOver /\ StartsBounded /\ OcpStopsConverter /\ OnlyRetriesAreSeeded

(* The brake works until the supply is down or for its full time, unless   *)
(* the next power-up ends it, or an earlier discharge was ended that way:  *)
(* its count is never reset and shortens the next one.                     *)
DischargeEndsEarly ==
    "brake" \in on /\ "brake" \notin on' /\ seq.fsm.state = "IDLE" /\ braked < Discharge + 1
DischargeIsFull ==
    [][DischargeEndsEarly /\ ~resumed => seen'.low]_prechargeVars

(* A trip that no button caused is never acknowledged: pressing the button *)
(* returns before it is noted, so that releasing it is no edge, and nobody *)
(* else calls app_fault_policy_reset.                                      *)
FaultTripIsFinal == [][pol.tripped /\ ~pol.last => pol'.tripped /\ ~pol'.last]_prechargeVars

(* Without trouble the board powers up, unless a fault of the soft start   *)
(* or a trip is on record, or the button was pressed when the board        *)
(* started and released before the policy's first step: it then sees no    *)
(* edge, and nobody asks for power.                                        *)
SerenePowersUp ==
    serene ~> \/ seq.fsm.state = "DONE" \/ pol.tripped \/ ~asked
              \/ ~seq.req /\ pre.fault # "NONE"
=============================================================================
